-------------------------- MODULE LifecycleProofs --------------------------
(***************************************************************************)
(* The invariants of Lifecycle, for any number of sessions, of handles and *)
(* of events.                                                              *)
(***************************************************************************)
EXTENDS Lifecycle, TLAPS

(* What the coordinator and the disk check may raise.                      *)
StateIssues == UNION {Issues(st) : st \in States}

AllIssues == StateIssues \cup {"watcher_restarting", "disk_space_low"}

CallPoints == [step : {"idle", "flush", "closing", "stat", "sweep", "done"}, at : 0..MaxSessions]

(* A call that waits for a session names one, and the timer a service      *)
(* names is armed.                                                         *)
LifecycleTypes ==
    /\ state \in States /\ raised \subseteq AllIssues
    /\ opened \in BOOLEAN /\ stopping \in BOOLEAN /\ ticking \in BOOLEAN /\ blocked \in BOOLEAN
    /\ session \in 0..MaxSessions /\ sessions \in 0..MaxSessions
    /\ underway \in BOOLEAN /\ crossed \in BOOLEAN /\ dirty \in BOOLEAN
    /\ call \in [Callers -> CallPoints]
    /\ \A c \in Callers : call[c].step \in {"flush", "closing"} => call[c].at # 0
    /\ index \in [Sessions -> {"none", "scan", "visited", "done", "thrown"}]
    /\ sweep \in {"none", "stat", "visit"}
    /\ backlog \in [Sessions -> {"empty", "waiting", "running", "rerun"}]
    /\ halted \in [Sessions -> BOOLEAN] /\ known \in [Sessions -> BOOLEAN]
    /\ buffering \in [Sessions -> BOOLEAN] /\ buffered \in [Sessions -> BOOLEAN]
    /\ armed \in [Sessions -> Nat] /\ closing \in [Sessions -> Nat]
    /\ \A s \in Sessions : known[s] => armed[s] > 0

(* What a service calls its watcher is a handle it owns, and only a handle *)
(* somebody owns reports.                                                  *)
HandlesOK ==
    /\ watcher \in [Sessions -> 0..MaxHandles] /\ owner \in [Handles -> 0..MaxSessions]
    /\ scanned \in [Handles -> BOOLEAN] /\ news \in [Handles -> BOOLEAN]
    /\ \A s \in Sessions : watcher[s] # 0 => owner[watcher[s]] = s
    /\ \A h \in Handles : scanned[h] \/ news[h] => owner[h] # 0

(* No restart of the watcher of session s is under way.                    *)
Quiet(s) == armed[s] = 0 /\ closing[s] = 0

(* One stop at a time: it waits for the session there is, and when it      *)
(* closes the watcher nothing is left to do for it.                        *)
OneStop ==
    /\ \A c, d \in Stoppers : Opening(c) /\ Opening(d) => c = d
    /\ \A c \in Stoppers :
          /\ Opening(c) => stopping
          /\ call[c].step \in {"flush", "closing"} => call[c].at = session
          /\ call[c].step = "closing" =>
                /\ backlog[session] = "empty" /\ halted[session]
                /\ Quiet(session) /\ watcher[session] = 0
                /\ call["wake"].step # "closing"
          /\ call[c].step = "stat" => session = 0
    /\ opened /\ session = 0 => stopping
    /\ Exited => session = 0

(* Nothing is left of an earlier session, and the watcher there is, its    *)
(* restart and the restart after a wake-up exclude one another.            *)
OneRestart ==
    /\ \A s \in Sessions \ {session} : backlog[s] = "empty" /\ Quiet(s)
    /\ \A s \in Sessions :
          /\ watcher[s] # 0 => Quiet(s)
          /\ armed[s] + closing[s] <= 1
          /\ known[s] <=> armed[s] # 0
    /\ call["wake"].step = "closing" =>
          /\ call["wake"].at = session
          /\ Quiet(session) /\ watcher[session] = 0

(* Before a folder has been opened there is nothing that could change the  *)
(* state.                                                                  *)
Unopened ==
    ~opened =>
        /\ state = "stopped" /\ session = 0 /\ sweep = "none"
        /\ call["pause"].step = "idle"
        /\ \A s \in Sessions : index[s] = "none"

(* What the state says is raised; with no session it is one of two states, *)
(* and while it is paused nothing records.                                 *)
Shown ==
    /\ opened => Issues(state) \subseteq raised
    /\ opened /\ session = 0 /\ ~underway =>
          state \in {"stopped", "unavailable"} /\ sweep = "none"

Resting ==
    state = "paused" /\ ~underway =>
        /\ sweep = "none"
        /\ \A s \in Sessions : index[s] # "scan" /\ backlog[s] = "empty"

Orderly ==
    ~crossed => OneWatcher /\ OneStop /\ OneRestart /\ Unopened /\ Shown /\ Resting /\ LossIsShown

SpaceIsShown == blocked => "disk_space_low" \in raised

LifecycleInv == LifecycleTypes /\ HandlesOK /\ Orderly /\ SpaceIsShown

-----------------------------------------------------------------------------
\* The issues a state of the vault shows are known ones, and "unavailable" shows one.
LEMMA IssuesOf ==
    /\ Issues("paused") = {"tracking_paused"}
    /\ Issues("stopped") = {"tracking_stopped"}
    /\ Issues("unavailable") = {"vault_unavailable"}
    /\ \A st \in {"starting", "indexing", "active", "degraded"} : Issues(st) = {}
    /\ \A st \in States : Issues(st) \subseteq AllIssues
    /\ \A st \in States : Issues(st) \cap {"watcher_restarting", "disk_space_low"} = {}
    /\ {"watcher_restarting", "disk_space_low"} \subseteq AllIssues
<1>1. /\ Issues("paused") = {"tracking_paused"}
      /\ Issues("stopped") = {"tracking_stopped"}
      /\ Issues("unavailable") = {"vault_unavailable"}
      /\ \A st \in {"starting", "indexing", "active", "degraded"} : Issues(st) = {}
  BY DEF Issues
<1>2. \A st \in States : Issues(st) \subseteq AllIssues
  BY DEF AllIssues, StateIssues
<1>3. {"watcher_restarting", "disk_space_low"} \subseteq AllIssues
  BY DEF AllIssues
<1>4. \A st \in States : Issues(st) \cap {"watcher_restarting", "disk_space_low"} = {}
  BY <1>1 DEF States
<1>5. QED
  BY <1>1, <1>2, <1>3, <1>4

(* What a change of the state does to the issues.                          *)
LEMMA StateIsSet ==
    ASSUME NEW st \in States, SetState(st), raised \subseteq AllIssues
    PROVE  /\ state' = st /\ raised' \subseteq AllIssues
           /\ st # state \/ Issues(state) \subseteq raised => Issues(st) \subseteq raised'
           /\ "disk_space_low" \in raised => "disk_space_low" \in raised'
           /\ "watcher_restarting" \in raised => "watcher_restarting" \in raised'
           /\ st = state => raised' = raised
<1>1. CASE st = state
  BY <1>1 DEF SetState
<1>2. CASE st # state
  <2> DEFINE others == UNION {Issues(other) : other \in States \ {st}}
  <2>1. /\ "disk_space_low" \notin others /\ "watcher_restarting" \notin others
    BY IssuesOf
  <2> HIDE DEF others
  <2>2. state' = st /\ raised' = (raised \ others) \cup Issues(st)
    BY <1>2 DEF SetState, others
  <2>3. QED
    BY <1>2, <2>1, <2>2, IssuesOf
<1>3. QED
  BY <1>1, <1>2

\* A call that takes its next step changes that entry of the table of calls only.
LEMMA CallGoes ==
    ASSUME call \in [Callers -> CallPoints], NEW c \in Callers, NEW at \in 0..MaxSessions,
           NEW step \in {"idle", "flush", "closing", "stat", "sweep", "done"},
           Goes(c, step, at)
    PROVE  /\ call' \in [Callers -> CallPoints]
           /\ call'[c].step = step /\ call'[c].at = at
           /\ \A d \in Callers \ {c} : call'[d] = call[d]
<1>1. At(step, at) \in CallPoints /\ At(step, at).step = step /\ At(step, at).at = at
  BY DEF At, CallPoints
<1>2. QED
  BY <1>1 DEF Goes

(* The handles as a service spawns or closes one.                          *)
LEMMA Spawns ==
    ASSUME HandlesOK, NEW s \in Sessions, Spawn(s)
    PROVE  /\ HandlesOK'
           /\ watcher'[s] \in Handles /\ \A t \in Sessions \ {s} : watcher'[t] = watcher[t]
           /\ owner'[watcher'[s]] = s
           /\ \A h \in Handles : h # watcher'[s] => owner'[h] = owner[h]
<1>1. PICK h \in Handles :
          /\ owner[h] = 0
          /\ owner' = [owner EXCEPT ![h] = s]
          /\ watcher' = [watcher EXCEPT ![s] = h]
          /\ UNCHANGED <<scanned, news>>
  BY DEF Spawn
<1>2. s \in 1..MaxSessions /\ h \in 1..MaxHandles
  BY DEF Sessions, Handles
<1>3. \A t \in Sessions : watcher[t] # h
  <2> SUFFICES ASSUME NEW t \in Sessions, watcher[t] = h PROVE FALSE
    OBVIOUS
  <2>1. t # 0 /\ h # 0
    BY <1>2, LifecycleAssumption DEF Sessions
  <2>2. owner[h] = t
    BY <2>1 DEF HandlesOK
  <2>3. QED
    BY <1>1, <2>1, <2>2
<1>4. s # 0 /\ h # 0 /\ s \in 0..MaxSessions /\ h \in 0..MaxHandles
  BY <1>2, LifecycleAssumption
<1>5. /\ watcher' \in [Sessions -> 0..MaxHandles] /\ owner' \in [Handles -> 0..MaxSessions]
      /\ watcher'[s] = h /\ \A t \in Sessions \ {s} : watcher'[t] = watcher[t]
      /\ owner'[h] = s /\ \A g \in Handles \ {h} : owner'[g] = owner[g]
  BY <1>1, <1>4 DEF HandlesOK
<1>6. \A t \in Sessions : watcher'[t] # 0 => owner'[watcher'[t]] = t
  <2> SUFFICES ASSUME NEW t \in Sessions, t # s, watcher[t] # 0
               PROVE  owner'[watcher[t]] = t
    BY <1>5
  <2>1. watcher[t] \in Handles
    BY LifecycleAssumption DEF HandlesOK, Handles
  <2>2. QED
    BY <1>3, <1>5, <2>1 DEF HandlesOK
<1>7. QED
  BY <1>1, <1>4, <1>5, <1>6 DEF HandlesOK

\* A session lets go of its watcher: what the tables of handles and watchers hold afterwards.
LEMMA Closes ==
    ASSUME HandlesOK, NEW s \in Sessions, Close(s)
    PROVE  /\ HandlesOK'
           /\ watcher'[s] = 0 /\ \A t \in Sessions \ {s} : watcher'[t] = watcher[t]
           /\ \A h \in Handles : owner'[h] = IF h = watcher[s] THEN 0 ELSE owner[h]
<1>1. /\ watcher' = [watcher EXCEPT ![s] = 0]
      /\ owner' = [h \in Handles |-> IF h = watcher[s] THEN 0 ELSE owner[h]]
      /\ scanned' = [h \in Handles |-> scanned[h] /\ h # watcher[s]]
      /\ news' = [h \in Handles |-> news[h] /\ h # watcher[s]]
  BY DEF Close
<1>2. \A t \in Sessions \ {s} : watcher[t] # 0 => watcher[t] # watcher[s]
  BY DEF HandlesOK
<1>3. /\ watcher' \in [Sessions -> 0..MaxHandles]
      /\ watcher'[s] = 0 /\ \A t \in Sessions \ {s} : watcher'[t] = watcher[t]
  BY <1>1, LifecycleAssumption DEF HandlesOK
<1>4. /\ owner' \in [Handles -> 0..MaxSessions]
      /\ \A h \in Handles : owner'[h] = IF h = watcher[s] THEN 0 ELSE owner[h]
  BY <1>1, LifecycleAssumption DEF HandlesOK
<1>5. \A t \in Sessions : watcher'[t] # 0 => owner'[watcher'[t]] = t
  <2> SUFFICES ASSUME NEW t \in Sessions, t # s, watcher[t] # 0
               PROVE  owner'[watcher[t]] = t
    BY <1>3
  <2>1. watcher[t] \in Handles
    BY LifecycleAssumption DEF HandlesOK, Handles
  <2>2. QED
    BY <1>2, <1>4, <2>1 DEF HandlesOK
<1>6. /\ scanned' \in [Handles -> BOOLEAN] /\ news' \in [Handles -> BOOLEAN]
      /\ \A h \in Handles : /\ scanned'[h] <=> scanned[h] /\ h # watcher[s]
                            /\ news'[h] <=> news[h] /\ h # watcher[s]
  BY <1>1 DEF HandlesOK
<1>7. \A h \in Handles : scanned'[h] \/ news'[h] => owner'[h] # 0
  BY <1>4, <1>6 DEF HandlesOK
<1>8. QED
  BY <1>3, <1>4, <1>5, <1>6, <1>7 DEF HandlesOK

-----------------------------------------------------------------------------
\* Nothing has been launched yet: every part of the invariant holds of the first state.
LEMMA LifecycleInitHolds == LifecycleInit => LifecycleInv
<1> SUFFICES ASSUME LifecycleInit PROVE LifecycleInv
  OBVIOUS
<1>1. /\ call \in [Callers -> CallPoints]
      /\ \A c \in Callers : call[c].step = "idle" /\ call[c].at = 0
  BY LifecycleAssumption DEF LifecycleInit, CallPoints
<1>2. LifecycleTypes
  <2>1. state \in States /\ raised \subseteq AllIssues
    BY DEF LifecycleInit, States
  <2>2. /\ halted \in [Sessions -> BOOLEAN] /\ known \in [Sessions -> BOOLEAN]
        /\ buffering \in [Sessions -> BOOLEAN] /\ buffered \in [Sessions -> BOOLEAN]
        /\ armed \in [Sessions -> Nat] /\ closing \in [Sessions -> Nat]
        /\ \A s \in Sessions : known[s] => armed[s] > 0
    BY DEF LifecycleInit
  <2>3. /\ index \in [Sessions -> {"none", "scan", "visited", "done", "thrown"}]
        /\ backlog \in [Sessions -> {"empty", "waiting", "running", "rerun"}]
        /\ sweep \in {"none", "stat", "visit"}
    BY DEF LifecycleInit
  <2>4. /\ session \in 0..MaxSessions /\ sessions \in 0..MaxSessions
        /\ \A c \in Callers : call[c].step \in {"flush", "closing"} => call[c].at # 0
    BY <1>1, LifecycleAssumption DEF LifecycleInit
  <2>5. QED
    BY <1>1, <2>1, <2>2, <2>3, <2>4 DEF LifecycleInit, LifecycleTypes
<1>3. HandlesOK
  BY LifecycleAssumption DEF LifecycleInit, HandlesOK, Handles
<1>4. OneWatcher /\ OneStop /\ OneRestart
  BY <1>1 DEF LifecycleInit, OneWatcher, OneStop, OneRestart, Quiet, Opening, Exited, Stoppers,
              Openers, Callers
<1>5. Unopened /\ Shown /\ Resting /\ LossIsShown
  BY <1>1 DEF LifecycleInit, Unopened, Shown, Resting, LossIsShown, Callers
<1>6. QED
  BY <1>2, <1>3, <1>4, <1>5 DEF LifecycleInv, Orderly, SpaceIsShown, LifecycleInit

USE DEF history, callVars, serviceVars, handleVars, worldVars, flags, stateVars

\* How a stop ends: no session, state stopped and shown, and the call that stopped goes on.
LEMMA Stops ==
    ASSUME LifecycleTypes, NEW c \in Stoppers, Stopped(c)
    PROVE  /\ session' = 0 /\ state' = "stopped" /\ raised' \subseteq AllIssues
           /\ state # "stopped" \/ Issues(state) \subseteq raised =>
                 Issues("stopped") \subseteq raised'
           /\ "disk_space_low" \in raised => "disk_space_low" \in raised'
           /\ call' \in [Callers -> CallPoints]
           /\ call'[c].step = IF c = "quit" THEN "done" ELSE "stat"
           /\ \A d \in Callers \ {c} : call'[d] = call[d]
           /\ underway' \in BOOLEAN
           /\ underway' <=> underway \/ sweep # "none"
<1>1. /\ "stopped" \in States /\ c \in Callers /\ 0 \in 0..MaxSessions
  BY LifecycleAssumption DEF States, Callers
<1>2. /\ session' = 0 /\ SetState("stopped")
      /\ Goes(c, IF c = "quit" THEN "done" ELSE "stat", 0)
      /\ underway' = (underway \/ sweep # "none")
  BY DEF Stopped
<1>3. /\ state' = "stopped" /\ raised' \subseteq AllIssues
      /\ state # "stopped" \/ Issues(state) \subseteq raised =>
            Issues("stopped") \subseteq raised'
      /\ "disk_space_low" \in raised => "disk_space_low" \in raised'
  BY <1>1, <1>2, StateIsSet DEF LifecycleTypes
<1>4. /\ call' \in [Callers -> CallPoints]
      /\ call'[c].step = IF c = "quit" THEN "done" ELSE "stat"
      /\ \A d \in Callers \ {c} : call'[d] = call[d]
  BY <1>1, <1>2, CallGoes DEF LifecycleTypes
<1>5. QED
  BY <1>2, <1>3, <1>4

\* How a check of the disk ends: the state it sets is shown, and a resume that waited is over.
LEMMA SweepDone ==
    ASSUME LifecycleTypes, NEW st \in States, SweepReturns(st)
    PROVE  /\ sweep' = "none" /\ state' \in States /\ raised' \subseteq AllIssues
           /\ state' = IF call["resume"].step = "sweep" THEN "active" ELSE st
           /\ state' # state \/ Issues(state) \subseteq raised => Issues(state') \subseteq raised'
           /\ "disk_space_low" \in raised => "disk_space_low" \in raised'
           /\ "watcher_restarting" \in raised => "watcher_restarting" \in raised'
           /\ call' \in [Callers -> CallPoints]
           /\ \/ call' = call
              \/ call["resume"].step = "sweep" /\ call'["resume"].step = "idle"
           /\ \A d \in Callers \ {"resume"} : call'[d] = call[d]
           /\ UNCHANGED <<flags, index, history, backlog, serviceVars, handleVars>>
<1> DEFINE next == IF call["resume"].step = "sweep" THEN "active" ELSE st
<1>1. next \in States /\ "resume" \in Callers /\ 0 \in 0..MaxSessions
  BY LifecycleAssumption DEF States, Callers
<1>2. /\ sweep' = "none" /\ SetState(next)
      /\ IF call["resume"].step = "sweep" THEN Goes("resume", "idle", 0) ELSE UNCHANGED call
      /\ UNCHANGED <<flags, index, history, backlog, serviceVars, handleVars>>
  BY DEF SweepReturns, Reconciling
<1>3. /\ call' \in [Callers -> CallPoints]
      /\ call' = call \/ (call["resume"].step = "sweep" /\ call'["resume"].step = "idle")
      /\ \A d \in Callers \ {"resume"} : call'[d] = call[d]
  BY <1>1, <1>2, CallGoes DEF LifecycleTypes
<1> HIDE DEF next
<1>4. /\ state' = next /\ raised' \subseteq AllIssues
      /\ next # state \/ Issues(state) \subseteq raised => Issues(next) \subseteq raised'
      /\ "disk_space_low" \in raised => "disk_space_low" \in raised'
      /\ "watcher_restarting" \in raised => "watcher_restarting" \in raised'
  BY <1>1, <1>2, StateIsSet DEF LifecycleTypes
<1>5. QED
  BY <1>1, <1>2, <1>3, <1>4 DEF next

-----------------------------------------------------------------------------
(* Stopping.                                                               *)
LEMMA BeginStopKeeps ==
    ASSUME NEW c \in Stoppers
    PROVE  LifecycleInv /\ BeginStop(c) => LifecycleInv'
<1> SUFFICES ASSUME LifecycleInv, BeginStop(c) PROVE LifecycleInv'
  OBVIOUS
<1>1. LifecycleTypes /\ HandlesOK /\ Orderly /\ SpaceIsShown
  BY DEF LifecycleInv
<1>2. /\ call[c].step = "idle" /\ c \in Callers
      /\ stopping' = TRUE /\ ticking' = FALSE
      /\ crossed' = (crossed \/ \E o \in Stoppers : Opening(o))
      /\ UNCHANGED <<opened, sessions, blocked, index, sweep, backlog, serviceVars, handleVars,
                     dirty>>
  BY DEF BeginStop, StopTimers, Callers
<1>3. /\ call' \in [Callers -> CallPoints] /\ \A d \in Callers \ {c} : call'[d] = call[d]
      /\ underway' \in BOOLEAN
      /\ \/ /\ session = 0
            /\ session' = 0 /\ state' = "stopped" /\ raised' \subseteq AllIssues
            /\ state # "stopped" \/ Issues(state) \subseteq raised =>
                  Issues("stopped") \subseteq raised'
            /\ "disk_space_low" \in raised => "disk_space_low" \in raised'
            /\ call'[c].step = IF c = "quit" THEN "done" ELSE "stat"
            /\ underway' <=> underway \/ sweep # "none"
         \/ /\ session # 0 /\ UNCHANGED <<session, underway, state, raised>>
            /\ call'[c].step = "flush" /\ call'[c].at = session
  <2>1. CASE session = 0
    BY <1>1, <2>1, Stops DEF BeginStop
  <2>2. CASE session # 0
    BY <1>1, <1>2, <2>2, CallGoes DEF BeginStop, KeepState, LifecycleTypes
  <2>3. QED
    BY <2>1, <2>2
<1>4. LifecycleTypes'
  BY <1>1, <1>2, <1>3 DEF LifecycleTypes, States
<1>5. HandlesOK'
  BY <1>1, <1>2, <1>3 DEF HandlesOK, Callers, Stoppers, Openers
<1>6. ASSUME ~crossed'
      PROVE  /\ OneWatcher' /\ OneStop' /\ OneRestart'
             /\ Unopened' /\ Shown' /\ Resting' /\ LossIsShown'
  <2>1. /\ ~crossed /\ OneWatcher /\ OneStop /\ OneRestart
        /\ Unopened /\ Shown /\ Resting /\ LossIsShown
    BY <1>1, <1>2, <1>3, <1>6 DEF Orderly
  <2>2. OneWatcher'
    BY <1>1, <1>2, <1>3, <2>1 DEF OneWatcher, LifecycleTypes, HandlesOK, Callers, Stoppers, Openers
  <2>3. OneStop'
    BY <1>1, <1>2, <1>3, <2>1, <1>6
       DEF OneStop, Opening, Exited, LifecycleTypes, Callers, Stoppers, Openers
  <2>4. OneRestart'
    BY <1>1, <1>2, <1>3, <2>1 DEF OneRestart, Quiet, LifecycleTypes, HandlesOK, Callers, Stoppers, Openers
  <2>5. Unopened'
    BY <1>1, <1>2, <1>3, <2>1 DEF Unopened, LifecycleTypes, OneWatcher, Callers, Stoppers, Openers
  <2>6. Shown'
    BY <1>1, <1>2, <1>3, <2>1, IssuesOf DEF Shown, LifecycleTypes, Callers, Stoppers, Openers
  <2>7. Resting'
    BY <1>1, <1>2, <1>3, <2>1 DEF Resting, LifecycleTypes, Callers, Stoppers, Openers
  <2>8. LossIsShown'
    BY <1>1, <1>2, <1>3, <2>1 DEF LossIsShown, OneWatcher, LifecycleTypes, Callers, Stoppers, Openers
  <2>9. QED
    BY <2>2, <2>3, <2>4, <2>5, <2>6, <2>7, <2>8
<1>7. SpaceIsShown'
  BY <1>1, <1>2, <1>3 DEF SpaceIsShown, LifecycleTypes, Callers, Stoppers, Openers
<1>8. QED
  BY <1>4, <1>5, <1>6, <1>7 DEF LifecycleInv, Orderly

\* The capture queue answered flush: the call goes on to close the watcher.
LEMMA FlushReturnsKeeps ==
    ASSUME NEW c \in Stoppers
    PROVE  LifecycleInv /\ StopFlushed(c) => LifecycleInv'
<1> SUFFICES ASSUME LifecycleInv, StopFlushed(c) PROVE LifecycleInv'
  OBVIOUS
<1>1. LifecycleTypes /\ HandlesOK /\ Orderly /\ SpaceIsShown
  BY DEF LifecycleInv
<1>2. /\ call[c].step = "flush" /\ backlog[call[c].at] = "empty" /\ c \in Callers
      /\ crossed' = (crossed \/ Restarting(session))
      /\ \/ session = 0 /\ Stopped(c) /\ UNCHANGED <<serviceVars, handleVars>>
         \/ /\ session \in Sessions /\ UNCHANGED closing
            /\ halted' = [halted EXCEPT ![session] = TRUE]
            /\ known' = [known EXCEPT ![session] = FALSE]
            /\ armed' = [armed EXCEPT ![session] = IF known[session] THEN armed[session] - 1
                                                                   ELSE armed[session]]
            /\ buffering' = [buffering EXCEPT ![session] = TRUE]
            /\ buffered' = [buffered EXCEPT ![session] = FALSE]
            /\ Close(session)
            /\ \/ watcher[session] = 0 /\ Stopped(c)
               \/ /\ watcher[session] # 0
                  /\ Goes(c, "closing", session) /\ UNCHANGED <<state, raised, session, underway>>
      /\ UNCHANGED <<opened, stopping, sessions, ticking, blocked, index, sweep, backlog,
                     worldVars>>
  BY <1>1, LifecycleAssumption
     DEF StopFlushed, Flushed, ClearTimer, KeepState, LifecycleTypes, Sessions, Callers
<1>3. /\ call' \in [Callers -> CallPoints] /\ \A d \in Callers \ {c} : call'[d] = call[d]
      /\ underway' \in BOOLEAN
      /\ \/ /\ session' = 0 /\ state' = "stopped" /\ raised' \subseteq AllIssues
            /\ state # "stopped" \/ Issues(state) \subseteq raised =>
                  Issues("stopped") \subseteq raised'
            /\ "disk_space_low" \in raised => "disk_space_low" \in raised'
            /\ call'[c].step = IF c = "quit" THEN "done" ELSE "stat"
            /\ underway' <=> underway \/ sweep # "none"
         \/ /\ session # 0 /\ watcher[session] # 0 /\ UNCHANGED <<state, raised, session, underway>>
            /\ call'[c].step = "closing" /\ call'[c].at = session
  <2>1. CASE Stopped(c)
    BY <1>1, <2>1, Stops
  <2>2. CASE /\ watcher[session] # 0 /\ session \in Sessions
             /\ Goes(c, "closing", session) /\ UNCHANGED <<state, raised, session, underway>>
    BY <1>1, <1>2, <2>2, CallGoes, LifecycleAssumption DEF LifecycleTypes, Sessions
  <2>3. QED
    BY <1>2, <2>1, <2>2
<1>4. /\ HandlesOK'
      /\ session # 0 =>
            /\ watcher'[session] = 0
            /\ \A s \in Sessions \ {session} : watcher'[s] = watcher[s]
            /\ \A h \in Handles : owner'[h] = IF h = watcher[session] THEN 0 ELSE owner[h]
  <2>1. CASE session = 0
    BY <1>1, <1>2, <2>1, LifecycleAssumption DEF HandlesOK, Sessions
  <2>2. CASE session \in Sessions
    BY <1>1, <1>2, <2>2, Closes, LifecycleAssumption DEF Sessions
  <2>3. QED
    BY <1>2, <2>1, <2>2
<1>5. /\ halted' \in [Sessions -> BOOLEAN] /\ known' \in [Sessions -> BOOLEAN]
      /\ buffering' \in [Sessions -> BOOLEAN] /\ buffered' \in [Sessions -> BOOLEAN]
      /\ armed' \in [Sessions -> Nat] /\ closing' = closing
      /\ \A s \in Sessions : known'[s] => armed'[s] > 0
  <2>1. CASE session = 0
    BY <1>1, <1>2, <2>1, LifecycleAssumption DEF LifecycleTypes, Sessions
  <2>2. CASE session \in Sessions
    <3>1. session # 0
      BY <2>2, LifecycleAssumption DEF Sessions
    <3>2. (IF known[session] THEN armed[session] - 1 ELSE armed[session]) \in Nat
      BY <1>1, <2>2 DEF LifecycleTypes
    <3>3. /\ halted' = [halted EXCEPT ![session] = TRUE]
          /\ known' = [known EXCEPT ![session] = FALSE]
          /\ buffering' = [buffering EXCEPT ![session] = TRUE]
          /\ buffered' = [buffered EXCEPT ![session] = FALSE]
          /\ closing' = closing
          /\ armed' = [armed EXCEPT ![session] = IF known[session] THEN armed[session] - 1
                                                  ELSE armed[session]]
      BY <1>2, <3>1
    <3>4. /\ halted' \in [Sessions -> BOOLEAN] /\ known' \in [Sessions -> BOOLEAN]
          /\ buffering' \in [Sessions -> BOOLEAN] /\ buffered' \in [Sessions -> BOOLEAN]
      BY <1>1, <3>3 DEF LifecycleTypes
    <3>5. armed' \in [Sessions -> Nat]
      BY <1>1, <3>2, <3>3 DEF LifecycleTypes
    <3>6. \A s \in Sessions : known'[s] => armed'[s] > 0
      BY <1>1, <2>2, <3>3 DEF LifecycleTypes
    <3>7. QED
      BY <3>3, <3>4, <3>5, <3>6
  <2>3. QED
    BY <1>2, <2>1, <2>2
<1>6. LifecycleTypes'
  <2>1. session' \in 0..MaxSessions /\ state' \in States /\ raised' \subseteq AllIssues
    BY <1>1, <1>2, <1>3, <1>4, <1>5, LifecycleAssumption DEF LifecycleTypes, States
  <2>2. \A d \in Callers : call'[d].step \in {"flush", "closing"} => call'[d].at # 0
    BY <1>1, <1>2, <1>3, <1>4, <1>5 DEF LifecycleTypes
  <2>3. QED
    BY <1>1, <1>2, <1>3, <1>4, <1>5, <2>1, <2>2 DEF LifecycleTypes
<1>7. HandlesOK'
  BY <1>4
<1>8. ASSUME ~crossed'
      PROVE  /\ OneWatcher' /\ OneStop' /\ OneRestart'
             /\ Unopened' /\ Shown' /\ Resting' /\ LossIsShown'
  <2>1. /\ ~crossed /\ OneWatcher /\ OneStop /\ OneRestart
        /\ Unopened /\ Shown /\ Resting /\ LossIsShown
    BY <1>1, <1>2, <1>3, <1>4, <1>5, <1>8 DEF Orderly
  <2>2. /\ session \in Sessions /\ session # 0 /\ backlog[session] = "empty"
        /\ closing[session] = 0 /\ armed'[session] = 0 /\ call["wake"].step # "closing"
        /\ \A s \in Sessions \ {session} : armed'[s] = armed[s] /\ known'[s] = known[s]
        /\ ~known'[session] /\ halted'[session]
    <3>1. call[c].at = session /\ session # 0 /\ session \in Sessions /\ ~Restarting(session)
      BY <1>1, <1>2, <1>3, <1>4, <1>5, <2>1, <1>8, LifecycleAssumption
         DEF OneStop, LifecycleTypes, Sessions
    <3>2. closing[session] = 0 /\ call["wake"].step # "closing"
      BY <1>1, <1>2, <1>3, <1>4, <1>5, <2>1, <3>1
         DEF Restarting, At, OneRestart, LifecycleTypes, CallPoints, Callers
    <3>3. armed'[session] = 0 /\ ~known'[session] /\ halted'[session]
      BY <1>1, <1>2, <1>3, <1>4, <1>5, <2>1, <3>1, <3>2 DEF OneRestart, LifecycleTypes
    <3>4. QED
      BY <1>1, <1>2, <1>3, <1>4, <1>5, <2>1, <3>1, <3>2, <3>3 DEF LifecycleTypes
  <2>3. OneWatcher'
    BY <1>1, <1>2, <1>3, <1>4, <1>5, <2>1, <2>2, LifecycleAssumption
       DEF OneWatcher, HandlesOK, Handles
  <2>4. OneStop'
    BY <1>1, <1>2, <1>3, <1>4, <1>5, <2>1, <2>2
       DEF OneStop, OneRestart, Opening, Exited, Quiet, LifecycleTypes, Callers, Stoppers, Openers
  <2>5. OneRestart'
    BY <1>1, <1>2, <1>3, <1>4, <1>5, <2>1, <2>2
       DEF OneRestart, Quiet, LifecycleTypes, Callers, Stoppers, Openers
  <2>6. Unopened'
    BY <1>1, <1>2, <1>3, <1>4, <1>5, <2>1, <2>2
       DEF Unopened, LifecycleTypes, OneWatcher, Callers, Stoppers, Openers
  <2>7. Shown'
    BY <1>1, <1>2, <1>3, <1>4, <1>5, <2>1, <2>2, IssuesOf
       DEF Shown, LifecycleTypes, Callers, Stoppers, Openers
  <2>8. Resting'
    BY <1>1, <1>2, <1>3, <1>4, <1>5, <2>1, <2>2 DEF Resting, LifecycleTypes, Callers, Stoppers, Openers
  <2>9. LossIsShown'
    BY <1>1, <1>2, <1>3, <1>4, <1>5, <2>1, <2>2
       DEF LossIsShown, OneWatcher, LifecycleTypes, Callers, Stoppers, Openers
  <2>10. QED
    BY <2>3, <2>4, <2>5, <2>6, <2>7, <2>8, <2>9
<1>9. SpaceIsShown'
  BY <1>1, <1>2, <1>3, <1>4, <1>5 DEF SpaceIsShown, LifecycleTypes, Callers, Stoppers, Openers
<1>10. QED
  BY <1>6, <1>7, <1>8, <1>9 DEF LifecycleInv, Orderly

\* The watcher answered close: the call that stopped goes on to what it was asked for.
LEMMA CloseReturnsKeeps ==
    ASSUME NEW c \in Stoppers
    PROVE  LifecycleInv /\ CloseReturns(c) => LifecycleInv'
<1> SUFFICES ASSUME LifecycleInv, CloseReturns(c) PROVE LifecycleInv'
  OBVIOUS
<1>1. LifecycleTypes /\ HandlesOK /\ Orderly /\ SpaceIsShown
  BY DEF LifecycleInv
<1>2. /\ call[c].step = "closing" /\ c \in Callers
      /\ session' = 0 /\ state' = "stopped" /\ raised' \subseteq AllIssues
      /\ state # "stopped" \/ Issues(state) \subseteq raised =>
            Issues("stopped") \subseteq raised'
      /\ "disk_space_low" \in raised => "disk_space_low" \in raised'
      /\ call'[c].step = IF c = "quit" THEN "done" ELSE "stat"
      /\ underway' <=> underway \/ sweep # "none"
      /\ underway' \in BOOLEAN
      /\ call' \in [Callers -> CallPoints] /\ \A d \in Callers \ {c} : call'[d] = call[d]
      /\ UNCHANGED <<opened, stopping, sessions, ticking, blocked, index, sweep, crossed, backlog,
                     serviceVars, handleVars, worldVars>>
  BY <1>1, Stops DEF CloseReturns, Callers
<1>3. LifecycleTypes'
  BY <1>1, <1>2, LifecycleAssumption DEF LifecycleTypes, States
<1>4. HandlesOK'
  BY <1>1, <1>2 DEF HandlesOK, Callers, Stoppers, Openers
<1>5. ASSUME ~crossed'
      PROVE  /\ OneWatcher' /\ OneStop' /\ OneRestart'
             /\ Unopened' /\ Shown' /\ Resting' /\ LossIsShown'
  <2>1. /\ ~crossed /\ OneWatcher /\ OneStop /\ OneRestart
        /\ Unopened /\ Shown /\ Resting /\ LossIsShown
    BY <1>1, <1>2, <1>5 DEF Orderly
  <2>2. OneWatcher'
    BY <1>1, <1>2, <2>1, LifecycleAssumption DEF OneWatcher, OneStop, Handles
  <2>3. OneStop'
    BY <1>1, <1>2, <2>1
       DEF OneStop, Opening, Exited, Quiet, LifecycleTypes, HandlesOK, OneWatcher, Callers, Stoppers,
           Openers
  <2>4. OneRestart'
    BY <1>1, <1>2, <2>1 DEF OneRestart, OneStop, Quiet, Callers, Stoppers, Openers
  <2>5. Unopened'
    BY <1>1, <1>2, <2>1 DEF Unopened, LifecycleTypes, OneWatcher, Callers, Stoppers, Openers
  <2>6. Shown'
    BY <1>1, <1>2, <2>1, IssuesOf DEF Shown, LifecycleTypes, Callers, Stoppers, Openers
  <2>7. Resting'
    BY <1>1, <1>2, <2>1 DEF Resting, LifecycleTypes, Callers, Stoppers, Openers
  <2>8. LossIsShown'
    BY <1>1, <1>2, <2>1 DEF LossIsShown, OneWatcher, LifecycleTypes, Callers, Stoppers, Openers
  <2>9. QED
    BY <2>2, <2>3, <2>4, <2>5, <2>6, <2>7, <2>8
<1>6. SpaceIsShown'
  BY <1>1, <1>2 DEF SpaceIsShown, LifecycleTypes, Callers, Stoppers, Openers
<1>7. QED
  BY <1>3, <1>4, <1>5, <1>6 DEF LifecycleInv, Orderly

-----------------------------------------------------------------------------
(* Opening.                                                                *)
LEMMA OpenUnavailableKeeps ==
    ASSUME NEW o \in Openers
    PROVE  LifecycleInv /\ OpenUnavailable(o) => LifecycleInv'
<1> SUFFICES ASSUME LifecycleInv, OpenUnavailable(o) PROVE LifecycleInv'
  OBVIOUS
<1>1. LifecycleTypes /\ HandlesOK /\ Orderly /\ SpaceIsShown
  BY DEF LifecycleInv
<1>2. /\ call[o].step = "stat" /\ o \in Callers
      /\ opened' = TRUE /\ state' = "unavailable" /\ raised' \subseteq AllIssues
      /\ state # "unavailable" \/ Issues(state) \subseteq raised => Issues("unavailable") \subseteq raised'
      /\ "disk_space_low" \in raised => "disk_space_low" \in raised'
      /\ call'[o].step = IF o = "launch" THEN "done" ELSE "idle"
      /\ call' \in [Callers -> CallPoints] /\ \A d \in Callers \ {o} : call'[d] = call[d]
      /\ UNCHANGED <<stopping, session, sessions, ticking, blocked, index, sweep, history, backlog,
                     serviceVars, handleVars, dirty>>
  <2>1. "unavailable" \in States /\ o \in Callers
    BY DEF States, Callers, Stoppers
  <2>2. QED
    BY <1>1, <2>1, StateIsSet, CallGoes, LifecycleAssumption
       DEF OpenUnavailable, OpenReturns, LifecycleTypes
<1>3. LifecycleTypes'
  BY <1>1, <1>2 DEF LifecycleTypes, States
<1>4. HandlesOK'
  BY <1>1, <1>2 DEF HandlesOK, Callers, Stoppers, Openers
<1>5. ASSUME ~crossed'
      PROVE  /\ OneWatcher' /\ OneStop' /\ OneRestart'
             /\ Unopened' /\ Shown' /\ Resting' /\ LossIsShown'
  <2>1. /\ ~crossed /\ OneWatcher /\ OneStop /\ OneRestart
        /\ Unopened /\ Shown /\ Resting /\ LossIsShown
    BY <1>1, <1>2, <1>5 DEF Orderly
  <2>2. OneWatcher'
    BY <1>1, <1>2, <2>1 DEF OneWatcher, LifecycleTypes, HandlesOK, Callers, Stoppers, Openers
  <2>3. OneStop'
    BY <1>1, <1>2, <2>1
       DEF OneStop, Opening, Exited, Quiet, LifecycleTypes, HandlesOK, OneWatcher, Callers, Stoppers,
           Openers
  <2>4. OneRestart'
    BY <1>1, <1>2, <2>1 DEF OneRestart, Quiet, LifecycleTypes, HandlesOK, Callers, Stoppers, Openers
  <2>5. Unopened'
    BY <1>1, <1>2, <2>1 DEF Unopened, LifecycleTypes, OneWatcher, Callers, Stoppers, Openers
  <2>6. Shown'
    BY <1>1, <1>2, <2>1, IssuesOf DEF Shown, Unopened, OneStop, Callers, Stoppers
  <2>7. Resting'
    BY <1>1, <1>2, <2>1 DEF Resting, LifecycleTypes, Callers, Stoppers, Openers
  <2>8. LossIsShown'
    BY <1>1, <1>2, <2>1 DEF LossIsShown, OneStop, Stoppers, LifecycleTypes
  <2>9. QED
    BY <2>2, <2>3, <2>4, <2>5, <2>6, <2>7, <2>8
<1>6. SpaceIsShown'
  BY <1>1, <1>2 DEF SpaceIsShown, LifecycleTypes, Callers, Stoppers, Openers
<1>7. QED
  BY <1>3, <1>4, <1>5, <1>6 DEF LifecycleInv, Orderly

\* A session is opened: a new number, nothing left of the session before it.
LEMMA StartTrackingKeeps ==
    ASSUME NEW o \in Openers
    PROVE  LifecycleInv /\ ~Exited /\ StartTracking(o) => LifecycleInv'
<1> SUFFICES ASSUME LifecycleInv, ~Exited, StartTracking(o) PROVE LifecycleInv'
  OBVIOUS
<1>1. LifecycleTypes /\ HandlesOK /\ Orderly /\ SpaceIsShown
  BY DEF LifecycleInv
<1>2. /\ call[o].step = "stat" /\ o \in Callers /\ sessions + 1 \in Sessions
      /\ opened' = TRUE /\ stopping' = FALSE /\ ticking' = TRUE
      /\ state' = "indexing" /\ raised' \subseteq AllIssues
      /\ "disk_space_low" \in raised => "disk_space_low" \in raised'
      /\ sessions' = sessions + 1 /\ session' = sessions + 1
      /\ halted' = [halted EXCEPT ![sessions + 1] = FALSE]
      /\ index' = [index EXCEPT ![sessions + 1] = "scan"]
      /\ Spawn(sessions + 1)
      /\ call'[o].step = IF o = "launch" THEN "done" ELSE "idle"
      /\ call' \in [Callers -> CallPoints] /\ \A d \in Callers \ {o} : call'[d] = call[d]
      /\ UNCHANGED <<blocked, sweep, history, backlog, buffering, buffered, closing, armed, known,
                     worldVars>>
  <2>1. /\ "indexing" \in States /\ o \in Callers /\ sessions < MaxSessions
        /\ sessions + 1 \in Sessions
    BY <1>1, LifecycleAssumption DEF States, Callers, Stoppers, StartTracking, Sessions, LifecycleTypes
  <2>2. QED
    BY <1>1, <2>1, StateIsSet, CallGoes, LifecycleAssumption
       DEF StartTracking, OpenReturns, StartTimers, LifecycleTypes
<1>3. /\ HandlesOK'
      /\ watcher'[session'] \in Handles /\ owner'[watcher'[session']] = session'
      /\ \A s \in Sessions \ {session'} : watcher'[s] = watcher[s]
      /\ \A h \in Handles : h # watcher'[session'] => owner'[h] = owner[h]
  BY <1>1, <1>2, Spawns
<1>4. LifecycleTypes'
  <2>1. /\ state' \in States /\ session' \in 0..MaxSessions /\ sessions' \in 0..MaxSessions
      /\ halted' \in [Sessions -> BOOLEAN]
      /\ index' \in [Sessions -> {"none", "scan", "visited", "done", "thrown"}]
    BY <1>1, <1>2, <1>3, LifecycleAssumption DEF LifecycleTypes, States, Sessions
  <2>2. \A c \in Callers : call'[c].step \in {"flush", "closing"} => call'[c].at # 0
    BY <1>1, <1>2, <1>3 DEF LifecycleTypes
  <2>3. QED
    BY <1>1, <1>2, <1>3, <2>1, <2>2 DEF LifecycleTypes
<1>5. HandlesOK'
  BY <1>3
<1>6. ASSUME ~crossed'
      PROVE  /\ OneWatcher' /\ OneStop' /\ OneRestart'
             /\ Unopened' /\ Shown' /\ Resting' /\ LossIsShown'
  <2>1. /\ ~crossed /\ OneWatcher /\ OneStop /\ OneRestart
        /\ Unopened /\ Shown /\ Resting /\ LossIsShown
    BY <1>1, <1>2, <1>3, <1>6 DEF Orderly
  <2>2. OneWatcher'
    BY <1>1, <1>2, <1>3, <2>1 DEF OneWatcher, OneStop, Stoppers, HandlesOK, Handles
  <2>3. OneStop'
    <3>1. \A c \in Stoppers : ~Opening(c)'
      BY <1>1, <1>2, <1>3, <2>1 DEF OneStop, Opening, Callers, Stoppers
    <3>2. ~Exited' /\ session' # 0
      BY <1>1, <1>2, <1>3, <2>1, LifecycleAssumption
         DEF Exited, Callers, Stoppers, Openers, LifecycleTypes, Sessions
    <3>3. QED
      BY <3>1, <3>2 DEF OneStop, Opening
  <2>4. OneRestart'
    <3>1. session = 0 /\ call'["wake"] = call["wake"] /\ call["wake"].step # "closing"
      BY <1>1, <1>2, <1>3, <2>1 DEF OneRestart, OneStop, LifecycleTypes, Callers, Stoppers, Openers
    <3>2. \A s \in Sessions : backlog[s] = "empty" /\ Quiet(s)
      BY <1>1, <1>2, <1>3, <2>1, <3>1, LifecycleAssumption DEF OneRestart, Sessions
    <3>3. QED
      BY <1>1, <1>2, <1>3, <2>1, <3>1, <3>2 DEF OneRestart, Quiet
  <2>5. Unopened'
    BY <1>1, <1>2, <1>3, <2>1
       DEF Unopened, LifecycleTypes, OneWatcher, Callers, Stoppers, Openers, Sessions
  <2>6. Shown'
    BY <1>1, <1>2, <1>3, <2>1, IssuesOf DEF Shown, LifecycleTypes, Callers, Stoppers, Openers, Sessions
  <2>7. Resting'
    BY <1>1, <1>2, <1>3, <2>1 DEF Resting, LifecycleTypes, Callers, Stoppers, Openers, Sessions
  <2>8. LossIsShown'
    BY <1>1, <1>2, <1>3, <2>1, LifecycleAssumption DEF LossIsShown, Handles
  <2>9. QED
    BY <2>2, <2>3, <2>4, <2>5, <2>6, <2>7, <2>8
<1>7. SpaceIsShown'
  BY <1>1, <1>2, <1>3 DEF SpaceIsShown, LifecycleTypes, Callers, Stoppers, Openers, Sessions
<1>8. QED
  BY <1>4, <1>5, <1>6, <1>7 DEF LifecycleInv, Orderly

\* Launch with no folder chosen: the vault waits for setup.
LEMMA LaunchEmptyKeeps == LifecycleInv /\ LaunchEmpty => LifecycleInv'
<1> SUFFICES ASSUME LifecycleInv, LaunchEmpty PROVE LifecycleInv'
  OBVIOUS
<1>1. LifecycleTypes /\ HandlesOK /\ Orderly /\ SpaceIsShown
  BY DEF LifecycleInv
<1>2. /\ call["launch"].step = "idle"
      /\ call' \in [Callers -> CallPoints] /\ call'["launch"].step = "done" /\ call'["launch"].at = 0
      /\ \A d \in Callers \ {"launch"} : call'[d] = call[d]
      /\ UNCHANGED <<stateVars, index, sweep, history, backlog, serviceVars, handleVars, worldVars>>
  BY <1>1, CallGoes, LifecycleAssumption DEF LaunchEmpty, LifecycleTypes, Callers, Stoppers, Openers
<1>3. LifecycleTypes'
  BY <1>1, <1>2 DEF LifecycleTypes, Callers, Stoppers, Openers
<1>4. HandlesOK'
  BY <1>1, <1>2 DEF HandlesOK, Callers, Stoppers, Openers
<1>5. ASSUME ~crossed'
      PROVE  /\ OneWatcher' /\ OneStop' /\ OneRestart'
             /\ Unopened' /\ Shown' /\ Resting' /\ LossIsShown'
  <2>1. /\ ~crossed /\ OneWatcher /\ OneStop /\ OneRestart
        /\ Unopened /\ Shown /\ Resting /\ LossIsShown
    BY <1>1, <1>2, <1>5 DEF Orderly
  <2>2. OneWatcher'
    BY <1>1, <1>2, <2>1 DEF OneWatcher, LifecycleTypes, HandlesOK, Callers, Stoppers, Openers
  <2>3. OneStop'
    BY <1>1, <1>2, <2>1
       DEF OneStop, Opening, Exited, Quiet, LifecycleTypes, HandlesOK, OneWatcher, Callers, Stoppers,
           Openers
  <2>4. OneRestart'
    BY <1>1, <1>2, <2>1 DEF OneRestart, Quiet, LifecycleTypes, HandlesOK, Callers, Stoppers, Openers
  <2>5. Unopened'
    BY <1>1, <1>2, <2>1 DEF Unopened, LifecycleTypes, OneWatcher, Callers, Stoppers, Openers
  <2>6. Shown'
    BY <1>1, <1>2, <2>1, IssuesOf DEF Shown, LifecycleTypes, Callers, Stoppers, Openers
  <2>7. Resting'
    BY <1>1, <1>2, <2>1 DEF Resting, LifecycleTypes, Callers, Stoppers, Openers
  <2>8. LossIsShown'
    BY <1>1, <1>2, <2>1 DEF LossIsShown, OneWatcher, LifecycleTypes, Callers, Stoppers, Openers
  <2>9. QED
    BY <2>2, <2>3, <2>4, <2>5, <2>6, <2>7, <2>8
<1>6. SpaceIsShown'
  BY <1>1, <1>2 DEF SpaceIsShown, LifecycleTypes, Callers, Stoppers, Openers
<1>7. QED
  BY <1>3, <1>4, <1>5, <1>6 DEF LifecycleInv, Orderly

-----------------------------------------------------------------------------
(* The index and the reconciliations.                                      *)
LEMMA IndexVisitsKeeps ==
    ASSUME NEW s \in Sessions
    PROVE  LifecycleInv /\ IndexVisits(s) => LifecycleInv'
<1> SUFFICES ASSUME LifecycleInv, IndexVisits(s) PROVE LifecycleInv'
  OBVIOUS
<1>1. LifecycleTypes /\ HandlesOK /\ Orderly /\ SpaceIsShown
  BY DEF LifecycleInv
<1> USE DEF IndexVisits
<1>2. LifecycleTypes'
  BY <1>1 DEF LifecycleTypes
<1>3. HandlesOK'
  BY <1>1 DEF HandlesOK
<1>4. ASSUME ~crossed'
      PROVE  /\ OneWatcher' /\ OneStop' /\ OneRestart'
             /\ Unopened' /\ Shown' /\ Resting' /\ LossIsShown'
  <2>1. /\ ~crossed /\ OneWatcher /\ OneStop /\ OneRestart
        /\ Unopened /\ Shown /\ Resting /\ LossIsShown
    BY <1>1, <1>4 DEF Orderly
  <2>2. OneWatcher'
    BY <1>1, <2>1 DEF OneWatcher, LifecycleTypes, HandlesOK
  <2>3. OneStop'
    BY <1>1, <2>1 DEF OneStop, Opening, Exited, Quiet, LifecycleTypes, HandlesOK, OneWatcher
  <2>4. OneRestart'
    BY <1>1, <2>1 DEF OneRestart, Quiet, LifecycleTypes, HandlesOK
  <2>5. Unopened'
    BY <1>1, <2>1 DEF Unopened, LifecycleTypes, OneWatcher
  <2>6. Shown'
    BY <1>1, <2>1, IssuesOf DEF Shown, LifecycleTypes
  <2>7. Resting'
    BY <1>1, <2>1 DEF Resting, LifecycleTypes
  <2>8. LossIsShown'
    BY <1>1, <2>1 DEF LossIsShown, OneWatcher, LifecycleTypes
  <2>9. QED
    BY <2>2, <2>3, <2>4, <2>5, <2>6, <2>7, <2>8
<1>5. SpaceIsShown'
  BY <1>1 DEF SpaceIsShown, LifecycleTypes
<1>6. QED
  BY <1>2, <1>3, <1>4, <1>5 DEF LifecycleInv, Orderly

\* The first index of a session ended, and the state follows from what it counted.
LEMMA IndexEndsKeeps ==
    ASSUME NEW s \in Sessions
    PROVE  LifecycleInv /\ IndexEnds(s) => LifecycleInv'
<1> SUFFICES ASSUME LifecycleInv, IndexEnds(s) PROVE LifecycleInv'
  OBVIOUS
<1>1. LifecycleTypes /\ HandlesOK /\ Orderly /\ SpaceIsShown
  BY DEF LifecycleInv
<1>2. /\ index[s] = "visited" /\ index' = [index EXCEPT ![s] = "done"]
      /\ ReleaseBuffer
      /\ state' = StateAfterIndex /\ raised' \subseteq AllIssues
      /\ state' # state \/ Issues(state) \subseteq raised => Issues(state') \subseteq raised'
      /\ "disk_space_low" \in raised => "disk_space_low" \in raised'
      /\ "watcher_restarting" \in raised => "watcher_restarting" \in raised'
      /\ StateAfterIndex \in States
      /\ UNCHANGED <<flags, call, sweep, history, halted, watcher, closing, armed, known, handleVars,
                     worldVars>>
  <2>1. StateAfterIndex \in States
    BY <1>1 DEF StateAfterIndex, LifecycleTypes, States
  <2>2. QED
    BY <1>1, <2>1, StateIsSet DEF IndexEnds, LifecycleTypes
<1>3. /\ buffering' \in [Sessions -> BOOLEAN] /\ buffered' \in [Sessions -> BOOLEAN]
      /\ \/ backlog' = backlog
         \/ /\ session \in Sessions /\ state # "paused" /\ ~stopping
            /\ backlog' = [backlog EXCEPT ![session] = Touched(@)]
      /\ backlog' \in [Sessions -> {"empty", "waiting", "running", "rerun"}]
  <2>1. session # 0 => session \in Sessions
    BY <1>1, LifecycleAssumption DEF LifecycleTypes, Sessions
  <2>2. QED
    BY <1>1, <1>2, <2>1 DEF ReleaseBuffer, TouchIf, Admits, Touched, LifecycleTypes
<1>4. LifecycleTypes'
  BY <1>1, <1>2, <1>3 DEF LifecycleTypes, StateAfterIndex
<1>5. HandlesOK'
  BY <1>1, <1>2, <1>3 DEF HandlesOK, StateAfterIndex
<1>6. ASSUME ~crossed'
      PROVE  /\ OneWatcher' /\ OneStop' /\ OneRestart'
             /\ Unopened' /\ Shown' /\ Resting' /\ LossIsShown'
  <2>1. /\ ~crossed /\ OneWatcher /\ OneStop /\ OneRestart
        /\ Unopened /\ Shown /\ Resting /\ LossIsShown
    BY <1>1, <1>2, <1>3, <1>6 DEF Orderly
  <2>2. OneWatcher'
    BY <1>1, <1>2, <1>3, <2>1 DEF OneWatcher, LifecycleTypes, HandlesOK, StateAfterIndex
  <2>3. OneStop'
    BY <1>1, <1>2, <1>3, <2>1
       DEF OneStop, Opening, Exited, Quiet, LifecycleTypes, HandlesOK, OneWatcher, StateAfterIndex
  <2>4. OneRestart'
    BY <1>1, <1>2, <1>3, <2>1 DEF OneRestart, Quiet, LifecycleTypes, HandlesOK, StateAfterIndex
  <2>5. Unopened'
    BY <1>1, <1>2, <1>3, <2>1 DEF Unopened, LifecycleTypes, OneWatcher, StateAfterIndex
  <2>6. Shown'
    BY <1>1, <1>2, <1>3, <2>1 DEF Shown, StateAfterIndex, OneStop, LifecycleTypes
  <2>7. Resting'
    BY <1>1, <1>2, <1>3, <2>1 DEF Resting, LifecycleTypes, StateAfterIndex
  <2>8. LossIsShown'
    BY <1>1, <1>2, <1>3, <2>1 DEF LossIsShown, OneWatcher, LifecycleTypes, StateAfterIndex
  <2>9. QED
    BY <2>2, <2>3, <2>4, <2>5, <2>6, <2>7, <2>8
<1>7. SpaceIsShown'
  BY <1>1, <1>2, <1>3 DEF SpaceIsShown, LifecycleTypes, StateAfterIndex
<1>8. QED
  BY <1>4, <1>5, <1>6, <1>7 DEF LifecycleInv, Orderly

\* The first index of a session threw: the failure is shown.
LEMMA IndexThrowsKeeps ==
    ASSUME NEW s \in Sessions
    PROVE  LifecycleInv /\ IndexThrows(s) => LifecycleInv'
<1> SUFFICES ASSUME LifecycleInv, IndexThrows(s) PROVE LifecycleInv'
  OBVIOUS
<1>1. LifecycleTypes /\ HandlesOK /\ Orderly /\ SpaceIsShown
  BY DEF LifecycleInv
<1> USE DEF IndexThrows, Happens
<1>2. LifecycleTypes'
  BY <1>1 DEF LifecycleTypes
<1>3. HandlesOK'
  BY <1>1 DEF HandlesOK
<1>4. ASSUME ~crossed'
      PROVE  /\ OneWatcher' /\ OneStop' /\ OneRestart'
             /\ Unopened' /\ Shown' /\ Resting' /\ LossIsShown'
  <2>1. /\ ~crossed /\ OneWatcher /\ OneStop /\ OneRestart
        /\ Unopened /\ Shown /\ Resting /\ LossIsShown
    BY <1>1, <1>4 DEF Orderly
  <2>2. OneWatcher'
    BY <1>1, <2>1 DEF OneWatcher, LifecycleTypes, HandlesOK
  <2>3. OneStop'
    BY <1>1, <2>1 DEF OneStop, Opening, Exited, Quiet, LifecycleTypes, HandlesOK, OneWatcher
  <2>4. OneRestart'
    BY <1>1, <2>1 DEF OneRestart, Quiet, LifecycleTypes, HandlesOK
  <2>5. Unopened'
    BY <1>1, <2>1 DEF Unopened, LifecycleTypes, OneWatcher
  <2>6. Shown'
    BY <1>1, <2>1, IssuesOf DEF Shown, LifecycleTypes
  <2>7. Resting'
    BY <1>1, <2>1 DEF Resting, LifecycleTypes
  <2>8. LossIsShown'
    BY <1>1, <2>1 DEF LossIsShown, OneWatcher, LifecycleTypes
  <2>9. QED
    BY <2>2, <2>3, <2>4, <2>5, <2>6, <2>7, <2>8
<1>5. SpaceIsShown'
  BY <1>1 DEF SpaceIsShown, LifecycleTypes
<1>6. QED
  BY <1>2, <1>3, <1>4, <1>5 DEF LifecycleInv, Orderly

\* A check of the disk begins.
LEMMA ReconcileKeeps == LifecycleInv /\ Reconcile => LifecycleInv'
<1> SUFFICES ASSUME LifecycleInv, Reconcile PROVE LifecycleInv'
  OBVIOUS
<1>1. LifecycleTypes /\ HandlesOK /\ Orderly /\ SpaceIsShown
  BY DEF LifecycleInv
<1> USE DEF Reconcile, StartSweep
<1>2. LifecycleTypes'
  BY <1>1 DEF LifecycleTypes
<1>3. HandlesOK'
  BY <1>1 DEF HandlesOK
<1>4. ASSUME ~crossed'
      PROVE  /\ OneWatcher' /\ OneStop' /\ OneRestart'
             /\ Unopened' /\ Shown' /\ Resting' /\ LossIsShown'
  <2>1. /\ ~crossed /\ OneWatcher /\ OneStop /\ OneRestart
        /\ Unopened /\ Shown /\ Resting /\ LossIsShown
    BY <1>1, <1>4 DEF Orderly
  <2>2. OneWatcher'
    BY <1>1, <2>1 DEF OneWatcher, LifecycleTypes, HandlesOK
  <2>3. OneStop'
    BY <1>1, <2>1 DEF OneStop, Opening, Exited, Quiet, LifecycleTypes, HandlesOK, OneWatcher
  <2>4. OneRestart'
    BY <1>1, <2>1 DEF OneRestart, Quiet, LifecycleTypes, HandlesOK
  <2>5. Unopened'
    BY <1>1, <2>1 DEF Unopened, LifecycleTypes, OneWatcher
  <2>6. Shown'
    BY <1>1, <2>1, IssuesOf DEF Shown, LifecycleTypes
  <2>7. Resting'
    BY <1>1, <2>1 DEF Resting, LifecycleTypes
  <2>8. LossIsShown'
    BY <1>1, <2>1 DEF LossIsShown, OneWatcher, LifecycleTypes
  <2>9. QED
    BY <2>2, <2>3, <2>4, <2>5, <2>6, <2>7, <2>8
<1>5. SpaceIsShown'
  BY <1>1 DEF SpaceIsShown, LifecycleTypes
<1>6. QED
  BY <1>2, <1>3, <1>4, <1>5 DEF LifecycleInv, Orderly

\* A check of the disk looks at the folder.
LEMMA SweepLooksKeeps == LifecycleInv /\ SweepLooks => LifecycleInv'
<1> SUFFICES ASSUME LifecycleInv, SweepLooks PROVE LifecycleInv'
  OBVIOUS
<1>1. LifecycleTypes /\ HandlesOK /\ Orderly /\ SpaceIsShown
  BY DEF LifecycleInv
<1>2. /\ sweep = "stat" /\ sweep' = "visit"
      /\ state' = (IF state = "unavailable" THEN "active" ELSE state) /\ state' \in States
      /\ raised' \subseteq AllIssues
      /\ state' # state \/ Issues(state) \subseteq raised => Issues(state') \subseteq raised'
      /\ "disk_space_low" \in raised => "disk_space_low" \in raised'
      /\ "watcher_restarting" \in raised => "watcher_restarting" \in raised'
      /\ UNCHANGED <<flags, call, index, history, backlog, serviceVars, handleVars, worldVars>>
  <2>1. (IF state = "unavailable" THEN "active" ELSE state) \in States
    BY <1>1 DEF LifecycleTypes, States
  <2>2. QED
    BY <1>1, <2>1, StateIsSet DEF SweepLooks, LifecycleTypes
<1>3. LifecycleTypes'
  BY <1>1, <1>2 DEF LifecycleTypes
<1>4. HandlesOK'
  BY <1>1, <1>2 DEF HandlesOK
<1>5. ASSUME ~crossed'
      PROVE  /\ OneWatcher' /\ OneStop' /\ OneRestart'
             /\ Unopened' /\ Shown' /\ Resting' /\ LossIsShown'
  <2>1. /\ ~crossed /\ OneWatcher /\ OneStop /\ OneRestart
        /\ Unopened /\ Shown /\ Resting /\ LossIsShown
    BY <1>1, <1>2, <1>5 DEF Orderly
  <2>2. OneWatcher'
    BY <1>1, <1>2, <2>1 DEF OneWatcher, LifecycleTypes, HandlesOK
  <2>3. OneStop'
    BY <1>1, <1>2, <2>1 DEF OneStop, Opening, Exited, Quiet, LifecycleTypes, HandlesOK, OneWatcher
  <2>4. OneRestart'
    BY <1>1, <1>2, <2>1 DEF OneRestart, Quiet, LifecycleTypes, HandlesOK
  <2>5. Unopened'
    BY <1>1, <1>2, <2>1 DEF Unopened, LifecycleTypes, OneWatcher
  <2>6. Shown'
    BY <1>1, <1>2, <2>1, IssuesOf DEF Shown, LifecycleTypes
  <2>7. Resting'
    BY <1>1, <1>2, <2>1 DEF Resting, LifecycleTypes
  <2>8. LossIsShown'
    BY <1>1, <1>2, <2>1 DEF LossIsShown, OneWatcher, LifecycleTypes
  <2>9. QED
    BY <2>2, <2>3, <2>4, <2>5, <2>6, <2>7, <2>8
<1>6. SpaceIsShown'
  BY <1>1, <1>2 DEF SpaceIsShown, LifecycleTypes
<1>7. QED
  BY <1>3, <1>4, <1>5, <1>6 DEF LifecycleInv, Orderly

\* A check of the disk ended, and may be asked to go again.
LEMMA SweepEndsKeeps == LifecycleInv /\ SweepEnds => LifecycleInv'
<1> SUFFICES ASSUME LifecycleInv, SweepEnds PROVE LifecycleInv'
  OBVIOUS
<1>1. LifecycleTypes /\ HandlesOK /\ Orderly /\ SpaceIsShown
  BY DEF LifecycleInv
<1>2. /\ sweep = "visit" /\ sweep' = "none" /\ state' \in States /\ raised' \subseteq AllIssues
      /\ state' = IF call["resume"].step = "sweep" THEN "active" ELSE state
      /\ state' # state \/ Issues(state) \subseteq raised => Issues(state') \subseteq raised'
      /\ "disk_space_low" \in raised => "disk_space_low" \in raised'
      /\ "watcher_restarting" \in raised => "watcher_restarting" \in raised'
      /\ call' \in [Callers -> CallPoints] /\ dirty' \in BOOLEAN
      /\ \/ call' = call
         \/ call["resume"].step = "sweep" /\ call'["resume"].step = "idle"
      /\ \A d \in Callers \ {"resume"} : call'[d] = call[d]
      /\ UNCHANGED <<flags, index, history, backlog, serviceVars, handleVars>>
  <2>1. state \in States /\ SweepReturns(state) /\ sweep = "visit"
    BY <1>1 DEF SweepEnds, LifecycleTypes, States
  <2>2. dirty' \in BOOLEAN
    BY <1>1 DEF SweepEnds, LifecycleTypes
  <2>3. QED
    BY <1>1, <2>1, <2>2, SweepDone
<1>3. LifecycleTypes'
  BY <1>1, <1>2 DEF LifecycleTypes, Callers
<1>4. HandlesOK'
  BY <1>1, <1>2 DEF HandlesOK, Callers, Stoppers, Openers
<1>5. ASSUME ~crossed'
      PROVE  /\ OneWatcher' /\ OneStop' /\ OneRestart'
             /\ Unopened' /\ Shown' /\ Resting' /\ LossIsShown'
  <2>1. /\ ~crossed /\ OneWatcher /\ OneStop /\ OneRestart
        /\ Unopened /\ Shown /\ Resting /\ LossIsShown
    BY <1>1, <1>2, <1>5 DEF Orderly
  <2>2. OneWatcher'
    BY <1>1, <1>2, <2>1 DEF OneWatcher, LifecycleTypes, HandlesOK, Callers, Stoppers, Openers
  <2>3. OneStop'
    BY <1>1, <1>2, <2>1
       DEF OneStop, Opening, Exited, Quiet, LifecycleTypes, HandlesOK, OneWatcher, Callers, Stoppers,
           Openers
  <2>4. OneRestart'
    BY <1>1, <1>2, <2>1 DEF OneRestart, Quiet, LifecycleTypes, HandlesOK, Callers, Stoppers, Openers
  <2>5. Unopened'
    BY <1>1, <1>2, <2>1 DEF Unopened, LifecycleTypes, OneWatcher, Callers, Stoppers, Openers
  <2>6. Shown'
    BY <1>1, <1>2, <2>1, IssuesOf DEF Shown, LifecycleTypes, Callers, Stoppers, Openers
  <2>7. Resting'
    BY <1>1, <1>2, <2>1 DEF Resting, LifecycleTypes, Callers, Stoppers, Openers
  <2>8. LossIsShown'
    BY <1>1, <1>2, <2>1 DEF LossIsShown, OneWatcher, LifecycleTypes, Callers, Stoppers, Openers
  <2>9. QED
    BY <2>2, <2>3, <2>4, <2>5, <2>6, <2>7, <2>8
<1>6. SpaceIsShown'
  BY <1>1, <1>2 DEF SpaceIsShown, LifecycleTypes, Callers, Stoppers, Openers
<1>7. QED
  BY <1>3, <1>4, <1>5, <1>6 DEF LifecycleInv, Orderly

\* A check of the disk met no folder: the vault becomes unavailable.
LEMMA SweepFindsNoFolderKeeps == LifecycleInv /\ SweepFindsNoFolder => LifecycleInv'
<1> SUFFICES ASSUME LifecycleInv, SweepFindsNoFolder PROVE LifecycleInv'
  OBVIOUS
<1>1. LifecycleTypes /\ HandlesOK /\ Orderly /\ SpaceIsShown
  BY DEF LifecycleInv
<1>2. /\ sweep = "stat" /\ sweep' = "none" /\ state' \in States /\ raised' \subseteq AllIssues
      /\ state' = IF call["resume"].step = "sweep" THEN "active" ELSE "unavailable"
      /\ state' # state \/ Issues(state) \subseteq raised => Issues(state') \subseteq raised'
      /\ "disk_space_low" \in raised => "disk_space_low" \in raised'
      /\ "watcher_restarting" \in raised => "watcher_restarting" \in raised'
      /\ call' \in [Callers -> CallPoints] /\ dirty' \in BOOLEAN
      /\ \/ call' = call
         \/ call["resume"].step = "sweep" /\ call'["resume"].step = "idle"
      /\ \A d \in Callers \ {"resume"} : call'[d] = call[d]
      /\ UNCHANGED <<flags, index, history, backlog, serviceVars, handleVars>>
  <2>1. "unavailable" \in States /\ SweepReturns("unavailable") /\ sweep = "stat"
    BY <1>1 DEF SweepFindsNoFolder, LifecycleTypes, States
  <2>2. dirty' \in BOOLEAN
    BY <1>1 DEF SweepFindsNoFolder, LifecycleTypes
  <2>3. QED
    BY <1>1, <2>1, <2>2, SweepDone
<1>3. LifecycleTypes'
  BY <1>1, <1>2 DEF LifecycleTypes, Callers
<1>4. HandlesOK'
  BY <1>1, <1>2 DEF HandlesOK, Callers, Stoppers, Openers
<1>5. ASSUME ~crossed'
      PROVE  /\ OneWatcher' /\ OneStop' /\ OneRestart'
             /\ Unopened' /\ Shown' /\ Resting' /\ LossIsShown'
  <2>1. /\ ~crossed /\ OneWatcher /\ OneStop /\ OneRestart
        /\ Unopened /\ Shown /\ Resting /\ LossIsShown
    BY <1>1, <1>2, <1>5 DEF Orderly
  <2>2. OneWatcher'
    BY <1>1, <1>2, <2>1 DEF OneWatcher, LifecycleTypes, HandlesOK, Callers, Stoppers, Openers
  <2>3. OneStop'
    BY <1>1, <1>2, <2>1
       DEF OneStop, Opening, Exited, Quiet, LifecycleTypes, HandlesOK, OneWatcher, Callers, Stoppers,
           Openers
  <2>4. OneRestart'
    BY <1>1, <1>2, <2>1 DEF OneRestart, Quiet, LifecycleTypes, HandlesOK, Callers, Stoppers, Openers
  <2>5. Unopened'
    BY <1>1, <1>2, <2>1 DEF Unopened, LifecycleTypes, OneWatcher, Callers, Stoppers, Openers
  <2>6. Shown'
    BY <1>1, <1>2, <2>1, IssuesOf DEF Shown, LifecycleTypes, Callers, Stoppers, Openers
  <2>7. Resting'
    BY <1>1, <1>2, <2>1 DEF Resting, LifecycleTypes, Callers, Stoppers, Openers
  <2>8. LossIsShown'
    BY <1>1, <1>2, <2>1 DEF LossIsShown, OneWatcher, LifecycleTypes, Callers, Stoppers, Openers
  <2>9. QED
    BY <2>2, <2>3, <2>4, <2>5, <2>6, <2>7, <2>8
<1>6. SpaceIsShown'
  BY <1>1, <1>2 DEF SpaceIsShown, LifecycleTypes, Callers, Stoppers, Openers
<1>7. QED
  BY <1>3, <1>4, <1>5, <1>6 DEF LifecycleInv, Orderly

\* A check of the disk threw.
LEMMA SweepThrowsKeeps == LifecycleInv /\ SweepThrows => LifecycleInv'
<1> SUFFICES ASSUME LifecycleInv, SweepThrows PROVE LifecycleInv'
  OBVIOUS
<1>1. LifecycleTypes /\ HandlesOK /\ Orderly /\ SpaceIsShown
  BY DEF LifecycleInv
<1>2. /\ sweep = "visit" /\ sweep' = "none" /\ state' \in States /\ raised' \subseteq AllIssues
      /\ state' = IF call["resume"].step = "sweep" THEN "active" ELSE state
      /\ state' # state \/ Issues(state) \subseteq raised => Issues(state') \subseteq raised'
      /\ "disk_space_low" \in raised => "disk_space_low" \in raised'
      /\ "watcher_restarting" \in raised => "watcher_restarting" \in raised'
      /\ call' \in [Callers -> CallPoints] /\ dirty' \in BOOLEAN
      /\ \/ call' = call
         \/ call["resume"].step = "sweep" /\ call'["resume"].step = "idle"
      /\ \A d \in Callers \ {"resume"} : call'[d] = call[d]
      /\ UNCHANGED <<flags, index, history, backlog, serviceVars, handleVars>>
  <2>1. state \in States /\ SweepReturns(state) /\ sweep = "visit"
    BY <1>1 DEF SweepThrows, LifecycleTypes, States
  <2>2. dirty' \in BOOLEAN
    BY <1>1 DEF SweepThrows, LifecycleTypes
  <2>3. QED
    BY <1>1, <2>1, <2>2, SweepDone
<1>3. LifecycleTypes'
  BY <1>1, <1>2 DEF LifecycleTypes, Callers
<1>4. HandlesOK'
  BY <1>1, <1>2 DEF HandlesOK, Callers, Stoppers, Openers
<1>5. ASSUME ~crossed'
      PROVE  /\ OneWatcher' /\ OneStop' /\ OneRestart'
             /\ Unopened' /\ Shown' /\ Resting' /\ LossIsShown'
  <2>1. /\ ~crossed /\ OneWatcher /\ OneStop /\ OneRestart
        /\ Unopened /\ Shown /\ Resting /\ LossIsShown
    BY <1>1, <1>2, <1>5 DEF Orderly
  <2>2. OneWatcher'
    BY <1>1, <1>2, <2>1 DEF OneWatcher, LifecycleTypes, HandlesOK, Callers, Stoppers, Openers
  <2>3. OneStop'
    BY <1>1, <1>2, <2>1
       DEF OneStop, Opening, Exited, Quiet, LifecycleTypes, HandlesOK, OneWatcher, Callers, Stoppers,
           Openers
  <2>4. OneRestart'
    BY <1>1, <1>2, <2>1 DEF OneRestart, Quiet, LifecycleTypes, HandlesOK, Callers, Stoppers, Openers
  <2>5. Unopened'
    BY <1>1, <1>2, <2>1 DEF Unopened, LifecycleTypes, OneWatcher, Callers, Stoppers, Openers
  <2>6. Shown'
    BY <1>1, <1>2, <2>1, IssuesOf DEF Shown, LifecycleTypes, Callers, Stoppers, Openers
  <2>7. Resting'
    BY <1>1, <1>2, <2>1 DEF Resting, LifecycleTypes, Callers, Stoppers, Openers
  <2>8. LossIsShown'
    BY <1>1, <1>2, <2>1 DEF LossIsShown, OneWatcher, LifecycleTypes, Callers, Stoppers, Openers
  <2>9. QED
    BY <2>2, <2>3, <2>4, <2>5, <2>6, <2>7, <2>8
<1>6. SpaceIsShown'
  BY <1>1, <1>2 DEF SpaceIsShown, LifecycleTypes, Callers, Stoppers, Openers
<1>7. QED
  BY <1>3, <1>4, <1>5, <1>6 DEF LifecycleInv, Orderly

\* The timed look at the folder, with or without space on the disk.
LEMMA DiskCheckedKeeps == LifecycleInv /\ DiskChecked => LifecycleInv'
<1> SUFFICES ASSUME LifecycleInv, DiskChecked PROVE LifecycleInv'
  OBVIOUS
<1>1. LifecycleTypes /\ HandlesOK /\ Orderly /\ SpaceIsShown
  BY DEF LifecycleInv
<1>2. /\ blocked' = ~blocked
      /\ IF blocked THEN StartSweep(state) ELSE UNCHANGED sweep
      /\ raised' = IF blocked THEN raised \ {"disk_space_low"} ELSE raised \cup {"disk_space_low"}
      /\ UNCHANGED <<state, opened, stopping, session, sessions, ticking, call, index, history,
                     backlog, serviceVars, handleVars, dirty>>
  BY DEF DiskChecked, ShowSpace, Raise, Clear
<1>3. LifecycleTypes'
  <2>1. raised' \subseteq AllIssues /\ blocked' \in BOOLEAN
    BY <1>1, <1>2, IssuesOf DEF LifecycleTypes
  <2>2. QED
    BY <1>1, <1>2, <2>1 DEF LifecycleTypes, StartSweep
<1>4. HandlesOK'
  BY <1>1, <1>2 DEF HandlesOK, StartSweep
<1>5. ASSUME ~crossed'
      PROVE  /\ OneWatcher' /\ OneStop' /\ OneRestart'
             /\ Unopened' /\ Shown' /\ Resting' /\ LossIsShown'
  <2>1. /\ ~crossed /\ OneWatcher /\ OneStop /\ OneRestart
        /\ Unopened /\ Shown /\ Resting /\ LossIsShown
    BY <1>1, <1>2, <1>5 DEF Orderly
  <2>2. OneWatcher'
    BY <1>1, <1>2, <2>1 DEF OneWatcher, LifecycleTypes, HandlesOK, StartSweep
  <2>3. OneStop'
    BY <1>1, <1>2, <2>1
       DEF OneStop, Opening, Exited, Quiet, LifecycleTypes, HandlesOK, OneWatcher, StartSweep
  <2>4. OneRestart'
    BY <1>1, <1>2, <2>1 DEF OneRestart, Quiet, LifecycleTypes, HandlesOK, StartSweep
  <2>5. Unopened'
    BY <1>1, <1>2, <2>1 DEF Unopened, LifecycleTypes, OneWatcher, StartSweep
  <2>6. Shown'
    BY <1>1, <1>2, <2>1, IssuesOf DEF Shown, LifecycleTypes, StartSweep
  <2>7. Resting'
    BY <1>1, <1>2, <2>1 DEF Resting, LifecycleTypes, StartSweep
  <2>8. LossIsShown'
    BY <1>1, <1>2, <2>1 DEF LossIsShown, OneWatcher, LifecycleTypes, StartSweep
  <2>9. QED
    BY <2>2, <2>3, <2>4, <2>5, <2>6, <2>7, <2>8
<1>6. SpaceIsShown'
  BY <1>1, <1>2 DEF SpaceIsShown, LifecycleTypes, StartSweep
<1>7. QED
  BY <1>3, <1>4, <1>5, <1>6 DEF LifecycleInv, Orderly

-----------------------------------------------------------------------------
(* Pausing, resuming and waking.                                           *)
LEMMA PauseKeeps == LifecycleInv /\ Pause => LifecycleInv'
<1> SUFFICES ASSUME LifecycleInv, Pause PROVE LifecycleInv'
  OBVIOUS
<1>1. LifecycleTypes /\ HandlesOK /\ Orderly /\ SpaceIsShown
  BY DEF LifecycleInv
<1>2. /\ opened /\ call["pause"].step = "idle"
      /\ call' \in [Callers -> CallPoints] /\ \A d \in Callers \ {"pause"} : call'[d] = call[d]
      /\ state' \in States /\ raised' \subseteq AllIssues /\ underway' \in BOOLEAN
      /\ Issues(state) \subseteq raised => Issues(state') \subseteq raised'
      /\ "disk_space_low" \in raised => "disk_space_low" \in raised'
      /\ "watcher_restarting" \in raised => "watcher_restarting" \in raised'
      /\ \/ session = 0 /\ state' = "paused" /\ underway' /\ call'["pause"].step = "idle"
         \/ /\ session # 0 /\ UNCHANGED <<state, raised, underway>>
            /\ call'["pause"].step = "flush" /\ call'["pause"].at = session
      /\ UNCHANGED <<flags, index, sweep, crossed, backlog, serviceVars, handleVars, dirty>>
  <2>1. /\ "pause" \in Callers /\ "paused" \in States /\ 0 \in 0..MaxSessions
        /\ opened /\ call["pause"].step = "idle"
        /\ UNCHANGED <<flags, index, sweep, crossed, backlog, serviceVars, handleVars, dirty>>
    BY LifecycleAssumption DEF Callers, States, Pause
  <2>2. CASE session = 0
    <3>1. SetState("paused") /\ underway' = TRUE /\ Goes("pause", "idle", 0)
      BY <2>2 DEF Pause, Paused
    <3>2. /\ state' = "paused" /\ raised' \subseteq AllIssues
          /\ Issues(state) \subseteq raised => Issues(state') \subseteq raised'
          /\ "disk_space_low" \in raised => "disk_space_low" \in raised'
          /\ "watcher_restarting" \in raised => "watcher_restarting" \in raised'
      BY <1>1, <2>1, <3>1, StateIsSet DEF LifecycleTypes
    <3>3. /\ call' \in [Callers -> CallPoints] /\ call'["pause"].step = "idle"
          /\ \A d \in Callers \ {"pause"} : call'[d] = call[d]
      BY <1>1, <2>1, <3>1, CallGoes DEF LifecycleTypes
    <3>4. QED
      BY <2>1, <2>2, <3>1, <3>2, <3>3
  <2>3. CASE session # 0
    <3>1. Goes("pause", "flush", session) /\ UNCHANGED <<state, raised, underway>>
      BY <2>3 DEF Pause, KeepState
    <3>2. QED
      BY <1>1, <2>1, <2>3, <3>1, CallGoes DEF LifecycleTypes
  <2>4. QED
    BY <2>2, <2>3
<1>3. LifecycleTypes'
  BY <1>1, <1>2 DEF LifecycleTypes, Callers
<1>4. HandlesOK'
  BY <1>1, <1>2 DEF HandlesOK, Callers, Stoppers, Openers
<1>5. ASSUME ~crossed'
      PROVE  /\ OneWatcher' /\ OneStop' /\ OneRestart'
             /\ Unopened' /\ Shown' /\ Resting' /\ LossIsShown'
  <2>1. /\ ~crossed /\ OneWatcher /\ OneStop /\ OneRestart
        /\ Unopened /\ Shown /\ Resting /\ LossIsShown
    BY <1>1, <1>2, <1>5 DEF Orderly
  <2>2. OneWatcher'
    BY <1>1, <1>2, <2>1 DEF OneWatcher, LifecycleTypes, HandlesOK, Callers, Stoppers, Openers
  <2>3. OneStop'
    BY <1>1, <1>2, <2>1
       DEF OneStop, Opening, Exited, Quiet, LifecycleTypes, HandlesOK, OneWatcher, Callers, Stoppers,
           Openers
  <2>4. OneRestart'
    BY <1>1, <1>2, <2>1 DEF OneRestart, Quiet, LifecycleTypes, HandlesOK, Callers, Stoppers, Openers
  <2>5. Unopened'
    BY <1>1, <1>2, <2>1 DEF Unopened, LifecycleTypes, OneWatcher, Callers, Stoppers, Openers
  <2>6. Shown'
    BY <1>1, <1>2, <2>1, IssuesOf DEF Shown, LifecycleTypes, Callers, Stoppers, Openers
  <2>7. Resting'
    BY <1>1, <1>2, <2>1 DEF Resting, LifecycleTypes, Callers, Stoppers, Openers
  <2>8. LossIsShown'
    BY <1>1, <1>2, <2>1 DEF LossIsShown, OneWatcher, LifecycleTypes, Callers, Stoppers, Openers
  <2>9. QED
    BY <2>2, <2>3, <2>4, <2>5, <2>6, <2>7, <2>8
<1>6. SpaceIsShown'
  BY <1>1, <1>2 DEF SpaceIsShown, LifecycleTypes, Callers, Stoppers, Openers
<1>7. QED
  BY <1>3, <1>4, <1>5, <1>6 DEF LifecycleInv, Orderly

\* Pause: the call that stopped returns and the vault rests.
LEMMA PauseReturnsKeeps == LifecycleInv /\ PauseReturns => LifecycleInv'
<1> SUFFICES ASSUME LifecycleInv, PauseReturns PROVE LifecycleInv'
  OBVIOUS
<1>1. LifecycleTypes /\ HandlesOK /\ Orderly /\ SpaceIsShown
  BY DEF LifecycleInv
<1>2. /\ call["pause"].step = "flush" /\ backlog[call["pause"].at] = "empty"
      /\ call' \in [Callers -> CallPoints] /\ call'["pause"].step = "idle"
      /\ \A d \in Callers \ {"pause"} : call'[d] = call[d]
      /\ state' = "paused" /\ raised' \subseteq AllIssues
      /\ Issues(state) \subseteq raised => Issues(state') \subseteq raised'
      /\ "disk_space_low" \in raised => "disk_space_low" \in raised'
      /\ "watcher_restarting" \in raised => "watcher_restarting" \in raised'
      /\ underway' \in BOOLEAN
      /\ ~underway' => /\ ~underway /\ session # 0 /\ session = call["pause"].at
                       /\ sweep = "none" /\ \A i \in Sessions : index[i] # "scan"
      /\ UNCHANGED <<flags, index, sweep, crossed, backlog, serviceVars, handleVars, worldVars>>
  <2>1. /\ "pause" \in Callers /\ "paused" \in States /\ 0 \in 0..MaxSessions
        /\ Flushed("pause") /\ Paused(call["pause"].at)
        /\ UNCHANGED <<flags, index, sweep, crossed, backlog, serviceVars, handleVars, worldVars>>
    BY LifecycleAssumption DEF Callers, States, PauseReturns
  <2>2. SetState("paused") /\ Goes("pause", "idle", 0)
    BY <2>1 DEF Paused
  <2>3. /\ state' = "paused" /\ raised' \subseteq AllIssues
        /\ Issues(state) \subseteq raised => Issues(state') \subseteq raised'
        /\ "disk_space_low" \in raised => "disk_space_low" \in raised'
        /\ "watcher_restarting" \in raised => "watcher_restarting" \in raised'
    BY <1>1, <2>1, <2>2, StateIsSet DEF LifecycleTypes
  <2>4. /\ call' \in [Callers -> CallPoints] /\ call'["pause"].step = "idle"
        /\ \A d \in Callers \ {"pause"} : call'[d] = call[d]
    BY <1>1, <2>1, <2>2, CallGoes DEF LifecycleTypes
  <2>5. /\ underway' \in BOOLEAN
        /\ ~underway' => /\ ~underway /\ session # 0 /\ session = call["pause"].at
                         /\ sweep = "none" /\ \A i \in Sessions : index[i] # "scan"
    BY <1>1, <2>1 DEF Paused, LifecycleTypes
  <2>6. QED
    BY <2>1, <2>3, <2>4, <2>5 DEF Flushed
<1>3. LifecycleTypes'
  BY <1>1, <1>2 DEF LifecycleTypes, Callers, States
<1>4. HandlesOK'
  BY <1>1, <1>2 DEF HandlesOK, Callers, Stoppers, Openers
<1>5. ASSUME ~crossed'
      PROVE  /\ OneWatcher' /\ OneStop' /\ OneRestart'
             /\ Unopened' /\ Shown' /\ Resting' /\ LossIsShown'
  <2>1. /\ ~crossed /\ OneWatcher /\ OneStop /\ OneRestart
        /\ Unopened /\ Shown /\ Resting /\ LossIsShown
    BY <1>1, <1>2, <1>5 DEF Orderly
  <2>2. OneWatcher'
    BY <1>1, <1>2, <2>1 DEF OneWatcher, LifecycleTypes, HandlesOK, Callers, Stoppers, Openers
  <2>3. OneStop'
    BY <1>1, <1>2, <2>1
       DEF OneStop, Opening, Exited, Quiet, LifecycleTypes, HandlesOK, OneWatcher, Callers, Stoppers,
           Openers
  <2>4. OneRestart'
    BY <1>1, <1>2, <2>1 DEF OneRestart, Quiet, LifecycleTypes, HandlesOK, Callers, Stoppers, Openers
  <2>5. Unopened'
    BY <1>1, <1>2, <2>1 DEF Unopened, LifecycleTypes, OneWatcher, Callers, Stoppers, Openers
  <2>6. Shown'
    BY <1>1, <1>2, <2>1, IssuesOf DEF Shown, LifecycleTypes, Callers, Stoppers, Openers
  <2>7. Resting'
    BY <1>1, <1>2, <2>1 DEF Resting, OneRestart, LifecycleTypes
  <2>8. LossIsShown'
    BY <1>1, <1>2, <2>1 DEF LossIsShown, OneWatcher, LifecycleTypes, Callers, Stoppers, Openers
  <2>9. QED
    BY <2>2, <2>3, <2>4, <2>5, <2>6, <2>7, <2>8
<1>6. SpaceIsShown'
  BY <1>1, <1>2 DEF SpaceIsShown, LifecycleTypes, Callers, Stoppers, Openers
<1>7. QED
  BY <1>3, <1>4, <1>5, <1>6 DEF LifecycleInv, Orderly

\* Resume begins to open a session.
LEMMA ResumeKeeps == LifecycleInv /\ Resume => LifecycleInv'
<1> SUFFICES ASSUME LifecycleInv, Resume PROVE LifecycleInv'
  OBVIOUS
<1>1. LifecycleTypes /\ HandlesOK /\ Orderly /\ SpaceIsShown
  BY DEF LifecycleInv
<1>2. /\ opened /\ state = "paused" /\ state' \in {"active", "indexing"}
      /\ raised' \subseteq AllIssues
      /\ Issues(state) \subseteq raised => Issues(state') \subseteq raised'
      /\ "disk_space_low" \in raised => "disk_space_low" \in raised'
      /\ "watcher_restarting" \in raised => "watcher_restarting" \in raised'
      /\ call' \in [Callers -> CallPoints] /\ \A d \in Callers \ {"resume"} : call'[d] = call[d]
      /\ call'["resume"].step \in {"idle", "sweep"}
      /\ sweep' = sweep \/ (session # 0 /\ ~stopping /\ sweep' = "stat")
      /\ UNCHANGED <<flags, index, history, backlog, serviceVars, handleVars, worldVars>>
  <2>1. /\ "resume" \in Callers /\ 0 \in 0..MaxSessions
        /\ opened /\ state = "paused" /\ call["resume"].step = "idle"
        /\ sweep' = sweep \/ (session # 0 /\ ~stopping /\ sweep' = "stat")
        /\ UNCHANGED <<flags, index, history, backlog, serviceVars, handleVars, worldVars>>
    BY LifecycleAssumption DEF Callers, Resume, StartSweep
  <2>2. PICK st \in {"active", "indexing"} : SetState(st)
    BY DEF Resume
  <2>3. /\ state' = st /\ raised' \subseteq AllIssues
        /\ Issues(state) \subseteq raised => Issues(state') \subseteq raised'
        /\ "disk_space_low" \in raised => "disk_space_low" \in raised'
        /\ "watcher_restarting" \in raised => "watcher_restarting" \in raised'
    BY <1>1, <2>2, StateIsSet DEF LifecycleTypes, States
  <2>4. call' = call \/ Goes("resume", "sweep", 0)
    BY DEF Resume
  <2>5. /\ call' \in [Callers -> CallPoints] /\ call'["resume"].step \in {"idle", "sweep"}
        /\ \A d \in Callers \ {"resume"} : call'[d] = call[d]
    BY <1>1, <2>1, <2>4, CallGoes DEF LifecycleTypes
  <2>6. QED
    BY <2>1, <2>2, <2>3, <2>5
<1>3. LifecycleTypes'
  BY <1>1, <1>2 DEF LifecycleTypes, Callers, States
<1>4. HandlesOK'
  BY <1>1, <1>2 DEF HandlesOK, Callers, Stoppers, Openers
<1>5. ASSUME ~crossed'
      PROVE  /\ OneWatcher' /\ OneStop' /\ OneRestart'
             /\ Unopened' /\ Shown' /\ Resting' /\ LossIsShown'
  <2>1. /\ ~crossed /\ OneWatcher /\ OneStop /\ OneRestart
        /\ Unopened /\ Shown /\ Resting /\ LossIsShown
    BY <1>1, <1>2, <1>5 DEF Orderly
  <2>2. OneWatcher'
    BY <1>1, <1>2, <2>1 DEF OneWatcher, LifecycleTypes, HandlesOK, Callers, Stoppers, Openers
  <2>3. OneStop'
    BY <1>1, <1>2, <2>1
       DEF OneStop, Opening, Exited, Quiet, LifecycleTypes, HandlesOK, OneWatcher, Callers, Stoppers,
           Openers
  <2>4. OneRestart'
    BY <1>1, <1>2, <2>1 DEF OneRestart, Quiet, LifecycleTypes, HandlesOK, Callers, Stoppers, Openers
  <2>5. Unopened'
    BY <1>1, <1>2, <2>1 DEF Unopened, LifecycleTypes, OneWatcher, Callers, Stoppers, Openers
  <2>6. Shown'
    BY <1>1, <1>2, <2>1 DEF Shown, OneStop, LifecycleTypes
  <2>7. Resting'
    BY <1>1, <1>2, <2>1 DEF Resting, LifecycleTypes, Callers, Stoppers, Openers
  <2>8. LossIsShown'
    BY <1>1, <1>2, <2>1 DEF LossIsShown, OneWatcher, LifecycleTypes, Callers, Stoppers, Openers
  <2>9. QED
    BY <2>2, <2>3, <2>4, <2>5, <2>6, <2>7, <2>8
<1>6. SpaceIsShown'
  BY <1>1, <1>2 DEF SpaceIsShown, LifecycleTypes, Callers, Stoppers, Openers
<1>7. QED
  BY <1>3, <1>4, <1>5, <1>6 DEF LifecycleInv, Orderly

\* The computer woke: the watcher in place is closed before a new one is spawned.
LEMMA WakeKeeps == LifecycleInv /\ Wake => LifecycleInv'
<1> SUFFICES ASSUME LifecycleInv, Wake PROVE LifecycleInv'
  OBVIOUS
<1>1. LifecycleTypes /\ HandlesOK /\ Orderly /\ SpaceIsShown
  BY DEF LifecycleInv
<1>2. /\ session \in Sessions /\ session # 0 /\ ~halted[session] /\ watcher[session] # 0
      /\ Close(session)
      /\ call' \in [Callers -> CallPoints] /\ call'["wake"].step = "closing" /\ call'["wake"].at = session
         /\ \A d \in Callers \ {"wake"} : call'[d] = call[d]
      /\ UNCHANGED <<stateVars, index, sweep, history, backlog, halted, buffering, buffered,
                     closing, armed, known, dirty>>
  <2>1. "wake" \in Callers /\ session \in Sessions /\ Goes("wake", "closing", session)
    BY <1>1, LifecycleAssumption DEF Wake, Callers, LifecycleTypes, Sessions
  <2>2. QED
    BY <1>1, <2>1, CallGoes DEF Wake, LifecycleTypes
<1>3. /\ HandlesOK' /\ watcher'[session] = 0
      /\ \A s \in Sessions \ {session} : watcher'[s] = watcher[s]
      /\ \A h \in Handles : owner'[h] = IF h = watcher[session] THEN 0 ELSE owner[h]
  BY <1>1, <1>2, Closes
<1>4. LifecycleTypes'
  BY <1>1, <1>2, <1>3 DEF LifecycleTypes, Callers, Stoppers, Openers
<1>5. HandlesOK'
  BY <1>3
<1>6. ASSUME ~crossed'
      PROVE  /\ OneWatcher' /\ OneStop' /\ OneRestart'
             /\ Unopened' /\ Shown' /\ Resting' /\ LossIsShown'
  <2>1. /\ ~crossed /\ OneWatcher /\ OneStop /\ OneRestart
        /\ Unopened /\ Shown /\ Resting /\ LossIsShown
    BY <1>1, <1>2, <1>3, <1>6 DEF Orderly
  <2>2. OneWatcher'
    BY <1>1, <1>2, <1>3, <2>1 DEF OneWatcher, LifecycleTypes, HandlesOK, Callers, Stoppers, Openers
  <2>3. OneStop'
    BY <1>1, <1>2, <1>3, <2>1
       DEF OneStop, Opening, Exited, Quiet, LifecycleTypes, HandlesOK, OneWatcher, Callers, Stoppers,
           Openers
  <2>4. OneRestart'
    BY <1>1, <1>2, <1>3, <2>1 DEF OneRestart, Quiet, LifecycleTypes, HandlesOK, Callers, Stoppers, Openers
  <2>5. Unopened'
    BY <1>1, <1>2, <1>3, <2>1 DEF Unopened, LifecycleTypes, OneWatcher, Callers, Stoppers, Openers
  <2>6. Shown'
    BY <1>1, <1>2, <1>3, <2>1, IssuesOf DEF Shown, LifecycleTypes, Callers, Stoppers, Openers
  <2>7. Resting'
    BY <1>1, <1>2, <1>3, <2>1 DEF Resting, LifecycleTypes, Callers, Stoppers, Openers
  <2>8. LossIsShown'
    BY <1>1, <1>2, <1>3, <2>1 DEF LossIsShown, OneWatcher, LifecycleTypes, Callers, Stoppers, Openers
  <2>9. QED
    BY <2>2, <2>3, <2>4, <2>5, <2>6, <2>7, <2>8
<1>7. SpaceIsShown'
  BY <1>1, <1>2, <1>3 DEF SpaceIsShown, LifecycleTypes, Callers, Stoppers, Openers
<1>8. QED
  BY <1>4, <1>5, <1>6, <1>7 DEF LifecycleInv, Orderly

\* After the wake-up the watcher is spawned anew.
LEMMA WakeSpawnsKeeps == LifecycleInv /\ WakeSpawns => LifecycleInv'
<1> SUFFICES ASSUME LifecycleInv, WakeSpawns PROVE LifecycleInv'
  OBVIOUS
<1>1. LifecycleTypes /\ HandlesOK /\ Orderly /\ SpaceIsShown
  BY DEF LifecycleInv
<1>2. /\ \/ call["wake"].step = "closing"
         \/ session # 0 /\ ~halted[session] /\ watcher[session] = 0
      /\ call' \in [Callers -> CallPoints] /\ call'["wake"].step = "idle" /\ call'["wake"].at = 0
         /\ \A d \in Callers \ {"wake"} : call'[d] = call[d]
      /\ StartSweep(state)
      /\ crossed' = (crossed \/ (session # 0 /\ armed[session] + closing[session] > 0))
      /\ UNCHANGED <<stateVars, index, underway, backlog, halted, buffering, buffered, closing,
                     armed, known, dirty>>
  <2>1. "wake" \in Callers /\ 0 \in 0..MaxSessions
    BY LifecycleAssumption DEF Callers
  <2>2. QED
    BY <1>1, <2>1, CallGoes DEF WakeSpawns, LifecycleTypes
<1>3. \E s \in Sessions :
         /\ s = IF call["wake"].step = "closing" THEN call["wake"].at ELSE session
         /\ HandlesOK' /\ watcher'[s] \in Handles /\ owner'[watcher'[s]] = s
         /\ \A t \in Sessions \ {s} : watcher'[t] = watcher[t]
         /\ \A h \in Handles : h # watcher'[s] => owner'[h] = owner[h]
  <2> DEFINE s == IF call["wake"].step = "closing" THEN call["wake"].at ELSE session
  <2>1. Spawn(s)
    BY DEF WakeSpawns
  <2>2. s \in Sessions
    BY <1>1, <1>2, LifecycleAssumption DEF LifecycleTypes, CallPoints, Callers, Sessions
  <2> HIDE DEF s
  <2>3. /\ HandlesOK' /\ watcher'[s] \in Handles /\ owner'[watcher'[s]] = s
        /\ \A t \in Sessions \ {s} : watcher'[t] = watcher[t]
        /\ \A h \in Handles : h # watcher'[s] => owner'[h] = owner[h]
    BY <1>1, <2>1, <2>2, Spawns
  <2>4. QED
    BY <2>2, <2>3 DEF s
<1>4. LifecycleTypes'
  <2>1. crossed' \in BOOLEAN
    BY <1>1, <1>2, <1>3 DEF LifecycleTypes
  <2>2. sweep' \in {"none", "stat", "visit"}
    BY <1>1, <1>2, <1>3 DEF LifecycleTypes, StartSweep
  <2>3. QED
    BY <1>1, <1>2, <1>3, <2>1, <2>2 DEF LifecycleTypes, Callers
<1>5. HandlesOK'
  BY <1>3
<1>6. ASSUME ~crossed'
      PROVE  /\ OneWatcher' /\ OneStop' /\ OneRestart'
             /\ Unopened' /\ Shown' /\ Resting' /\ LossIsShown'
  <2>1. /\ ~crossed /\ OneWatcher /\ OneStop /\ OneRestart
        /\ Unopened /\ Shown /\ Resting /\ LossIsShown
    BY <1>1, <1>2, <1>3, <1>6 DEF Orderly
  <2>2. /\ session \in Sessions /\ session # 0 /\ Quiet(session)
        /\ watcher'[session] \in Handles /\ owner'[watcher'[session]] = session
        /\ watcher[session] = 0 /\ \A t \in Sessions \ {session} : watcher'[t] = watcher[t]
        /\ \A h \in Handles : h # watcher'[session] => owner'[h] = owner[h]
        /\ opened /\ (sweep' = sweep \/ (~stopping /\ state # "paused"))
        /\ ~\E c \in Stoppers : call[c].step = "closing"
    <3>1. session # 0
      BY <1>1, <1>2, <1>3, <2>1 DEF OneRestart, LifecycleTypes, Callers
    <3>2. session \in Sessions /\ armed[session] \in Nat /\ closing[session] \in Nat
      BY <1>1, <1>2, <1>3, <2>1, <3>1, LifecycleAssumption DEF LifecycleTypes, Sessions
    <3>3. Quiet(session)
      <4>1. ~(armed[session] + closing[session] > 0)
        BY <1>2, <3>1, <1>6
      <4>2. QED
        BY <3>2, <4>1 DEF Quiet
    <3>4. PICK s \in Sessions :
             /\ s = IF call["wake"].step = "closing" THEN call["wake"].at ELSE session
             /\ HandlesOK' /\ watcher'[s] \in Handles /\ owner'[watcher'[s]] = s
             /\ \A t \in Sessions \ {s} : watcher'[t] = watcher[t]
             /\ \A h \in Handles : h # watcher'[s] => owner'[h] = owner[h]
      BY <1>3
    <3>5. s = session /\ watcher[session] = 0
      BY <1>1, <1>2, <1>3, <2>1, <3>1, <3>4 DEF OneRestart
    <3>6. opened /\ (sweep' = sweep \/ (~stopping /\ state # "paused"))
      BY <1>1, <1>2, <1>3, <2>1, <3>1 DEF Unopened, StartSweep, LifecycleTypes
    <3>7. ~\E c \in Stoppers : call[c].step = "closing"
      BY <1>1, <1>2, <1>3, <2>1 DEF OneStop
    <3>8. QED
      BY <3>1, <3>2, <3>3, <3>4, <3>5, <3>6, <3>7
  <2>3. OneWatcher'
    BY <1>1, <1>2, <1>3, <2>1, <2>2 DEF OneWatcher, HandlesOK, Handles
  <2>4. OneStop'
    BY <1>1, <1>2, <1>3, <2>1, <2>2
       DEF OneStop, Opening, Exited, Quiet, LifecycleTypes, HandlesOK, OneWatcher, Callers, Stoppers,
           Openers, StartSweep
  <2>5. OneRestart'
    BY <1>1, <1>2, <1>3, <2>1, <2>2
       DEF OneRestart, Quiet, LifecycleTypes, HandlesOK, Callers, Stoppers, Openers, StartSweep
  <2>6. Unopened'
    BY <1>1, <1>2, <1>3, <2>1, <2>2
       DEF Unopened, LifecycleTypes, OneWatcher, Callers, Stoppers, Openers, StartSweep
  <2>7. Shown'
    BY <1>1, <1>2, <1>3, <2>1, <2>2, IssuesOf
       DEF Shown, LifecycleTypes, Callers, Stoppers, Openers, StartSweep
  <2>8. Resting'
    BY <1>1, <1>2, <1>3, <2>1, <2>2 DEF Resting, LifecycleTypes, Callers, Stoppers, Openers, StartSweep
  <2>9. LossIsShown'
    BY <1>1, <1>2, <1>3, <2>1, <2>2, LifecycleAssumption DEF LossIsShown, Handles
  <2>10. QED
    BY <2>3, <2>4, <2>5, <2>6, <2>7, <2>8, <2>9
<1>7. SpaceIsShown'
  BY <1>1, <1>2, <1>3 DEF SpaceIsShown, LifecycleTypes, Callers, Stoppers, Openers, StartSweep
<1>8. QED
  BY <1>4, <1>5, <1>6, <1>7 DEF LifecycleInv, Orderly

-----------------------------------------------------------------------------
(* The watcher and its restarts.                                           *)
LEMMA ChangeKeeps == LifecycleInv /\ Change => LifecycleInv'
<1> SUFFICES ASSUME LifecycleInv, Change PROVE LifecycleInv'
  OBVIOUS
<1>1. LifecycleTypes /\ HandlesOK /\ Orderly /\ SpaceIsShown
  BY DEF LifecycleInv
<1> USE DEF Change, Happens
<1>2. LifecycleTypes'
  BY <1>1 DEF LifecycleTypes
<1>3. HandlesOK'
  BY <1>1 DEF HandlesOK
<1>4. ASSUME ~crossed'
      PROVE  /\ OneWatcher' /\ OneStop' /\ OneRestart'
             /\ Unopened' /\ Shown' /\ Resting' /\ LossIsShown'
  <2>1. /\ ~crossed /\ OneWatcher /\ OneStop /\ OneRestart
        /\ Unopened /\ Shown /\ Resting /\ LossIsShown
    BY <1>1, <1>4 DEF Orderly
  <2>2. OneWatcher'
    BY <1>1, <2>1 DEF OneWatcher, LifecycleTypes, HandlesOK
  <2>3. OneStop'
    BY <1>1, <2>1 DEF OneStop, Opening, Exited, Quiet, LifecycleTypes, HandlesOK, OneWatcher
  <2>4. OneRestart'
    BY <1>1, <2>1 DEF OneRestart, Quiet, LifecycleTypes, HandlesOK
  <2>5. Unopened'
    BY <1>1, <2>1 DEF Unopened, LifecycleTypes, OneWatcher
  <2>6. Shown'
    BY <1>1, <2>1, IssuesOf DEF Shown, LifecycleTypes
  <2>7. Resting'
    BY <1>1, <2>1 DEF Resting, LifecycleTypes
  <2>8. LossIsShown'
    BY <1>1, <2>1 DEF LossIsShown, OneWatcher, LifecycleTypes
  <2>9. QED
    BY <2>2, <2>3, <2>4, <2>5, <2>6, <2>7, <2>8
<1>5. SpaceIsShown'
  BY <1>1 DEF SpaceIsShown, LifecycleTypes
<1>6. QED
  BY <1>2, <1>3, <1>4, <1>5 DEF LifecycleInv, Orderly

\* A watcher is scanned and hands over what it buffered.
LEMMA HandleReadyKeeps ==
    ASSUME NEW h \in Handles
    PROVE  LifecycleInv /\ HandleReady(h) => LifecycleInv'
<1> SUFFICES ASSUME LifecycleInv, HandleReady(h) PROVE LifecycleInv'
  OBVIOUS
<1>1. LifecycleTypes /\ HandlesOK /\ Orderly /\ SpaceIsShown
  BY DEF LifecycleInv
<1>2. /\ owner[h] # 0 /\ scanned' = [scanned EXCEPT ![h] = TRUE]
      /\ raised' = raised \ {"watcher_restarting"}
      /\ \/ state = "degraded" /\ state' = "active" /\ StartSweep("active")
         \/ state # "degraded" /\ UNCHANGED <<state, sweep>>
      /\ UNCHANGED <<flags, call, index, history, backlog, serviceVars, owner, news, worldVars>>
  BY DEF HandleReady, Clear
<1>3. LifecycleTypes'
  BY <1>1, <1>2 DEF LifecycleTypes, StartSweep, States
<1>4. HandlesOK'
  BY <1>1, <1>2 DEF HandlesOK, StartSweep
<1>5. ASSUME ~crossed'
      PROVE  /\ OneWatcher' /\ OneStop' /\ OneRestart'
             /\ Unopened' /\ Shown' /\ Resting' /\ LossIsShown'
  <2>1. /\ ~crossed /\ OneWatcher /\ OneStop /\ OneRestart
        /\ Unopened /\ Shown /\ Resting /\ LossIsShown
    BY <1>1, <1>2, <1>5 DEF Orderly
  <2>2. OneWatcher'
    BY <1>1, <1>2, <2>1 DEF OneWatcher, LifecycleTypes, HandlesOK, StartSweep
  <2>3. OneStop'
    BY <1>1, <1>2, <2>1
       DEF OneStop, Opening, Exited, Quiet, LifecycleTypes, HandlesOK, OneWatcher, StartSweep
  <2>4. OneRestart'
    BY <1>1, <1>2, <2>1 DEF OneRestart, Quiet, LifecycleTypes, HandlesOK, StartSweep
  <2>5. Unopened'
    BY <1>1, <1>2, <2>1 DEF Unopened, LifecycleTypes, OneWatcher, StartSweep
  <2>6. Shown'
    BY <1>1, <1>2, <2>1, IssuesOf DEF Shown, LifecycleTypes, StartSweep
  <2>7. Resting'
    BY <1>1, <1>2, <2>1 DEF Resting, LifecycleTypes, StartSweep
  <2>8. LossIsShown'
    BY <1>1, <1>2, <2>1 DEF LossIsShown, OneWatcher, HandlesOK, LifecycleTypes, Handles
  <2>9. QED
    BY <2>2, <2>3, <2>4, <2>5, <2>6, <2>7, <2>8
<1>6. SpaceIsShown'
  BY <1>1, <1>2 DEF SpaceIsShown, LifecycleTypes, StartSweep
<1>7. QED
  BY <1>3, <1>4, <1>5, <1>6 DEF LifecycleInv, Orderly

\* A watcher reports a change.
LEMMA DeliverKeeps ==
    ASSUME NEW h \in Handles
    PROVE  LifecycleInv /\ Deliver(h) => LifecycleInv'
<1> SUFFICES ASSUME LifecycleInv, Deliver(h) PROVE LifecycleInv'
  OBVIOUS
<1>1. LifecycleTypes /\ HandlesOK /\ Orderly /\ SpaceIsShown
  BY DEF LifecycleInv
<1> USE DEF Deliver, TouchIf, Admits, Touched
<1>2. LifecycleTypes'
  BY <1>1 DEF LifecycleTypes
<1>3. HandlesOK'
  BY <1>1 DEF HandlesOK
<1>4. ASSUME ~crossed'
      PROVE  /\ OneWatcher' /\ OneStop' /\ OneRestart'
             /\ Unopened' /\ Shown' /\ Resting' /\ LossIsShown'
  <2>1. /\ ~crossed /\ OneWatcher /\ OneStop /\ OneRestart
        /\ Unopened /\ Shown /\ Resting /\ LossIsShown
    BY <1>1, <1>4 DEF Orderly
  <2>2. OneWatcher'
    BY <1>1, <2>1 DEF OneWatcher, LifecycleTypes, HandlesOK
  <2>3. OneStop'
    BY <1>1, <2>1 DEF OneStop, Opening, Exited, Quiet, LifecycleTypes, HandlesOK, OneWatcher
  <2>4. OneRestart'
    BY <1>1, <2>1 DEF OneRestart, Quiet, LifecycleTypes, HandlesOK
  <2>5. Unopened'
    BY <1>1, <2>1 DEF Unopened, LifecycleTypes, OneWatcher
  <2>6. Shown'
    BY <1>1, <2>1, IssuesOf DEF Shown, LifecycleTypes
  <2>7. Resting'
    BY <1>1, <2>1 DEF Resting, LifecycleTypes
  <2>8. LossIsShown'
    BY <1>1, <2>1 DEF LossIsShown, OneWatcher, LifecycleTypes
  <2>9. QED
    BY <2>2, <2>3, <2>4, <2>5, <2>6, <2>7, <2>8
<1>5. SpaceIsShown'
  BY <1>1 DEF SpaceIsShown, LifecycleTypes
<1>6. QED
  BY <1>2, <1>3, <1>4, <1>5 DEF LifecycleInv, Orderly

\* A watcher reports an error; the one of the session in place arms the retry.
LEMMA HandleFailsKeeps ==
    ASSUME NEW h \in Handles
    PROVE  LifecycleInv /\ HandleFails(h) => LifecycleInv'
<1> SUFFICES ASSUME LifecycleInv, HandleFails(h) PROVE LifecycleInv'
  OBVIOUS
<1>1. LifecycleTypes /\ HandlesOK /\ Orderly /\ SpaceIsShown
  BY DEF LifecycleInv
<1>2. /\ owner[h] \in Sessions /\ owner[h] # 0 /\ ~halted[owner[h]]
      /\ state' = "degraded"
      /\ raised' = (raised \cap {"disk_space_low"}) \cup {"watcher_restarting"}
      /\ Close(owner[h])
      /\ \/ /\ watcher[owner[h]] # 0
            /\ closing' = [closing EXCEPT ![owner[h]] = @ + 1] /\ UNCHANGED <<armed, known>>
         \/ /\ watcher[owner[h]] = 0 /\ UNCHANGED closing
            /\ armed' = [armed EXCEPT ![owner[h]] = @ + 1]
            /\ known' = [known EXCEPT ![owner[h]] = TRUE]
      /\ UNCHANGED <<flags, callVars, backlog, halted, buffering, buffered, dirty>>
  BY <1>1, LifecycleAssumption DEF HandleFails, HandlesOK, Sessions
<1>3. /\ HandlesOK' /\ watcher'[owner[h]] = 0
      /\ \A s \in Sessions \ {owner[h]} : watcher'[s] = watcher[s]
      /\ \A g \in Handles : owner'[g] = IF g = watcher[owner[h]] THEN 0 ELSE owner[g]
  BY <1>1, <1>2, Closes
<1>4. LifecycleTypes'
  <2>1. state' \in States /\ raised' \subseteq AllIssues
    BY <1>1, <1>2, <1>3, IssuesOf DEF LifecycleTypes, States
  <2>2. closing' \in [Sessions -> Nat] /\ armed' \in [Sessions -> Nat]
    BY <1>1, <1>2, <1>3 DEF LifecycleTypes
  <2>3. known' \in [Sessions -> BOOLEAN]
    BY <1>1, <1>2, <1>3 DEF LifecycleTypes
  <2>4. \A s \in Sessions : known'[s] => armed'[s] > 0
    <3>1. CASE UNCHANGED <<armed, known>>
      BY <1>1, <1>2, <1>3, <3>1 DEF LifecycleTypes
    <3>2. CASE armed' = [armed EXCEPT ![owner[h]] = @ + 1]
      <4>1. \A s \in Sessions : armed[s] \in Nat /\ (known'[s] => known[s] \/ s = owner[h])
        BY <1>1, <1>2, <1>3 DEF LifecycleTypes
      <4>2. QED
        BY <1>1, <1>2, <1>3, <3>2, <4>1 DEF LifecycleTypes
    <3>3. QED
      BY <1>2, <3>1, <3>2
  <2>5. QED
    BY <1>1, <1>2, <1>3, <2>1, <2>2, <2>3, <2>4 DEF LifecycleTypes
<1>5. HandlesOK'
  BY <1>3
<1>6. ASSUME ~crossed'
      PROVE  /\ OneWatcher' /\ OneStop' /\ OneRestart'
             /\ Unopened' /\ Shown' /\ Resting' /\ LossIsShown'
  <2>1. /\ ~crossed /\ OneWatcher /\ OneStop /\ OneRestart
        /\ Unopened /\ Shown /\ Resting /\ LossIsShown
    BY <1>1, <1>2, <1>3, <1>6 DEF Orderly
  <2>2. /\ owner[h] = session /\ watcher[session] = h /\ h # 0 /\ opened
        /\ closing' = [closing EXCEPT ![session] = @ + 1] /\ UNCHANGED <<armed, known>>
        /\ Quiet(session) /\ call["wake"].step # "closing"
        /\ ~\E c \in Stoppers : call[c].step = "closing"
    <3>1. owner[h] = session /\ watcher[session] = h /\ h # 0
      BY <1>1, <1>2, <1>3, <2>1, LifecycleAssumption DEF OneWatcher, Handles
    <3>2. /\ Quiet(session) /\ call["wake"].step # "closing"
          /\ ~\E c \in Stoppers : call[c].step = "closing"
      BY <1>1, <1>2, <1>3, <2>1, <3>1 DEF OneRestart, OneStop
    <3>3. opened
      BY <1>1, <1>2, <1>3, <2>1, <3>1 DEF Unopened
    <3>4. QED
      BY <1>1, <1>2, <1>3, <2>1, <3>1, <3>2, <3>3
  <2>3. OneWatcher'
    BY <1>1, <1>2, <1>3, <2>1, <2>2 DEF OneWatcher, LifecycleTypes, HandlesOK
  <2>4. OneStop'
    BY <1>1, <1>2, <1>3, <2>1, <2>2
       DEF OneStop, Opening, Exited, Quiet, LifecycleTypes, HandlesOK, OneWatcher
  <2>5. OneRestart'
    BY <1>1, <1>2, <1>3, <2>1, <2>2 DEF OneRestart, Quiet, LifecycleTypes, HandlesOK
  <2>6. Unopened'
    BY <1>1, <1>2, <1>3, <2>1, <2>2 DEF Unopened, LifecycleTypes, OneWatcher
  <2>7. Shown'
    BY <1>1, <1>2, <1>3, <2>1, <2>2, IssuesOf DEF Shown, LifecycleTypes
  <2>8. Resting'
    BY <1>1, <1>2, <1>3, <2>1, <2>2 DEF Resting, LifecycleTypes
  <2>9. LossIsShown'
    BY <1>1, <1>2, <1>3, <2>1, <2>2 DEF LossIsShown, OneWatcher, LifecycleTypes
  <2>10. QED
    BY <2>3, <2>4, <2>5, <2>6, <2>7, <2>8, <2>9
<1>7. SpaceIsShown'
  BY <1>1, <1>2, <1>3 DEF SpaceIsShown, LifecycleTypes
<1>8. QED
  BY <1>4, <1>5, <1>6, <1>7 DEF LifecycleInv, Orderly

\* The failed watcher is closed and the restart is armed.
LEMMA RestartArmsKeeps ==
    ASSUME NEW s \in Sessions
    PROVE  LifecycleInv /\ RestartArms(s) => LifecycleInv'
<1> SUFFICES ASSUME LifecycleInv, RestartArms(s) PROVE LifecycleInv'
  OBVIOUS
<1>1. LifecycleTypes /\ HandlesOK /\ Orderly /\ SpaceIsShown
  BY DEF LifecycleInv
<1> USE DEF RestartArms
<1>2. LifecycleTypes'
  BY <1>1 DEF LifecycleTypes
<1>3. HandlesOK'
  BY <1>1 DEF HandlesOK
<1>4. ASSUME ~crossed'
      PROVE  /\ OneWatcher' /\ OneStop' /\ OneRestart'
             /\ Unopened' /\ Shown' /\ Resting' /\ LossIsShown'
  <2>1. /\ ~crossed /\ OneWatcher /\ OneStop /\ OneRestart
        /\ Unopened /\ Shown /\ Resting /\ LossIsShown
    BY <1>1, <1>4 DEF Orderly
  <2>2. OneWatcher'
    BY <1>1, <2>1 DEF OneWatcher, LifecycleTypes, HandlesOK
  <2>3. OneStop'
    BY <1>1, <2>1 DEF OneStop, Opening, Exited, Quiet, LifecycleTypes, HandlesOK, OneWatcher
  <2>4. OneRestart'
    BY <1>1, <2>1 DEF OneRestart, Quiet, LifecycleTypes, HandlesOK
  <2>5. Unopened'
    BY <1>1, <2>1 DEF Unopened, LifecycleTypes, OneWatcher
  <2>6. Shown'
    BY <1>1, <2>1, IssuesOf DEF Shown, LifecycleTypes
  <2>7. Resting'
    BY <1>1, <2>1 DEF Resting, LifecycleTypes
  <2>8. LossIsShown'
    BY <1>1, <2>1 DEF LossIsShown, OneWatcher, LifecycleTypes
  <2>9. QED
    BY <2>2, <2>3, <2>4, <2>5, <2>6, <2>7, <2>8
<1>5. SpaceIsShown'
  BY <1>1 DEF SpaceIsShown, LifecycleTypes
<1>6. QED
  BY <1>2, <1>3, <1>4, <1>5 DEF LifecycleInv, Orderly

\* The restart that was armed spawns a new watcher.
LEMMA RestartSpawnsKeeps ==
    ASSUME NEW s \in Sessions
    PROVE  LifecycleInv /\ RestartSpawns(s) => LifecycleInv'
<1> SUFFICES ASSUME LifecycleInv, RestartSpawns(s) PROVE LifecycleInv'
  OBVIOUS
<1>1. LifecycleTypes /\ HandlesOK /\ Orderly /\ SpaceIsShown
  BY DEF LifecycleInv
<1>2. /\ armed[s] > 0 /\ armed' = [armed EXCEPT ![s] = @ - 1]
      /\ known' = [known EXCEPT ![s] = FALSE]
      /\ Spawn(s)
      /\ UNCHANGED <<stateVars, callVars, backlog, halted, buffering, buffered, closing, worldVars>>
  BY DEF RestartSpawns
<1>3. /\ HandlesOK' /\ watcher'[s] \in Handles /\ owner'[watcher'[s]] = s
      /\ \A t \in Sessions \ {s} : watcher'[t] = watcher[t]
      /\ \A h \in Handles : h # watcher'[s] => owner'[h] = owner[h]
  BY <1>1, <1>2, Spawns
<1>4. LifecycleTypes'
  <2>1. armed' \in [Sessions -> Nat] /\ known' \in [Sessions -> BOOLEAN]
    BY <1>1, <1>2, <1>3 DEF LifecycleTypes
  <2>2. \A t \in Sessions : known'[t] => armed'[t] > 0
    BY <1>1, <1>2, <1>3 DEF LifecycleTypes
  <2>3. QED
    BY <1>1, <1>2, <1>3, <2>1, <2>2 DEF LifecycleTypes
<1>5. HandlesOK'
  BY <1>3
<1>6. ASSUME ~crossed'
      PROVE  /\ OneWatcher' /\ OneStop' /\ OneRestart'
             /\ Unopened' /\ Shown' /\ Resting' /\ LossIsShown'
  <2>1. /\ ~crossed /\ OneWatcher /\ OneStop /\ OneRestart
        /\ Unopened /\ Shown /\ Resting /\ LossIsShown
    BY <1>1, <1>2, <1>3, <1>6 DEF Orderly
  <2>2. /\ s = session /\ session # 0 /\ watcher[session] = 0 /\ closing[session] = 0
        /\ armed[session] = 1 /\ armed'[session] = 0 /\ ~known'[session]
        /\ call["wake"].step # "closing"
        /\ ~\E c \in Stoppers : call[c].step = "closing"
    <3>1. s = session /\ session # 0
      BY <1>1, <1>2, <1>3, <2>1, LifecycleAssumption DEF OneRestart, Quiet, Sessions
    <3>2. armed[s] = 1 /\ closing[s] = 0 /\ watcher[s] = 0
      <4>1. armed[s] \in Nat /\ closing[s] \in Nat /\ armed[s] > 0
        BY <1>1, <1>2, <1>3, <2>1 DEF LifecycleTypes
      <4>2. armed[s] + closing[s] <= 1 /\ (watcher[s] # 0 => armed[s] = 0)
        BY <1>1, <1>2, <1>3, <2>1 DEF OneRestart, Quiet
      <4>3. QED
        BY <4>1, <4>2
    <3>3. call["wake"].step # "closing" /\ ~\E c \in Stoppers : call[c].step = "closing"
      BY <1>1, <1>2, <1>3, <2>1, <3>1, <3>2 DEF OneRestart, OneStop, Quiet
    <3>4. QED
      BY <1>1, <1>2, <1>3, <2>1, <3>1, <3>2, <3>3 DEF LifecycleTypes
  <2>3. OneWatcher'
    BY <1>1, <1>2, <1>3, <2>1, <2>2, LifecycleAssumption DEF OneWatcher, Handles
  <2>4. OneStop'
    BY <1>1, <1>2, <1>3, <2>1, <2>2
       DEF OneStop, Opening, Exited, Quiet, LifecycleTypes, HandlesOK, OneWatcher
  <2>5. OneRestart'
    BY <1>1, <1>2, <1>3, <2>1, <2>2 DEF OneRestart, Quiet, LifecycleTypes, HandlesOK
  <2>6. Unopened'
    BY <1>1, <1>2, <1>3, <2>1, <2>2 DEF Unopened, LifecycleTypes, OneWatcher
  <2>7. Shown'
    BY <1>1, <1>2, <1>3, <2>1, <2>2, IssuesOf DEF Shown, LifecycleTypes
  <2>8. Resting'
    BY <1>1, <1>2, <1>3, <2>1, <2>2 DEF Resting, LifecycleTypes
  <2>9. LossIsShown'
    BY <1>1, <1>2, <1>3, <2>1, <2>2, LifecycleAssumption DEF LossIsShown, Handles
  <2>10. QED
    BY <2>3, <2>4, <2>5, <2>6, <2>7, <2>8, <2>9
<1>7. SpaceIsShown'
  BY <1>1, <1>2, <1>3 DEF SpaceIsShown, LifecycleTypes
<1>8. QED
  BY <1>4, <1>5, <1>6, <1>7 DEF LifecycleInv, Orderly

-----------------------------------------------------------------------------
(* The queue.                                                              *)
LEMMA TaskStartsKeeps ==
    ASSUME NEW s \in Sessions
    PROVE  LifecycleInv /\ TaskStarts(s) => LifecycleInv'
<1> SUFFICES ASSUME LifecycleInv, TaskStarts(s) PROVE LifecycleInv'
  OBVIOUS
<1>1. LifecycleTypes /\ HandlesOK /\ Orderly /\ SpaceIsShown
  BY DEF LifecycleInv
<1> USE DEF TaskStarts
<1>2. LifecycleTypes'
  BY <1>1 DEF LifecycleTypes
<1>3. HandlesOK'
  BY <1>1 DEF HandlesOK
<1>4. ASSUME ~crossed'
      PROVE  /\ OneWatcher' /\ OneStop' /\ OneRestart'
             /\ Unopened' /\ Shown' /\ Resting' /\ LossIsShown'
  <2>1. /\ ~crossed /\ OneWatcher /\ OneStop /\ OneRestart
        /\ Unopened /\ Shown /\ Resting /\ LossIsShown
    BY <1>1, <1>4 DEF Orderly
  <2>2. OneWatcher'
    BY <1>1, <2>1 DEF OneWatcher, LifecycleTypes, HandlesOK
  <2>3. OneStop'
    BY <1>1, <2>1 DEF OneStop, Opening, Exited, Quiet, LifecycleTypes, HandlesOK, OneWatcher
  <2>4. OneRestart'
    BY <1>1, <2>1 DEF OneRestart, Quiet, LifecycleTypes, HandlesOK
  <2>5. Unopened'
    BY <1>1, <2>1 DEF Unopened, LifecycleTypes, OneWatcher
  <2>6. Shown'
    BY <1>1, <2>1, IssuesOf DEF Shown, LifecycleTypes
  <2>7. Resting'
    BY <1>1, <2>1 DEF Resting, LifecycleTypes
  <2>8. LossIsShown'
    BY <1>1, <2>1 DEF LossIsShown, OneWatcher, LifecycleTypes
  <2>9. QED
    BY <2>2, <2>3, <2>4, <2>5, <2>6, <2>7, <2>8
<1>5. SpaceIsShown'
  BY <1>1 DEF SpaceIsShown, LifecycleTypes
<1>6. QED
  BY <1>2, <1>3, <1>4, <1>5 DEF LifecycleInv, Orderly

\* The capture queue finished a task.
LEMMA TaskEndsKeeps ==
    ASSUME NEW s \in Sessions
    PROVE  LifecycleInv /\ TaskEnds(s) => LifecycleInv'
<1> SUFFICES ASSUME LifecycleInv, TaskEnds(s) PROVE LifecycleInv'
  OBVIOUS
<1>1. LifecycleTypes /\ HandlesOK /\ Orderly /\ SpaceIsShown
  BY DEF LifecycleInv
<1> USE DEF TaskEnds
<1>2. LifecycleTypes'
  BY <1>1 DEF LifecycleTypes
<1>3. HandlesOK'
  BY <1>1 DEF HandlesOK
<1>4. ASSUME ~crossed'
      PROVE  /\ OneWatcher' /\ OneStop' /\ OneRestart'
             /\ Unopened' /\ Shown' /\ Resting' /\ LossIsShown'
  <2>1. /\ ~crossed /\ OneWatcher /\ OneStop /\ OneRestart
        /\ Unopened /\ Shown /\ Resting /\ LossIsShown
    BY <1>1, <1>4 DEF Orderly
  <2>2. OneWatcher'
    BY <1>1, <2>1 DEF OneWatcher, LifecycleTypes, HandlesOK
  <2>3. OneStop'
    BY <1>1, <2>1 DEF OneStop, Opening, Exited, Quiet, LifecycleTypes, HandlesOK, OneWatcher
  <2>4. OneRestart'
    BY <1>1, <2>1 DEF OneRestart, Quiet, LifecycleTypes, HandlesOK
  <2>5. Unopened'
    BY <1>1, <2>1 DEF Unopened, LifecycleTypes, OneWatcher
  <2>6. Shown'
    BY <1>1, <2>1, IssuesOf DEF Shown, LifecycleTypes
  <2>7. Resting'
    BY <1>1, <2>1 DEF Resting, LifecycleTypes
  <2>8. LossIsShown'
    BY <1>1, <2>1 DEF LossIsShown, OneWatcher, LifecycleTypes
  <2>9. QED
    BY <2>2, <2>3, <2>4, <2>5, <2>6, <2>7, <2>8
<1>5. SpaceIsShown'
  BY <1>1 DEF SpaceIsShown, LifecycleTypes
<1>6. QED
  BY <1>2, <1>3, <1>4, <1>5 DEF LifecycleInv, Orderly

-----------------------------------------------------------------------------
\* Every step of the vault keeps the invariant, one lemma for each action.
LEMMA LifecycleNextKeeps == LifecycleInv /\ [LifecycleNext]_lifecycleVars => LifecycleInv'
<1> SUFFICES ASSUME LifecycleInv, [LifecycleNext]_lifecycleVars PROVE LifecycleInv'
  OBVIOUS
<1>1. CASE LifecycleNext
  <2>1. CASE \E c \in Stoppers : BeginStop(c) \/ StopFlushed(c) \/ CloseReturns(c)
    BY <2>1, BeginStopKeeps, FlushReturnsKeeps, CloseReturnsKeeps
  <2>2. CASE ~Exited /\ \E o \in Openers : OpenUnavailable(o) \/ StartTracking(o)
    BY <2>2, OpenUnavailableKeeps, StartTrackingKeeps
  <2>3. CASE \/ LaunchEmpty \/ Reconcile \/ SweepLooks \/ SweepEnds \/ SweepFindsNoFolder
             \/ SweepThrows \/ DiskChecked
    BY <2>3, LaunchEmptyKeeps, ReconcileKeeps, SweepLooksKeeps, SweepEndsKeeps,
       SweepFindsNoFolderKeeps, SweepThrowsKeeps, DiskCheckedKeeps
  <2>4. CASE Pause \/ PauseReturns \/ Resume \/ Wake \/ WakeSpawns \/ Change
    BY <2>4, PauseKeeps, PauseReturnsKeeps, ResumeKeeps, WakeKeeps, WakeSpawnsKeeps, ChangeKeeps
  <2>5. CASE \E s \in Sessions :
                \/ IndexVisits(s) \/ IndexEnds(s) \/ IndexThrows(s)
                \/ RestartArms(s) \/ RestartSpawns(s) \/ TaskStarts(s) \/ TaskEnds(s)
    BY <2>5, IndexVisitsKeeps, IndexEndsKeeps, IndexThrowsKeeps, RestartArmsKeeps,
       RestartSpawnsKeeps, TaskStartsKeeps, TaskEndsKeeps
  <2>6. CASE \E h \in Handles : HandleReady(h) \/ Deliver(h) \/ HandleFails(h)
    BY <2>6, HandleReadyKeeps, DeliverKeeps, HandleFailsKeeps
  <2>7. QED
    BY <1>1, <2>1, <2>2, <2>3, <2>4, <2>5, <2>6 DEF LifecycleNext
<1>2. CASE UNCHANGED lifecycleVars
  <2> USE <1>2 DEF lifecycleVars, LifecycleInv
  <2>1. LifecycleTypes' /\ HandlesOK' /\ SpaceIsShown'
    BY DEF LifecycleTypes, HandlesOK, SpaceIsShown
  <2>2. ASSUME ~crossed'
        PROVE  /\ OneWatcher' /\ OneStop' /\ OneRestart'
               /\ Unopened' /\ Shown' /\ Resting' /\ LossIsShown'
    <3>1. /\ ~crossed /\ OneWatcher /\ OneStop /\ OneRestart
          /\ Unopened /\ Shown /\ Resting /\ LossIsShown
      BY <2>2 DEF Orderly
    <3>2. OneWatcher' /\ OneStop' /\ OneRestart'
      BY <3>1 DEF OneWatcher, OneStop, OneRestart, Opening, Exited, Quiet
    <3>3. Unopened' /\ Shown' /\ Resting' /\ LossIsShown'
      BY <3>1 DEF Unopened, Shown, Resting, LossIsShown
    <3>4. QED
      BY <3>2, <3>3
  <2>3. QED
    BY <2>1, <2>2 DEF Orderly
<1>3. QED
  BY <1>1, <1>2

(* The inductive invariant of the life of tracking: as long as no calls or *)
(* restarts have run into one another there is one stop, one restart and   *)
(* one watcher, nothing is left of earlier sessions, and what the state    *)
(* says is shown.                                                          *)
THEOREM LifecycleInvariant == LifecycleSpec => []LifecycleInv
<1>1. QED
  BY LifecycleInitHolds, LifecycleNextKeeps, PTL DEF LifecycleSpec

\* The invariant says the type and the three properties of states.
LEMMA LifecycleInvImplies ==
    LifecycleInv => LifecycleTypeOK /\ OneWatcher /\ QuitDrains /\ IssuesFollowState
<1> SUFFICES ASSUME LifecycleInv
             PROVE  LifecycleTypeOK /\ OneWatcher /\ QuitDrains /\ IssuesFollowState
  OBVIOUS
<1> USE DEF LifecycleInv
<1>1. LifecycleTypeOK
  <2>1. raised \subseteq (UNION {Issues(st) : st \in States})
                            \cup {"watcher_restarting", "disk_space_low"}
    BY Zenon DEF LifecycleTypes, AllIssues, StateIssues
  <2>2. \A s \in Sessions : armed[s] \in Nat /\ closing[s] \in Nat
    BY DEF LifecycleTypes
  <2>3. QED
    BY <2>1, <2>2, Zenon DEF LifecycleTypeOK, LifecycleTypes, HandlesOK, CallPoints
<1>2. OneWatcher
  BY DEF Orderly, OneWatcher
<1>3. QuitDrains
  <2> SUFFICES ASSUME Exited, ~crossed, NEW s \in Sessions PROVE backlog[s] = "empty"
    BY DEF QuitDrains
  <2>1. session = 0 /\ s # session
    BY LifecycleAssumption DEF Orderly, OneStop, Sessions
  <2>2. QED
    BY <2>1 DEF Orderly, OneRestart
<1>4. IssuesFollowState
  <2> SUFFICES ASSUME ~crossed PROVE UnfollowedIsShown /\ LossIsShown
    BY DEF IssuesFollowState, SpaceIsShown
  <2>1. Shown /\ LossIsShown
    BY DEF Orderly
  <2>2. UnfollowedIsShown
    BY <2>1, IssuesOf DEF UnfollowedIsShown, Shown
  <2>3. QED
    BY <2>1, <2>2
<1>5. QED
  BY <1>1, <1>2, <1>3, <1>4

(* The coordinator and the watcher services keep their types, and what a   *)
(* service calls its watcher is a handle it owns (watcherService.ts:145).  *)
THEOREM LifecycleTypeCorrect == LifecycleSpec => []LifecycleTypeOK
<1>1. QED
  BY LifecycleInvariant, LifecycleInvImplies, PTL

(* No watcher of the library outlives its session or its replacement       *)
(* (watcherService.ts:127,131), for any number of failures, wake-ups and   *)
(* vaults.                                                                 *)
THEOREM SingleWatcher == LifecycleSpec => []OneWatcher
<1>1. QED
  BY LifecycleInvariant, LifecycleInvImplies, PTL

(* The process exits with every queue empty (main.ts:216).                 *)
THEOREM QuittingDrains == LifecycleSpec => []QuitDrains
<1>1. QED
  BY LifecycleInvariant, LifecycleInvImplies, PTL

(* Where calls do not cross, a folder without a session is shown as such   *)
(* unless work went on beyond the end of a stop or a pause, a lost watcher *)
(* is shown until another one is ready, and captures dropped for want of   *)
(* space are shown in any case (vaultCoordinator.ts:94, 251, 451).         *)
THEOREM IssuesFollow == LifecycleSpec => []IssuesFollowState
<1>1. QED
  BY LifecycleInvariant, LifecycleInvImplies, PTL

\* While the vault rests, paused, no step takes a change into the history.
LEMMA StepPauseHolds ==
    LifecycleInv /\ [LifecycleNext]_lifecycleVars =>
        (state = "paused" /\ ~underway /\ ~crossed /\ dirty => dirty')
<1> SUFFICES ASSUME LifecycleInv, [LifecycleNext]_lifecycleVars,
                    state = "paused", ~underway, ~crossed, dirty, ~dirty'
             PROVE  FALSE
  BY DEF LifecycleInv, LifecycleTypes
<1>1. sweep = "none" /\ \A s \in Sessions : index[s] # "scan" /\ backlog[s] = "empty"
  BY DEF LifecycleInv, Orderly, Resting
<1>2. \/ \E s \in Sessions : IndexVisits(s) \/ TaskEnds(s)
      \/ SweepEnds
  BY DEF LifecycleNext, lifecycleVars, BeginStop, StopFlushed, CloseReturns, OpenUnavailable,
         StartTracking, LaunchEmpty, IndexEnds, IndexThrows, Reconcile, SweepLooks,
         SweepFindsNoFolder, SweepThrows, DiskChecked, Pause, PauseReturns, Resume, Wake,
         WakeSpawns, Change, HandleReady, Deliver, HandleFails, RestartArms, RestartSpawns,
         TaskStarts
<1>3. QED
  BY <1>1, <1>2 DEF IndexVisits, TaskEnds, SweepEnds

(* Nothing is recorded while tracking is paused (vaultCoordinator.ts:301,  *)
(* 236, 404), whatever wakes, fails or restarts meanwhile, unless an index *)
(* or a reconciliation went on when pausing ended, or calls crossed.       *)
THEOREM PausingHolds == LifecycleSpec => PauseHolds
<1>1. QED
  BY LifecycleInvariant, StepPauseHolds, PTL DEF LifecycleSpec, PauseHolds
=============================================================================
