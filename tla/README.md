# Recover.MD in TLA+

Recover.MD watches a folder of Markdown notes and keeps every stable state of every
note in a local SQLite database. This directory holds the specifications of the
parts of it that decide what is recorded, when, of which document, what survives
a crash and what the window shows of it: what TLC checks of them on small
instances, and what the TLA+ proof system proves for all.

Paths below are relative to the root of the repository; `main` is `src/main`.

## The system and its parts

| Part | State it keeps | Operations | Talks to |
|---|---|---|---|
| Watcher service (`main/watcher`) | library handle, buffer, restart timer | start, events, restart, stop | calls back the coordinator |
| Capture queue (`main/capture/captureQueue.ts`) | timers by path, ready list, running set, parked tasks, slots | touch, markDeleted, cancel, flush, clear; timers; end of a run | calls `executeTask` of the coordinator |
| Rename correlator (`main/capture/renameCorrelator.ts`) | deletions held for a while | register, claim, release, expiry | asked by captures of the queue |
| Vault coordinator (`main/vault/vaultCoordinator.ts`) | tracking state, stopping, reconciling, the objects above | open, pause, resume, stop, events, tasks, timers | owns everything above and below |
| Capture service (`main/capture/captureService.ts`) | none; the tables `files`, `versions`, `blobs` | captureFromDisk, recordDeletion, captureBytes | store, file system |
| Reconciler and scanner (`main/capture/reconciler.ts`, `main/vault/scanner.ts`) | the listing of a walk | reconcileVault | capture service |
| Store and repositories (`main/storage`) | the database | statements, one transaction per version | SQLite |
| Backups (`main/storage/backupManager.ts`, `store.ts`) | files beside the database | create, prune, restoreOver, open | file system |
| Restore service (`main/restore`) | none | restore, recoverDeleted | capture service, file system, queue |
| Search (`main/search`) | derived index, stale flag | index, rebuild, search | store |
| Diff worker client (`main/diff`) | pending jobs, worker | diff, timeout, exit, dispose | a worker thread |
| Logger (`main/logging`) | chain of lines to write, stream, numbered files | log, rotate, close | file system |
| Health monitor (`main/health`) | issues raised | raise, clear, disk check | told by the coordinator, search, shell |
| Application shell (`main/app`) | the services | start, resume the last vault, quit | creates and ends everything |
| Router (`main/ipc`) | none | a handler for every call | between the renderer and the services |
| Renderer state (`src/renderer/state/appStore.ts`) | cached answers, dialogs | calls over IPC, events | main process |
| Renderer components (`src/renderer/components`, `App.tsx`) | none that matters here | buttons, keys | renderer state |

The main process is one JavaScript thread: code between two awaits is atomic, and
everything else interleaves at the awaits. Five things make it hard.

* **Two writers.** File system events travel through the queue, one task per file at
  a time. Reconciliation (at start, after sleep, every five minutes) walks the
  folder and records what it finds beside the queue, with no common order.
* **Timers that must agree.** The debounce (a setting, 1 to 30 s), the delete grace
  (2 s), the window in which a rename can be claimed and the maximum interval
  (60 s) are armed on different events and decide together what an event means.
* **Statements that are not one transaction.** A version and its blob commit
  together; the row of the file is created, reopened or moved before that. Likewise
  a damaged database is replaced, and a log rotated, by several file operations.
* **Calls that overlap.** Pausing, resuming, waking, opening another vault and
  quitting all wait for something, and read `this.queue` and `this.watcher` again
  afterwards. A failed worker or watcher is heard of after its successor started.
* **Answers out of order.** The window asks several things at once and the user goes
  on; an answer is about what was selected when it was asked for.

What makes the parts correct: the queue never works twice on a file at once, never
forgets an event and never lets a busy file wait for ever; the tables keep one
active row per path and an append-only timeline per document; the store ends up
saying what the disk says; a rename keeps the timeline; a restore can be undone;
nothing is recorded while tracking is paused, and what keeps notes from being
recorded is shown; one watcher follows the folder; the app starts with the history
there is; every diff is answered; the log keeps its end and its order; the window
shows what is selected and never stays locked.

## The modules

| Module | Models | Role |
|---|---|---|
| `FileWork` | the promise of the queue | abstract: changes settle, are owed, are worked on, never twice at once |
| `CaptureQueue` | `captureQueue.ts`, whole | detailed; implements `FileWork` |
| `CaptureQueueOrder` | the same, with the kind of the newest event | asks which event has the last word |
| `CaptureQueueProofs` | | theorems about `CaptureQueue` |
| `FileHistory` | the promise of the tables | abstract: timelines that only grow |
| `History` | captures and deletions as statements on `files` and `versions` | detailed; implements `FileHistory` |
| `HistoryProofs` | | theorems about `History` |
| `Vault` | the folder, its user, and what the store says of it | shared by the next four; a capture is one step |
| `Tracking` | coordinator, correlator, reconciler, and the queue as a timer, a task and a parked task per path | the composition, without time |
| `Renames` | the clock beside `Tracking` | when the three timers run; `Tracking` with and without a clock in one specification |
| `Restore` | `restoreService.ts`, `atomicWrite.ts` and `captureBytes`, beside `Tracking` | the part that writes to the folder |
| `Lifecycle` | `vaultCoordinator.ts` and `watcherService.ts` as calls that overlap | what is running, and what it may do |
| `Storage` | `store.ts`, `backupManager.ts`, `searchService.ts` | the database, its copies and its index |
| `DiffWorker` | `diffWorkerClient.ts`, `cpuWorker.ts` | jobs over threads that fail |
| `Log` | `logger.ts` | the chain of writes and the rotation |
| `Application` | the queue, `History`, `Lifecycle`, `Storage`, `DiffWorker` and `Log`, side by side | one specification and one run |
| `Renderer` | `appStore.ts` with the buttons and keys wired to it | the window beside the main process |
| `RestoreWindow` | `Restore` and `Renderer`, side by side | the two ends of a restore in one run |
| `TrackingProofs` | | theorems about `Tracking` and `Renames` |
| `RestoreProofs` | | theorems about `Restore` |
| `LifecycleProofs`, `StorageProofs` | | theorems about `Lifecycle` and `Storage` |
| `ApplicationProofs` | | theorems about `Log`, `DiffWorker` and `Application` |
| `RendererProofs` | | theorems about `Renderer` |

How state and actions correspond to the code:

* `CaptureQueue`: `timer`, `left`, `age` are an entry of the map `pending`, as a kind,
  ticks until it is due, and ticks since `firstEventAt`. `ready`, `running`, `requeue`,
  `active`, `draining` are the fields of those names. `execs` counts the frames of
  `run()` that await `execute`, so that the bookkeeping can be compared with what it
  is about. `drain()` is a loop on the stack (`draining`), one action per turn
  (`DrainRuns`, `DrainParks`, `DrainEnds`), and while it is there no callback runs
  (`Busy`). `Finish` is the whole `finally` block of `run()`, after success or error.
  `flush()` is `Flush`, one `FlushPromotes` per key, `FlushReturns`. `unserved` is a
  history variable. `clear()` is modelled; no production code calls it today.
* `History`: `status`, `path`, `pointer` (`current_version_id`), `newer` are columns of `files`
  (`newer` is the order of `updated_at`), `log` is `versions` by `sequence`. The part of
  `captureFromDisk` after its last await is a sequence of statements: `pc` and `about`
  say which one comes next, and `Fail` ends the call before it, for a crash as well
  as for an exception.
* `Vault`: `tracked` is the active row at a path, `graves` the deleted rows in the
  order of `updated_at`, `last` the newest content of a row with inode and mtime,
  `entombed` the rows whose newest version is a deletion. A row occurs once
  among `graves` (`RowsOnce`, proved), so that taking out its first occurrence takes it out.
  Of the size of a text there is which texts have the same one (`Alike`): the
  reconciliation compares sizes and mtimes and never the text.
* `Tracking`: `noticed` is what the watcher library saw last; `task[p].step` is the await
  a task stands at (`read`, `record`, `lookup`, `access`, `back`, `gone`); `held` is the
  correlator; `phase`, `todo`, `found` and `item` are the locals of `reconcileVault`. A read,
  a listing or an access check of a file that is there may fail (`Unreadable`).
* `Renames`: `left` and `heldLeft` are the times left to a path's timer and to a held
  deletion. `Tick` is possible when nothing is due, so a callback is never late by
  more than a tick; what falls due together runs in any order. `TimedSpec` has the
  clock; in `FollowSpec` a behavior has it from the start, or has none and is one
  of `Tracking` (`Untimed`), reconciliations and failing reads included.
* `Restore`: `job` is the dialog and then the locals of the call it made; `job.step` is the
  await it stands at. `kept` (the texts in the timeline of a row) and `calm` (the
  reconciliation under way began at rest and nothing moved since) are history variables.
* `Lifecycle`: a *session* is what one `startTracking` creates (a queue, a capture
  service, a `WatcherService`), a *handle* is a watcher of the library. `session` is
  what `this.queue` and `this.watcher` stand for, while `call[c].at` is the session a
  caller found before its await, so that code that reads the field again and code that
  kept the object differ. `call[c].step` is the await (`flush`, `closing`, `stat`,
  `sweep`). `index[s]` is `runInitialIndex` of a session, `sweep` the one `reconcile`
  there can be, `armed` the restart timers that will fire and `known` whether
  `restartTimer` still names one. `dirty` says that the folder is not as it was
  recorded; what a task does is in `Tracking`. `raised` are the issues of the health
  monitor. The history variable `underway` says that an index or a reconciliation
  went on when pausing ended, `crossed` that two openings, stops or restarts ran
  into one another.
* `Storage`: a database is the number of its versions, the set that the search index has,
  the stale flag, and whether it would pass the integrity check; a backup is such a
  record. `app` is where `Store.open` stands, `backing` where `create` stands, `cursor[r]`
  where a rebuild stands. `Stop` is a crash or a quit, between any two steps.
  `torn` and `failed` say that two rebuilds overlapped or one threw, `bereft` that a
  replacement was cut short after the damaged file was moved away. A copy that was
  begun is damaged until it ends; while it has no byte yet SQLite opens it as an
  empty database, which is the state before the copy (`NoFile`) and not the damaged one.
* `DiffWorker`: `thread[w]` goes from `live` over `failing` (the `error` event is due) and
  `ending` (`exit` is due) to `gone`; `inbox[w]` has what was posted; `request[r]` is
  `pending` in the map of jobs, `fallback` when its promise was rejected and the diff is
  computed in the main process instead.
* `Log`: `chain` is `this.pending`, and its first line is at `link`; `turn` is the rename
  of `rotate` that comes next. `landed` and `lapsed` are history variables: what
  was ever written, and that a rename has failed; `torn` is that a rotation was cut short.
* `Application`: the six parts share no variable and wait for nothing of each other, so
  a behavior is one of any single part (`part`), the others staying as they started;
  what holds of every behavior of a part holds beside the others, and the check
  costs the sum of the parts and not their product. `RestoreWindow` does the same
  for the main process and the window (`end`).
* `Renderer`: the fields of the store by name, each reduced to *which* file, version or
  comparison it is of. `calls` are the calls in flight: what is asked, `then` what
  the caller does next, `got` what main answered; main reads at one moment
  (`Read`, `Restore`, `Recover`) and the answer arrives at another, in any order.
  `overtaken` says that an answer came before that of an older call of its kind,
  `conflicts` and `occupied` what main reported.

Lines and symbols of every definition are in `PROJECT.json`. Operators named for a
mistake (`KeepTimer`, `HoldLater`, `RotationUpwards`, ...) are no part of the
specifications: each stands before the definition it is a broken variant of, and
`PROJECT.json` says which property notices it.

## What the runs show

| Run | Bounds | Shows |
|---|---|---|
| `application` | queue: 3 files, 2 slots, debounce 2, grace 1, interval 2, 2 timers or tasks not begun; tables: 2 rows, 2 paths, 2 texts, 4 versions in all, 1 call cut short; tracking: 2 sessions, 3 handles, 3 events; store: 1 backup retained, 2 there when another begins, 2 versions, 2 rebuilds, 1 fault; 3 diffs, 3 threads, 2 failures; 4 log files of 1 line, 6 lines, 1 fault | see below |
| `tracking` | 2 paths, 2 texts of one size; without a clock 3 operations of the user, the first note included, and failing reads in place of them; with a clock 5, debounce, grace and claim window 2, pace 3 | the store converges to the disk, also where a file that could not be read was taken for deleted; no file has two open timelines; a held deletion never lives to the end of its window; events alone bring the store up to date |
| `restore` | 2 paths, 3 texts, 2 of them of one size, 1 call, 1 operation of the user; window: 2 files, one deleted, 2 versions of each and 1 captured meanwhile, 4 clicks, 2 calls in flight at a click, 1 refusal | what a restore overwrites is in the timeline; however a call ends, an undisturbed reconciliation mends the store; the window shows what is selected once its calls are answered; nothing spins or stays busy for ever; a forced restore or replacement follows a reported conflict |
| `queue_order` (violation) | 3 files, 2 slots, 4 timers or tasks not begun | the last event of a file may not have the last word |
| `history_failure` (violation) | as in `application` | a call cut short leaves neither state |
| `tracking_read` (violation) | no operation, 1 failing read | a file that could not be read is recorded as deleted |
| `tracking_claim` (violation) | 3 operations after the first note | a row is taken away from a file that is there |
| `renames_debounce` (violation) | 2 operations after the first note, debounce 3, grace 2, window 2, pace 4 | a rename becomes a deletion and a new file |
| `restore_replace` (violation) | as in `restore` | a recovery overwrites bytes that are in no timeline |
| `pause` (violation) | 1 session, 1 handle, 2 events | notes are recorded while the state says paused |
| `issues` (violation) | the same | events reach no queue and no issue says so |
| `backup_retention` (violation) | 1 backup retained, 1 fault | pruning removes the last valid backup |

`application` asks of the queue: does no file run twice at once (`OneAtATime`), do slots
neither leak nor idle (`SlotsUsed`), is no event forgotten (`NoEventForgotten`) and no
capture later than the maximum interval (`DeadlineKept`); is a flush that returns complete
(`FlushComplete`), and does it return once events cease (`FlushTerminates`); is every event
served (`EventuallyServed`); is `FileWork` implemented (`ImplementsFileWork`). Of the tables:
unique paths (`OnePerPath`), tombstones on top (`TombstoneOnTop`), consistency of what no
failure touched (`ConsistentUnlessCutShort`), and `FileHistory` (`ImplementsFileHistory`). Of
`Lifecycle`: is there one watcher (`OneWatcher`), and one again after
each failure (`WatcherComesBack`); is nothing recorded while paused but what was under way
(`PauseHolds`) and everything in the end otherwise (`EventuallyRecorded`, `BufferReleased`); do
all calls return (`CallsReturn`); does quitting drain the queue (`QuitDrains`); are a folder
that no session follows, a lost watcher and captures dropped for want of space
shown (`IssuesFollowState`). Of `Storage`: a gap in the index is
shown (`GapsAreShown`), and the app starts with no less history than its valid backups
have (`StartsFromHistory`). Of `DiffWorker`: every diff ends
(`DiffsEnd`). Of `Log`: the files are in order and have the end of what was written
(`LogKept`).

Some of these name an exception (`~crossed`, `~underway`, `~bereft`, `~overtaken`,
`Disguised`, ...). Each stands for something the code really does and the model reaches;
`PROJECT.json` lists it under "hazards" with the line where it bites. The property says
that nothing else goes wrong. Where a document or a comment promises that this does not
happen either, a property without the exception is violated in a run of its own:

| Exception | in | without it |
|---|---|---|
| a call cut short | `ConsistentUnlessCutShort` | `AllOrNothing` (`history_failure`) |
| what was under way when pausing ended | `PauseHolds` | `PausedRecordsNothing` (`pause`) |
| calls that crossed; conditions that raise nothing | `IssuesFollowState`, `BufferReleased` | `StopsAreShown` (`issues`) |
| the timeline of the old path may end | `OneOpenTimeline` | `OneTimeline` (`renames_debounce`) |
| a tombstone that heals | `Converges` | `ReadFailureIsNoDeletion` (`tracking_read`) |

`Disguised` excepts an edit that leaves the size alone and whose mtime a restore has
recorded as its own. docs/architecture/overview.md:66-68 says of periodic reconciliation
that it captures the difference; it does not for such an edit, until the note changes again.

Why these bounds are enough to be interesting. Three files for two slots are the
fewest for which a file can be in flight, parked and in the ready list at once, with
another one to take the slot; the overwriting of a parked task needs all three. Two
timers or tasks that have not begun, beside the two in flight, are a file that is
ready and changes again; `queue_order` has four. What the safety properties need of
larger instances is proved. Two rows at two paths let a row return to a path that
another row took, with two texts for the comparison of hashes; after one call that was cut
short the next ones find what it left, and four versions in all are created, deleted,
reopened and deleted again. Two paths are a rename, also back and forth. In `tracking`
without a clock three operations beside a reconciliation are enough for every stale commit
we know of, and a read may fail in place of one; with a clock the user has five. There
the debounce is as long as the grace, the default, so that the timers of the two paths
of a rename are due together and run in either order; `renames_debounce` has the longer
debounce, and the theorems have any. In `restore` the folder starts in one of three
situations (the note is there, was deleted, was deleted and another one took its path),
so that one operation of the user can fall on any await of the call; a third text is one
that no version has yet, and two texts of one size hide an edit from the reconciliation.
In its window two files are the one asked for and the one selected now; two calls and
the events of captures overtake one another; four clicks are open, confirm, close, open
again.

In `application` two sessions are a vault left for another while something of the first
is under way; the third handle is the second watcher that a restart and a wake-up
leave behind, and three events are a failure, a change and a call. One retained
backup with two there puts pruning between two removals; one fault is the damage,
and stops are not counted. Two of three threads fail, so that the late `exit` of one
reaches the jobs of the next. Four log files make three renames: a crash after the
second leaves a file between two gaps, which is what takes the oldest file away at
the next rotation. Six lines fill the files and go round.

Bounds of the models, all in guards: `MaxBacklog` (what has been asked of the queue and
not begun, when an event for a further file comes); `MaxTimeline`, `MaxCuts`; `MaxEdits`,
`MaxFailures` (reads, and in `DiffWorker` threads), `MaxRush` (operations of the user
without a clock), `MaxJobs`; the rows of `Vault` are 1 to `MaxFiles`; `MaxSessions`,
`MaxHandles`, `MaxEvents`; `MaxVersions`, `MaxBackups`, `MaxFaults`; `MaxThreads`;
`MaxLines`, `MaxLogFaults`; `MaxCaptures`, `MaxClicks`, `MaxCalls`, `MaxRefusals`. In `Log`
`MaxFiles` and `MaxFileLines` are the limits of the code.

### Fairness

`QueueFairness`: a drain and the promotions of a flush go on, time passes, the caller of a
flush polls on, no timer stays due for ever, and no execution is in flight for ever. The
loop on the stack and JavaScript timers justify all but the last, which is the contract of
`execute`: it awaits file operations and retries a read three times. Nothing is assumed
of events. `EventuallyServed` excludes events
that re-arm the timer from the start without end: alternating writes and unlinks
reset `firstEventAt` (line 88), so the maximum interval does not apply to them.
`FlushTerminates` assumes that events cease. That is the case in `stopTracking`, where
`stopping` silences `onEvent` first, and is not in `pauseTracking`.

`FollowSpec`, where there is no clock: events are delivered, timers fire, held entries
expire, tasks go on; the reconciliation is started again and again (five-minute interval) and goes
on. The user owes nothing, and `MaxRush` makes him rest at last, which is what
`Converges` is about. Reads fail `MaxFailures` times at most: a file that never can be
read is never recorded. Where there is a clock, what is due is done and time goes on.

`LifecycleFairness`: an await on the queue that is empty, on the close of a watcher or on
`stat` returns, an index and a reconciliation go on, restart timers fire, tasks start
and end, a handle gets ready and delivers, and while `VaultTimers` run the
reconciliation is called again. That is the event loop, its timers and the file
system. Nobody has to call anything, to change a note or to fail.

`DiffFairness`: timers fire, rejected promises go on, and a thread that has ended is heard
of. A thread may compute for ever: the timeout is what ends a request then.

### Where the code and its documents part

Nine runs show a sentence of the documentation violated; `PROJECT.json` quotes them.

1. `queue_order`: `requeue.set` in `drain()` overwrites a newer task parked by `promote()`.
2. `history_failure`: the row changes before the transaction of the version.
3. `tracking_read`: phase 3 of the reconciliation takes what could not be listed for deleted.
4. `tracking_claim`: a held deletion is not released when its file came back within
   the grace.
5. `renames_debounce`: the claim window is made longer by the debounce, but the delete task
   decides the deletion, and drops the entry, when the grace of 2 s is over. With a longer
   debounce the moved file is captured after that. At the default both are 2 s, and the
   order of two timers that are due together decides.
6. `restore_replace`: replacing a file that no row tracks yet keeps no copy of it.
7. `pause`: an index or a reconciliation under way goes on when pausing has ended.
8. `issues`: an initial index that throws leaves the buffer of the watcher unreleased,
   and raises nothing. Resuming in a folder that is unavailable shows nothing either
   (`underway` in `IssuesFollowState`).
9. `backup_retention`: pruning counts backups by age and not by validity.

Numbers 3 and 4 heal at the next reconciliation, as `Converges` shows; the timeline
keeps a tombstone, or a version of another document. Number 5 does not heal: the
document has two timelines, the older of which ends in a deletion (`OneOpenTimeline`).

`OneOpenTimeline` and `EventsSuffice` hold for a user who overwrites no file by a rename
and leaves a path alone for `Pace` ticks after touching it, longer than debounce and grace.
Both fail for a faster one: whoever replaces a note by another within two seconds
gets one row for both, by design (an atomic save looks the same), and the stale
entry of number 4 does the rest.

## What is proved

All theorems hold for every value of the constants that satisfies the named
assumptions (`QueueAssumption`, `HistoryAssumption`, `VaultAssumption`, ...), not only for those
of the runs. These say that bounds are natural numbers, that paths and requests are
finite sets, that "nothing" is none of the values it stands beside, and, where the
code has such a minimum, that there is a slot, a backup to retain, or a second log
file; `Restore` starts with two rows and two texts. Every inductive invariant below was
checked by TLC on an instance of its module
before it was proved. `PROJECT.json` lists the theorems with the property each states.

`CaptureQueueProofs`. The inductive invariant is
`QueueInv == QueueTypeOK /\ SlotInv /\ DeadlineKept /\ NoEventForgotten`. `SlotInv` adds to
the three properties of the slots what they rest on: a task is parked only behind a
run in flight, and outside of a drain a ready task means that no slot is free. With
the first alone `NoEventForgotten` is not inductive, since `Finish` moves a parked
task only because its key is running. `QueueInvariant` proves it; `TypeCorrect`,
`MutualExclusion`, `SlotsAlwaysUsed`, `EventsKept` and `DeadlinesKept` are its parts.
`FlushIsComplete` uses it for the step in which `flush()` returns, and
`QueueImplementsFileWork` for the refinement: `Init` maps to `Init`, every action to an
action of `FileWork` or a stutter, because `execs` and `running` agree.

`HistoryProofs`. `HistoryInv` joins `HistoryTypeOK`, `OnePerPath` and `TombstoneOnTop` with what
the call on the stack still owes: that the row it is about is in the state its
lookup found (`CallKeeps`), that a row without a status has no versions, and that,
without a failure, all other rows agree with their timelines. `HistoryInvariant`
proves it, `IndexNeverBroken`, `TombstonesStayOnTop` and `ConsistentWithoutFailure` read
off the properties, and `CaptureKeepsHistory` proves the refinement to `FileHistory`.

`TrackingProofs`, about `Tracking`. A held deletion names a row that has a version, in every
state, only because rows do not get lost; that is `RowsOnce`: a row is active at one
path, or has one place among the deleted rows of one path, or is nowhere, and what is
somewhere has a version. Every way of recording a path keeps it (`RecordKnownKeeps`,
`RecordReturnedKeeps`, `RecordNewKeeps`, `RecordClaimedKeeps`), and so does phase 3 of the
reconciliation, which buries several rows at once (`BuryAllKeeps`). `TrackingInvariant`
and `TrackingTypeCorrect` follow.

`TrackingProofs`, about `Renames`, goes up in three steps.

* `SlowUser` (`Debounce < Pace` and `DeleteGrace < Pace`): a path goes from an event to a
  timer to a task while the user leaves it alone (`Stages`), so what an event said is
  still so when it is acted upon. What is held belongs to the deletion being decided at
  its path, its row has not changed, and the time left to it is longer than what the
  delete task needs (`HeldInTime`). That gives `HeldAreDecided`, for any debounce, grace and
  window but a debounce and a window that are both nothing.
* Nothing more for `EventsAreEnough`: a path settles only by a task that ends, and the task
  recorded what is there (`Agreed`), for any three delays. A lost rename is still a
  correct store.
* `0 < Debounce`: the open row last recorded from a file on disk (`Open`: its newest version
  is not a deletion) is at its path or, while the document is `Moving`, at the path it comes
  from, where the deletion is still to be noticed or is held until it is decided (`Located`).
  When the capture of the new path runs, it therefore finds the row (`RowIsFound`) or the row
  has been closed, and in neither case are two open: `OpenTimelinesAreOne` proves
  `OneOpenTimeline`, for a debounce shorter than the grace, equal to it, as it is by
  default, or longer.

`SlowUser` is about the user and not the code; the debounce is a setting of 1 s at least.
That a rename never ends a timeline (`OneTimeline`) is false for the settings of the code,
see "Where the code and its documents part", and is not proved under narrower ones.

`RestoreProofs` starts where `Tracking` does not: a call adds documents that no user wrote
(`Bytes`), the deleted rows of a path change places when one of them gets a version, and
between the reopening of a row and its version the row is active although its newest
version is a deletion (`Raised`). So a row is `Placed`, active at one path or deleted at
one, with the deleted rows as a set, and every way to move a row is shown to keep that,
the ones of a call included (`CaptureSteps`, `DisplaceSteps`, `ActivateSteps`, `RefusedSteps`).
`CallOK` says what a call knows at each of its awaits, and since timelines only grow
(`KeepGrows`), what it recorded is still there when it writes: `RestoresAreUndoable`.
`ReconciliationsMend` needs two facts more. A raised row exists only while a call is about to
record a version for it (`RaisedOK`), otherwise phase 3 would spare the row of a file that
is gone. And a reconciliation that nothing disturbed has listed what there is, and every path
it has passed agrees with the store or is `Disguised` (`CalmOK`): the row has the size and
the mtime of the file, so that it is not read again. Its hypothesis is that reads succeed,
as in the run: a scan that fails buries the row of a file that is there, which `Tracking`
has, and the next reconciliation brings it back. `RestoreInvariant` joins all of this.

`LifecycleProofs`. `OneWatcher` is kept by facts about calls that do not show in it: until two calls
or restarts have `crossed`, at most one stop is under way, and when it closes the
watcher its queue is empty and no restart is left (`OneStop`); a watcher, an armed
timer and the close that precedes one exclude one another, and nothing is left of
earlier sessions (`OneRestart`); before a folder was opened nothing runs (`Unopened`);
what the state says is raised (`Shown`); captures are dropped only while
that is raised (`SpaceIsShown`); while it is paused nothing that records is
under way (`Resting`). `LifecycleInvariant` proves all of it together with the types;
`SingleWatcher`, `QuittingDrains` and `IssuesFollow` read it off, and `PausingHolds` is
the step property that `Resting` gives.

`StorageProofs`. Each copy of the database, on disk, at rest or in a backup, is
`WellFormed`: its index has a gap only if it knows so. Until a replacement is cut short,
no valid backup has more than a younger one, nor than a valid database on disk
(`Ordered`); this is why the newest valid one is the best one. Of the rebuilds in flight
the one that began last covers what it has passed (`Rebuilt`). `GapsShown`
and `HistoryIsKept` follow.

`RendererProofs`. The window shows what is selected because the latest call of each kind
is for what is selected, or was answered: `HeaderDue`, `TimelineDue`, `ContentDue`,
`DiffDue`, `ListDue`, as long as answers come in the order of the calls and none is an
error (`InTurn`). `Told` says that a dialog that offers to overwrite something knows of a
conflict that main reported. `RendererInvariant` joins them with the types;
`WindowShowsSelection`, `SpinnersEnd` and `ForcedOnConflictOnly` read them off.

`ApplicationProofs`, about `Log`. `LogContents` is a concatenation that `FlattenSeq` defines by
recursion, so the
first part shows what it is, by the least index at which that could fail. The
invariant speaks of the files: they cut what landed into consecutive pieces (`Pieces`),
rotated files are full, older files have older lines, and there is no gap among them
but the one a rotation is filling. The attempt to prove `LogKept` as it was first stated
showed it wrong for four or more files (the code has five): after a crash between two
renames (logger.ts:73-77) there are two gaps, the next rotation closes the lower one
only, and drops the oldest file while another one is empty. `LogKept` now excepts a
rotation that was cut short (`torn`) from the clause about full files, and the run has
four files, the fewest with which TLC finds the case.

The rest of `ApplicationProofs` is `DiffTypeCorrect`, and `PartsImplemented`: a behavior of
`Application` is one of
each of its six parts, so that all theorems about them hold of the whole;
`ApplicationTypeCorrect` is stated of it. `RestoreWindow` has the same form; what is proved
of `Restore` and of `Renderer` is proved of each by itself.

Only model-checked: liveness (`EventuallyServed`, `FlushTerminates`, `Converges`,
`EventuallyRecorded`, `BufferReleased`, `CallsReturn`, `WatcherComesBack`, `DiffsEnd`), which
the proof system does not reach.

## What is left out, and why

* Files too large, which fail to be read for good, ignored paths, and the list of skipped
  files. Reads that fail for a while are in `Tracking`, not in `Restore` and `Renames`.
* An edit between the moment a restore reads the file and the moment it writes: it is
  overwritten, and `Undoable` leaves it out.
* A restore whose stored bytes fail their verification, a missing parent directory, and
  two restores at once in `Restore` (the window can ask for two recoveries, and
  `Renderer` has them).
* Two writes with the same mtime: `Vault` gives every write its own. A text that a restore
  recorded with the mtime of a later write is in `Restore`, sizes included.
* `vault:startTracking`, which no component calls; the progress of the first index; the
  growing delay between restarts of the watcher; the note beside a backup, which
  only orders the list; a backup before a migration, since there is one schema
  version; levels and scopes of the log.
* In the window: settings, storage usage, status and health, which a call replaces as a
  whole, the text filter of the list, virtual lists and layout.
* Hashing, compression, the diff, the query language, string work on paths, windows,
  tray and menus, wording: data and wiring that the properties do not tell apart.

## Plan

1. Done: queue, tables, tracking, renames, restore, with the theorems above.
2. Done: `Lifecycle`, `Storage`, `DiffWorker`, `Log`, composed in `Application`, and `Renderer`.
3. Done: reads and listings that fail in `Tracking`.
4. Done: theorems about every module with a specification of its own.
5. Next: what the violated properties promise under the conditions that make them true, as
   theorems: `SettledRowsStay` for a user slow enough, `ReplacedIsKept` for a path whose row
   has seen the bytes, `StopsAreShown` for an index that does not throw and a folder that stays.
