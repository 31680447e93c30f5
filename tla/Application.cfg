\* Two slots for three files: a file can wait, be in flight and be ready twice,
\* and one always waits for the others. Two rows of files over two paths and two
\* texts, and one call that is cut short. Two sessions and three handles: a vault is
\* left for another while a restart of the first one's watcher is under way. One
\* backup is retained and two are there while one is pruned. Three diffs over three
\* threads, two of which fail. A log of four files that have one line each. What
\* these bounds leave out, the proofs cover for the safety properties.
SPECIFICATION ApplicationSpec
CONSTANTS
    Keys = {f1, f2, f3}
    Debounces = {2}
    DeleteGrace = 1
    MaxInterval = 2
    Concurrency = 2
    MaxBacklog = 2
    Files = {f1, f2}
    Paths = {p1, p2}
    Contents = {c1, c2}
    MaxTimeline = 4
    MaxCuts = 1
    MaxSessions = 2
    MaxHandles = 3
    MaxEvents = 3
    Retain = 1
    Rebuilds = {1, 2}
    MaxVersions = 2
    MaxBackups = 2
    MaxFaults = 1
    Requests = {q1, q2, q3}
    MaxThreads = 3
    MaxFailures = 2
    MaxFiles = 4
    MaxFileLines = 1
    MaxLines = 6
    MaxLogFaults = 1
INVARIANTS
    ApplicationTypeOK
    OneAtATime SlotsUsed NoEventForgotten DeadlineKept
    OnePerPath TombstoneOnTop ConsistentUnlessCutShort
    OneWatcher QuitDrains IssuesFollowState
    GapsAreShown
    LogKept
PROPERTIES
    FlushComplete ImplementsFileWork EventuallyServed FlushTerminates
    ImplementsFileHistory
    PauseHolds EventuallyRecorded BufferReleased CallsReturn WatcherComesBack
    StartsFromHistory
    DiffsEnd
\* A file, a rebuild, a diff or a vault is awaited by nobody: each part
\* may come to rest.
CHECK_DEADLOCK FALSE
