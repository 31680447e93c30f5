\* One vault, whose initial index may fail.
SPECIFICATION LifecycleSpec
CONSTANTS
    MaxSessions = 1
    MaxHandles = 1
    MaxEvents = 2
INVARIANT StopsAreShown
\* The app may come to rest.
CHECK_DEADLOCK FALSE
