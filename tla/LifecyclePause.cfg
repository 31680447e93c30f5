\* One vault, paused while its initial index is under way, and one change of a note.
SPECIFICATION LifecycleSpec
CONSTANTS
    MaxSessions = 1
    MaxHandles = 1
    MaxEvents = 2
PROPERTY PausedRecordsNothing
\* The app may come to rest.
CHECK_DEADLOCK FALSE
