SPECIFICATION RestoreSpec
CONSTANTS
    Paths = {p1, p2}
    Texts = {t1, t2, t3}
    Alike = {t1, t2}
    None = None
    MaxFiles = 3
    MaxEdits = 3
    MaxFailures = 0
    MaxJobs = 1
CHECK_DEADLOCK FALSE
PROPERTY ReplacedIsKept
