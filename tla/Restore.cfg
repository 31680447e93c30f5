\* Two paths and three rows, so that a copy may be recovered beside a file that came
\* back; two of the three texts have one size. One operation of the user, which can
\* fall on any await of the call. Four clicks in the window: enough to ask for a
\* restore, confirm it, close the dialog and open it again.
SPECIFICATION BothSpec
CONSTANTS
    Paths = {p1, p2}
    Texts = {t1, t2, t3}
    Alike = {t1, t2}
    None = None
    MaxFiles = 3
    MaxEdits = 3
    MaxFailures = 0
    MaxJobs = 1
    FileIds = {f1, f2}
    Deleted = {f2}
    Nothing = Nothing
    MaxCaptures = 1
    MaxClicks = 4
    MaxCalls = 2
    MaxRefusals = 1
INVARIANTS BothTypeOK ShowsSelection NothingSpins ForcedAfterConflict
PROPERTIES Undoable SweepMends
\* Neither end owes anybody a step: a folder and a window may come to rest.
CHECK_DEADLOCK FALSE
