\* A call cut short between two statements leaves a row that disagrees with
\* its timeline.
SPECIFICATION HistorySpec
CONSTANTS
    Files = {f1, f2}
    Paths = {p1, p2}
    Contents = {c1, c2}
    MaxTimeline = 4
    MaxCuts = 1
INVARIANT AllOrNothing
