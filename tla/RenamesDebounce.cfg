\* A debounce longer than the grace, which is the default of neither but a
\* setting the user may choose; at the default the two are equal.
SPECIFICATION TimedSpec
CONSTANTS
    Paths = {p1, p2}
    Texts = {t1, t2}
    Alike = {t1, t2}
    None = None
    MaxFiles = 3
    MaxEdits = 3
    MaxFailures = 0
    Debounce = 3
    DeleteGrace = 2
    ClaimWindow = 2
    Pace = 4
    MaxRush = 0
INVARIANT OneTimeline
