\* Two paths and two texts. Without a clock: three operations of the user, the
\* note of the first index included, and a read that fails. With a clock: five,
\* at the default setting, where the debounce is as long as the grace.
SPECIFICATION FollowSpec
CONSTANTS
    Paths = {p1, p2}
    Texts = {t1, t2}
    Alike = {t1, t2}
    None = None
    MaxFiles = 4
    MaxEdits = 5
    MaxFailures = 1
    Debounce = 2
    DeleteGrace = 2
    ClaimWindow = 2
    Pace = 3
    MaxRush = 3
INVARIANTS TypeOK OneOpenTimeline AlwaysDecided EventsSuffice
PROPERTY Converges
\* A user who rests for ever leaves nothing to do.
CHECK_DEADLOCK FALSE
