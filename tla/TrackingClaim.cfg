SPECIFICATION Spec
CONSTANTS
    Paths = {p1, p2}
    Texts = {t1, t2}
    Alike = {t1, t2}
    None = None
    MaxFiles = 3
    MaxEdits = 4
    MaxFailures = 0
PROPERTY SettledRowsStay
CHECK_DEADLOCK FALSE
