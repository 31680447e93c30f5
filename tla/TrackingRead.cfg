\* The user does nothing, and the one file there is cannot be read once.
SPECIFICATION Spec
CONSTANTS
    Paths = {p1, p2}
    Texts = {t1, t2}
    Alike = {t1, t2}
    None = None
    MaxFiles = 3
    MaxEdits = 1
    MaxFailures = 1
PROPERTY ReadFailureIsNoDeletion
CHECK_DEADLOCK FALSE
