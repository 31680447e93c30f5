\* One backup to retain, and a second one made after the database was damaged.
SPECIFICATION StorageSpec
CONSTANTS
    Retain = 1
    Rebuilds = {1}
    MaxVersions = 1
    MaxBackups = 2
    MaxFaults = 1
PROPERTY ValidBackupsKept
\* The app may stay in safe mode or wait for nothing.
CHECK_DEADLOCK FALSE
