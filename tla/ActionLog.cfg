CONSTANTS
    Workers = {w1, w2}
    MaxEntries = 7
    MaxBytes = 3
    BackupCount = 2
    NoFile = NoFile
SPECIFICATION Spec
SYMMETRY Symmetry
INVARIANTS
    KeptWhileRecent
    UndisturbedLogIsExact
CHECK_DEADLOCK FALSE
