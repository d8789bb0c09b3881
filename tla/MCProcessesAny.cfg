SPECIFICATION Spec
CONSTANTS
    PROCESS_COUNT = 3
    TERMINAL_COUNT = 3
    MAX_PROC_PER_TERM = 1
CONSTRAINT CountBound
INVARIANTS
    TypeOK
    ForegroundExists
    RelaunchNeverRefused
