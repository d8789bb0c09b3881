SPECIFICATION Spec
CONSTANTS
    PROCESS_COUNT = 6
    TERMINAL_COUNT = 3
    MAX_PROC_PER_TERM = 3
INVARIANT HiddenResumable
