SPECIFICATION OrderlySpec
CONSTANTS
    PROCESS_COUNT = 5
    TERMINAL_COUNT = 3
    MAX_PROC_PER_TERM = 2
INVARIANTS
    CpuRunsForeground
    HiddenResumable
    OneChainPerTerminal
    CountsProcesses
    ReturnsToParent
PROPERTIES
    OnlySelfHalts
    RefinesSessions
