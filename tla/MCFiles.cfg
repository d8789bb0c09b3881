SPECIFICATION FilesSpec
CONSTANTS
    PROCESS_COUNT = 2
    TERMINAL_COUNT = 2
    MAX_PROC_PER_TERM = 1
    FD_MAX = 4
    NAME_SIZE = 3
    BLOCK = 3
    num_of_dirE = 4
    dir_entries <- Directory
    inode_arr <- Inodes
    data_arr <- Blocks
    Name <- Names
    Chunk = {2, 3}
    CMD_MAX_LEN = 3
    MAX_KBUFF_LEN = 6
    Grep <- GrepName
    Magic <- FirstBytes
    Exit <- ExitName
INVARIANTS
    FilesTypeOK
    FreeSlotsClosed
    PositionWithinFile
    EndOnlyAtEnd
    ListsEachOnce
    SysErrPasses
    MovesMemory
    PrintsNumbers
    CopiesExactly
    FindsExactName
    ProgramsShowFiles
    ShellTellsOutcome
    GrepFindsEveryLine
    TakenApartAsTyped
    ArgumentComesBack
PROPERTIES
    OnlyOwnDescriptors
