SPECIFICATION Spec
CONSTANTS
    NAME_SIZE = 3
    BLOCK = 3
    num_of_dirE = 4
    dir_entries <- Directory
    inode_arr <- Inodes
    data_arr <- Blocks
    CMD_MAX_LEN = 3
    MAX_KBUFF_LEN = 6
    Grep <- GrepName
    Magic <- FirstBytes
    Exit <- ExitName
INVARIANT NamedOrExecutable
