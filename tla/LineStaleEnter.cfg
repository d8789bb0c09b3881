SPECIFICATION Spec
CONSTANTS
    TERMINAL_COUNT = 2
    BUF_SIZE = 4
PROPERTY EmptyOnlyAfterEnter
