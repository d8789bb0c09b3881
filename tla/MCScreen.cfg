SPECIFICATION ScreenSpec
CONSTANTS
    TERMINAL_COUNT = 2
    BUF_SIZE = 4
    NUM_ROWS = 2
    NUM_COLS = 2
    Written <- Texts
CONSTRAINT Bound
INVARIANTS
    ScreenTypeOK
    EchoMatchesLine
PROPERTY RefinesDisplays
