SPECIFICATION Spec
CONSTANTS
    TERMINAL_COUNT = 2
    Request = {0, 1, 2, 3, 64, 1024, 4096, 32768, 65536, 65538}
INVARIANT RateAsAsked
