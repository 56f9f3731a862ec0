\* An int has 4 bits here: the numbers -8, 7 and 8 are at its limits.
SPECIFICATION ParseSpec
CONSTANTS
    HandlerMap <- DaemonHandlers
    Defaults <- DaemonDefaults
    Words <- MCWords
    NaN = NaN
    INT_MAX = 7
    MaxWords = 2
INVARIANTS InvalidIntegersRefused
CHECK_DEADLOCK FALSE
