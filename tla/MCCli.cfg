\* An int has 4 bits and a size_t 5: -1 is the chain 31, and 9 is out of range.
SPECIFICATION MainSpec
CONSTANTS
    HandlerMap <- CliHandlers
    Defaults <- CliDefaults
    Words <- MCWords
    NaN = NaN
    INT_MAX = 7
    MaxWords = 5
    None = None
    Malformed = Malformed
    Garbage = Garbage
    PASSWORD_SALT = "EMPTY_SALT/"
    HashFails = TRUE
    SIZE = 32
INVARIANTS ParsedExactly SentAsAsked ExitCodeTells
CHECK_DEADLOCK FALSE
