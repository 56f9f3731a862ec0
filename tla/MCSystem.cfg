\* Two users of a daemon that may die and be started once more.
SPECIFICATION SystemSpec
CONSTANTS
    a = a
    b = b
    w = w
    Clients = {a, b}
    Statuses = {"SUCCESS", "ERROR", "DATA_ERROR", "NOT_SUPPORTED", "NOT_AUTHORIZED"}
    Null = Null
    HandlerResults = {"SUCCESS", "ERROR", "DATA_ERROR", "NOT_SUPPORTED", "NOT_AUTHORIZED", Null}
    SendErrors = FALSE
    Patient = {}
    MaxCalls = 2
    MaxLaunches = 2
    None = None
    Malformed = Malformed
    PASSWORD_SALT = "EMPTY_SALT/"
    HashFails = FALSE
    SIZE = 32
    Server = Server
    Script <- MCScript
    Passwords = {w}
    Password = w
    Length <- MCLength
    MAX_DATA_LENGTH = 8192
    Paths = {1}
    NoPath = NoPath
    Faults = {"crash", "serialize"}
    DB_VERSION = 1
    OTHER_VERSION = 0
    Nonces = {n1}
    PrivateKeys = {k1}
    Ops = {"create", "add", "getBlocks", "remove"}
    MaxBlocks = 2
    MaxCreates = 1
INVARIANTS AddedOnce ToldTrue InRealTime ReadsCurrent
CHECK_DEADLOCK FALSE
