\* One server with a password, messages with one request or with a removal besides,
\* every failure but that of a serialization.
SPECIFICATION HandlerFairSpec
CONSTANTS
    Paths = {c1}
    Procs = {p1}
    NoPath = NoPath
    Faults = {"io", "crash", "crypto"}
    DB_VERSION = 1
    OTHER_VERSION = 0
    atLimit = atLimit
    aboveLimit = aboveLimit
    Data <- MCData
    Nonces = {n1}
    PrivateKeys = {k1}
    None = None
    Legacy = {}
    Ops = {"create", "add", "getBlock", "getBlocks", "verify", "header", "info", "remove"}
    MaxBlocks = 2
    MaxCreates = 1
    Passwords = {w1, w2}
    Password = w1
    PASSWORD_SALT = "EMPTY_SALT/"
    Malformed = Malformed
    Null = Null
    Length <- MCLength
    MAX_DATA_LENGTH = 8192
    Companions = {"remove"}
INVARIANTS HandlerTypeOK Guarded StoredFits Truthful
PROPERTIES MessagesAnswered
