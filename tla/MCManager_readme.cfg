\* Two servers on one storage directory, nothing fails.
SPECIFICATION Spec
CONSTANTS
    Paths = {c1}
    Procs = {p1, p2}
    NoPath = NoPath
    Faults = {}
    DB_VERSION = 1
    OTHER_VERSION = 0
    Data = {d1}
    Nonces = {n1}
    PrivateKeys = {k1, k2}
    None = None
    Legacy = {}
    Ops = {"create", "add", "getBlock", "getBlocks", "verify", "header", "info", "remove"}
    MaxBlocks = 2
    MaxCreates = 2
INVARIANTS SignedWithChainKey
