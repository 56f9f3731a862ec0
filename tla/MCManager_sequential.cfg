\* One server, nothing fails: a chain of this build and one another build left.
SPECIFICATION Spec
CONSTANTS
    Paths = {c1, c2}
    Procs = {p1}
    NoPath = NoPath
    Faults = {}
    DB_VERSION = 1
    OTHER_VERSION = 0
    Data = {d1, d2}
    Nonces = {n1}
    PrivateKeys = {k1, k2}
    None = None
    Legacy = {c2}
    Ops = {"create", "add", "getBlock", "getBlocks", "verify", "header", "info", "remove"}
    MaxBlocks = 2
    MaxCreates = 2
INVARIANTS TypeOK
PROPERTIES RepliesExact
