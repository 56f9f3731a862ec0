\* One server that may crash at every step and whose system calls may fail.
SPECIFICATION Spec
CONSTANTS
    Paths = {c1}
    Procs = {p1}
    NoPath = NoPath
    Faults = {"io", "crash", "crypto"}
    DB_VERSION = 1
    OTHER_VERSION = 0
    Data = {d1, d2}
    Nonces = {n1, n2}
    PrivateKeys = {k1, k2}
    None = None
    Legacy = {}
    Ops = {"create", "add", "getBlock", "getBlocks", "verify", "header", "info", "remove"}
    MaxBlocks = 3
    MaxCreates = 2
SYMMETRY Symmetry
INVARIANTS ChainsVerify
