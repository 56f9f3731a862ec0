\* Two servers that add to one chain, nothing fails and nothing is removed.
SPECIFICATION Spec
CONSTANTS
    Paths = {c1}
    Procs = {p1, p2}
    NoPath = NoPath
    Faults = {}
    DB_VERSION = 1
    OTHER_VERSION = 0
    Data = {d1}
    Nonces = {n1}
    PrivateKeys = {k1}
    None = None
    Legacy = {}
    Ops = {"create", "add", "verify"}
    MaxBlocks = 2
    MaxCreates = 1
INVARIANTS ChainsVerify
