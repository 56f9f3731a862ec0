\* Two servers on one storage directory, where a chain of another build may be
\* found, with crashes and failing system calls.
SPECIFICATION FairSpec
CONSTANTS
    Paths = {c1}
    Procs = {p1, p2}
    NoPath = NoPath
    Faults = {"io", "crash"}
    DB_VERSION = 1
    OTHER_VERSION = 0
    Data = {d1}
    Nonces = {n1, n2}
    PrivateKeys = {k1}
    None = None
    Legacy = {c1}
    Ops = {"create", "add", "remove"}
    MaxBlocks = 2
    MaxCreates = 2
INVARIANTS Contiguous AckedDurable
PROPERTIES AppendOnly LedgerSpec EveryCallReturns
