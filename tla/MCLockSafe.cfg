SPECIFICATION Spec
CONSTANTS
    Threads = {t1, t2}
    Nonces = {t1, t2}
    Keys = {k1, k2}
    None = None
    NonceOf <- DistinctNonces
    Timeout = 1
    MaxDepth = 3
    Faults = {"add", "verify", "relget", "crash"}
INVARIANTS TypeOK MutualExclusion HeldIsStored
PROPERTY ImplementsReentrantLock
