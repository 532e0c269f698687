SPECIFICATION Spec
CONSTANTS
    Procs = {p1, p2}
    BaseProps = {ups}
    DataProps = {num_comments}
    IncrProps = {ups, num_comments}
    Default <- Zero
    Values = {0, 1}
    Amounts = {1}
    Unset = Unset
    None = None
    MaxCalls = 3
    MaxHarm = 2
    Faults = {"rollback", "timeout", "crash", "orphan", "evict", "expire", "addfail", "cachefail", "incrcommit", "windowcrash", "create"}
CHECK_DEADLOCK FALSE
INVARIANTS BaseCountersExact CoherentAfresh
SYMMETRY Alike
