SPECIFICATION Spec
CONSTANTS
    Procs = {p1, p2}
    BaseProps = {ups}
    DataProps = {num_comments, flag}
    IncrProps = {ups, num_comments}
    Default <- Zero
    Values = {0, 1}
    Amounts <- UpDown
    Unset = Unset
    None = None
    MaxCalls = 4
    MaxHarm = 0
    Faults = {"rollback", "timeout", "crash", "orphan", "quiet"}
CHECK_DEADLOCK FALSE
INVARIANTS TypeOK CacheCoherent CountersExact
