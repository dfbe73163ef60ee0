SPECIFICATION Spec
CONSTANTS
    Devices = {d1}
    Emails = {e1, e2}
    Transactions = {t1, t2}
    MaxGuests = 3
    MaxRotations = 1
    MaxOps = 4
    LockRetries = 3
    None = None
CHECK_DEADLOCK FALSE
SYMMETRY Symmetry
INVARIANTS NoLockCycle
