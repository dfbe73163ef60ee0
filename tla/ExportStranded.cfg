SPECIFICATION Spec
CONSTANTS
    Sessions = {s1}
    Tabs = {t1}
    MaxAttempts = 1
    None = None
INVARIANT ClaimIsOwned
