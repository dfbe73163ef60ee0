SPECIFICATION Spec
CONSTANTS
    Songs = {a, b}
    Named = {a}
    Turns = {t1}
    Restores = {r1}
    MaxRows = 6
    MaxSlots = 4
    MaxEdits = 3
    None = None
CHECK_DEADLOCK FALSE
INVARIANTS SetDocumentTypeOK SerialPositionsUnique SerialSlotsResolve
PROPERTY LockedSlotsStay
