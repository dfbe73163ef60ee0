SPECIFICATION Spec
CONSTANTS
    Sessions = {s1, s2, s3}
    Tabs = {t1, t2}
    MaxAttempts = 4
    None = None
SYMMETRY Symmetry
INVARIANTS SetExportTypeOK OneOpenCreation RecoveryIsTheClaims
PROPERTY OneShotSpec
