\* Three processes open one file at once, or two and a status reader; each ends for good.
CONSTANTS
    m1 = m1
    m2 = m2
    m3 = m3
    r1 = r1
    Migrator = {m1, m2, m3}
    Reader = {r1}
    Casts <- MCCasts
    Latest = 4
    TermsAt = 2
    AuxAt = 3
    MaxRows = 2
    None = None
SPECIFICATION Spec
CHECK_DEADLOCK FALSE
INVARIANTS
    TypeOK
    UpgradeBackedUp
    IndexComplete
PROPERTIES
    ForeignUntouched
    StatusAgrees
    Opens
