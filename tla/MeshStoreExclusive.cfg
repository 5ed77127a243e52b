\* No store is open while a lifecycle command runs.
CONSTANTS
    Client = {c1, c2}
    Admin = {a1, a2}
    Content = {x, y}
    Stamp = {t1}
    SourceKey = {s1}
    Key = {k1, k2}
    Slot = {conv}
    Plain = Plain
    None = None
    MaxRows = 3
    Exclusive = TRUE
SPECIFICATION Spec
SYMMETRY Symmetry
INVARIANTS
    Readable
    AckedDurable
    LifecycleDurable
    NeverSpoiled
PROPERTY
    BookSpec
