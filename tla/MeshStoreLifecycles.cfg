\* A long-lived store and two lifecycle processes overlap freely.
CONSTANTS
    Client = {c1}
    Admin = {a1, a2}
    Content = {x}
    Stamp = {t1}
    SourceKey = {s1}
    Key = {k1, k2}
    Slot = {}
    Plain = Plain
    None = None
    MaxRows = 2
    Exclusive = FALSE
SPECIFICATION Spec
SYMMETRY Symmetry
VIEW WithoutBook
INVARIANTS
    ScrubHonest
    FacadeUniquePerMode
    SourceKeyUnique
PROPERTY
    NeverDisabled
