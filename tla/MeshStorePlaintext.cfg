\* A store that was open before `encryption enable` keeps writing.
CONSTANTS
    Client = {c1}
    Admin = {a1}
    Content = {x}
    Stamp = {t1}
    SourceKey = {s1}
    Key = {k1, k2}
    Slot = {}
    Plain = Plain
    None = None
    MaxRows = 2
    Exclusive = FALSE
SPECIFICATION Spec
SYMMETRY Symmetry
INVARIANT
    NoPlaintextOnceEnabled
