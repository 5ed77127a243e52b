\* Three commands one after the other, each of which may fail or be killed, and
\* fail again while it is undone, with user edits in between.
CONSTANTS
    Proc = {i1, i2, i3}
    Gen = {bridge, hook}
    UserHook = {h}
    Project = {p, q}
    User = User
    Torn = Torn
    None = None
    Overlap = FALSE
SPECIFICATION Spec
SYMMETRY Symmetry
CONSTRAINT NamedBound
CHECK_DEADLOCK FALSE
INVARIANTS
    TypeOK
    NoOrphans
    
PROPERTIES
    
    FailureUndone
    CommandsAtomic
