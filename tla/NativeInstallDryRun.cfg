\* An update with --dry-run.
CONSTANTS
    Proc = {i1, i2}
    Gen = {bridge, hook}
    UserHook = {h}
    Project = {p, q}
    User = User
    Torn = Torn
    None = None
    Overlap = FALSE
SPECIFICATION Spec
SYMMETRY Symmetry
CHECK_DEADLOCK FALSE
PROPERTY
    DryRunWritesNothing
