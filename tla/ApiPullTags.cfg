\* Pulls of JSON bodies at two URLs overlap, with ETags; any of them may break off or be killed.
CONSTANTS
    Puller = {p1, p2}
    Url = {u, w}
    Provider = {a}
    Entry = {e1, e2}
    Validator = {"etag"}
    Lines = FALSE
    MaxNow = 2
    None = None
SPECIFICATION Spec
SYMMETRY Symmetry
INVARIANTS
    NothingMissed
