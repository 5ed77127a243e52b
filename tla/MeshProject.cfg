\* Two processes run the project operations of each mix, and search, transfer, import an old database, read Aider's histories and change the key.
CONSTANTS
    e1 = e1
    e2 = e2
    e3 = e3
    c1 = c1
    c2 = c2
    w1 = w1
    w2 = w2
    b1 = b1
    b2 = b2
    l1 = l1
    l2 = l2
    all = all
    p1 = p1
    p2 = p2
    Empty = Empty
    Mixed = Mixed
    Label = {l1, l2, all}
    Path = {p1, p2}
    RowsOf <- MCRowsOf
    PathOf <- MCPathOf
    BackendOf <- MCBackendOf
    LegacyRows <- MCLegacyRows
    None = None
    Worker = {w1, w2}
    Entry = {e1, e2, e3}
    Conv = {c1, c2}
    ConvOf <- MCConvOf
    Mixes <- MCMixes
    Backend = {b1, b2}
    Scopes = {"project", "facade", "mesh role"}
    Provided = {e1, e2}
    Spoken = {e2, e3}
    Owned = {e1, e2}
    Queries <- MCQueries
    Threshold = 1
    Limit = 1
    MaxLines = 4
    f1 = f1
    f2 = f2
    KeyFile = {f1, f2}
    NewestKey = 3
SPECIFICATION MeshSpec
INVARIANTS
    MeshTypeOK
    ReturnsWhole
    SummaryKeeps
    CatalogKeeps
    FullRecall
    TransferWhole
    InboxAgrees
    LegacyExact
    TurnsStay
    KeyAtHand
    BackupsWhole
