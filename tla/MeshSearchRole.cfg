\* Searches of one project for the messages in one role: full recall is VIOLATED.
CONSTANTS
    e1 = e1
    e2 = e2
    e3 = e3
    c1 = c1
    c2 = c2
    w1 = w1
    w2 = w2
    None = None
    Worker = {w1, w2}
    Entry = {e1, e2, e3}
    Conv = {c1, c2}
    ConvOf <- MCConvOf
    Mixes <- MCMixes
    Backend = {b1, b2}
    Scopes = {"role"}
    Provided = {e1, e2}
    Spoken = {e2, e3}
    Owned = {e1, e2}
    Queries <- MCQueries
    Threshold = 1
    Limit = 1
SPECIFICATION SearchSpec
INVARIANT FullRecall
