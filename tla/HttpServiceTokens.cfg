\* Processes start, stop and serve on one port while tokens change under requests.
CONSTANTS
    t1 = t1
    t2 = t2
    s = s
    o = o
    a1 = a1
    a2 = a2
    r1 = r1
    k1 = k1
    k2 = k2
    k3 = k3
    Tui = {t1, t2}
    Serve = {s, o}
    Other = Other
    Free = Free
    Probes = 2
    Token = {k1, k2, k3}
    Admin = {a1, a2}
    Request = {r1}
    Right <- MCRight
    Grants <- MCGrants
    None = None
    AuthOff = {o}
    Casts <- MCCasts
SPECIFICATION Spec
CHECK_DEADLOCK FALSE
INVARIANTS
    TypeOK
    Served
    OnlyTheEntitled
    SecretSurvives
PROPERTIES
    Settles
