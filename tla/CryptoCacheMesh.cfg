\* Requests of all kinds, init() among them, on three threads.
SPECIFICATION Spec
CONSTANTS
    Thread = {t1, t2, t3}
    Key = key
    None = none
SYMMETRY Threads
INVARIANTS
    ContentSealed
    TermsKeyed
