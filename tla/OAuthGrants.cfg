\* One consent and two requests at a time, over both stores: long enough for
\* a token to be rotated twice, to be sent again, and to run out.
CONSTANTS
    Session = {s1, s2}
    ContextOf <- MCContextOf
    Consent = {c1}
    Family = {f1, f2}
    Worker = {w1, w2}
    ConsentTtl = 1
    CodeTtl = 1
    RefreshTtl = 3
    AccessTtl = 2
    MaximumRecords = 1
    MaxGeneration = 2
    MaxTime = 4
    None = None
SPECIFICATION Spec
INVARIANTS
    ConsentBoundsAuthority
PROPERTIES
    ReplayEndsFamily
SYMMETRY MCSymmetry
CHECK_DEADLOCK FALSE
