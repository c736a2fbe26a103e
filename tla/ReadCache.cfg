\* Two requests at a time, of every kind: catalogs, grants, anchors of two
\* Nodes in a cache of one, full Projects, and overlapping sets of files.
CONSTANTS
    Installation = {i1}
    Repository = {s1}
    Node = {n1, n2}
    InstallationOf <- OneInstallation
    Reader = {r1, r2}
    Menus <- OneKindAtATime
    ContentAt <- Growing
    MaxVersion = 1
    MaxInvalidations = 1
    MaxSafeInteger = 3
    MaxAnchors = 1
    None = None
    Snapshot = {h1, h2}
    Path = {"a", "b"}
    Present <- AllButOne
    Asker = {r1, r2}
    NoFetch = None
SPECIFICATION MCSpec
INVARIANTS
    CacheFollowsInvalidation
    OneLoadPerGeneration
    MissingOnlyWhenCleared
PROPERTIES
    ReadsFollowInvalidation
    CachesBecomeCurrent
