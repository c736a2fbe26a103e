\* The claim on retried payloads, with one request at a time.
CONSTANTS
    Project = {p1}
    Key = {1, 2, 3}
    Command <- RunCommands
    Base = {0}
    Accepts <- Decides
    None = None
    Node = {n1, n2}
    GoalsOf <- MCGoalsOf
    RunId = {11}
    Result = {21}
    Handler = {h1}
CONSTRAINT ShortLog
SPECIFICATION RunSpec
INVARIANTS
    RetriesKeepTheirKey
CHECK_DEADLOCK FALSE
