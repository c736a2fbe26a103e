\* Two Nodes, one tab, one Run, one result, two requests at a time.
CONSTANTS
    Project = {p1}
    Key = {1, 2, 3}
    Command <- RunCommands
    Base = {0}
    Accepts <- Decides
    None = None
    Node = {n1, n2}
    GoalsOf <- MCGoalsOf
    RunId = {11}
    Result = {21}
    Handler = {h1, h2}
CONSTRAINT ShortLog
SYMMETRY Symmetry
SPECIFICATION RunSpec
INVARIANTS
    ConflictsAreTrue
    KeysNameOneCommand
    GitPrecedesLog
CHECK_DEADLOCK FALSE
