\* The read models of a Project with six to seven Nodes, in pages of three.
CONSTANTS
    Project = {p1}
    Sha = {1, 2, 3, 4, 5, 6, 7}
    Tree = {81}
    Goal = {91}
    Criterion = {a1}
    How = {101, 102}
    RunId = {11, 12, 13, 14, 15}
    CheckpointId = {61}
    EvidenceId = {21, 22, 23, 24, 25}
    ReviewId = {71}
    ProposalId = {31, 32}
    ComparisonId = {41}
    DecisionId = {51, 52}
    None = None
    CriteriaOf <- MCCriteriaOf
    Before <- MCBefore
    Precedes <- MCPrecedes
    EvidenceShape <- MCEvidenceShape
    GRAPH_PAGE_SIZE = 3
    NODE_ACTIVITY_PAGE_SIZE = 2
    EVENT_INDEX_SHARD_SIZE = 4
    MAX_EVENT_SHARDS_PER_PAGE = 2
SPECIFICATION TidySpec
INVARIANTS
    ResultsMatchRuns
    CompletedRunsCovered
    EveryStateIsReadable
    ViewsShowTheState
    WindowsShowAll
PROPERTIES
    TerminalRunsFrozen
CHECK_DEADLOCK FALSE
