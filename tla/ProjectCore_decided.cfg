\* Six Nodes, two comparisons and three decisions, by way of a grown Project
\* from the empty state on, beside a Project of the repository that registered
\* some of its commits.
CONSTANTS
    Project = {p1, p2}
    Sha = {1, 2, 3, 4, 5, 6, 7}
    Tree = {81}
    Goal = {91}
    Criterion = {a1}
    How = {101, 102}
    RunId = {11, 12, 13, 14, 15, 16, 17}
    CheckpointId = {}
    EvidenceId = {21, 22, 23, 24, 25, 26}
    ReviewId = {}
    ProposalId = {31, 32}
    ComparisonId = {41, 42}
    DecisionId = {51, 52, 53}
    None = None
    CriteriaOf <- MCCriteriaOf
CONSTRAINTS IdsInOrder TwinStartsNothing RunsEndEarly ByWayOfGrownProject
SPECIFICATION Spec
INVARIANTS
    SelectedNeverRejected
    OneCohortPerResult
    OneFuturePerCohort
    DecisionsStayInProject
PROPERTIES
    RejectedNodesInert
CHECK_DEADLOCK FALSE
