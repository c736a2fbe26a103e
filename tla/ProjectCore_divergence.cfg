\* The divergence count of a Project whose results are all decided.
CONSTANTS
    Project = {p1}
    Sha = {1, 2, 3, 4, 5, 6, 7}
    Tree = {81}
    Goal = {91}
    Criterion = {a1}
    How = {101, 102}
    RunId = {11, 12, 13, 14, 15}
    CheckpointId = {}
    EvidenceId = {21, 22, 23, 24}
    ReviewId = {}
    ProposalId = {31, 32}
    ComparisonId = {41, 42}
    DecisionId = {51, 52, 53, 54}
    None = None
    CriteriaOf <- MCCriteriaOf
CONSTRAINT IdsInOrder
SPECIFICATION GrownSpec
INVARIANT DecoratedSiblingsAreResolved
CHECK_DEADLOCK FALSE
