\* A root and its Coaching child with a result each, then the coached-How
\* experiment between them, from the empty state on.
CONSTANTS
    Project = {p1}
    Sha = {1, 2, 3, 4}
    Tree = {81, 82}
    Goal = {91, 92}
    Criterion = {a1}
    How = {101, 102}
    RunId = {11, 12}
    CheckpointId = {61}
    EvidenceId = {21, 22}
    ReviewId = {}
    ProposalId = {31}
    ComparisonId = {41}
    DecisionId = {51, 52}
    None = None
    CriteriaOf <- MCCriteriaOf
    Key <- MCKey
    Semantic = {m1}
    Timestamp = {0, 1}
CONSTRAINTS IdsInOrder OneRunHasCheckpoints SomeRunsAreAlone
SPECIFICATION TidySpec
INVARIANTS
    NodeGraphValid
    CoachingMatchesDispositions
    ExperimentsCompareLikeWithLike
PROPERTIES
    EveryDecisionReplays
CHECK_DEADLOCK FALSE
