\* Two concurrent attempts over reads that may miss one update.
CONSTANTS
    Worker = {w1, w2}
    Project = {p1}
    Key = {k1, k2}
    Command = {"create", "start"}
    Node = {"root", "child"}
    NodeOf <- MCNodeOf
    Accepts <- MCAccepts
    MaxLag = 1
    MaxPush = 1
    None = None
SPECIFICATION Spec
INVARIANTS
    NodesAnchored
    AppliedOnce
    EveryBatchAccepted
    RecordedIsNotRefused
PROPERTIES
    ImplementsEventLog
    ConfirmedHead
SYMMETRY WorkerSymmetry
