\* Two attempts racing to create the branch, each served to its end.
CONSTANTS
    Worker = {w1, w2}
    Project = {p1}
    Key = {k1}
    Command = {"create"}
    Node = {"root", "child"}
    NodeOf <- MCNodeOf
    Accepts <- MCAccepts
    MaxLag = 1
    MaxPush = 1
    None = None
SPECIFICATION FairSpec
PROPERTIES
    AttemptsEnd
