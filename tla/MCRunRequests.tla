--------------------------- MODULE MCRunRequests ----------------------------
(* Instances of RunRequests for TLC. *)
EXTENDS RunRequests, TLC

\* Every Node offers every Goal, as a Coaching child that changes How does.
MCGoalsOf == [n \in Node |-> {"goal"}]

\* Requests are served alike, and so are the Nodes.
Symmetry == Permutations(Handler) \cup Permutations(Node)

\* Bounds the log, and with it the heads that may be on a screen.
ShortLog == Len(log) <= 3
=============================================================================
