-------------------------- MODULE MCGitHubRequests --------------------------
(* An instance of GitHubRequests for TLC, in time steps of five seconds. *)
EXTENDS GitHubRequests

\* One request is for another installation than the others.
OneElsewhere ==
    LET r == CHOOSE r \in Request : TRUE
        i == CHOOSE i \in Installation : TRUE
        j == CHOOSE j \in Installation : j # i
    IN  [q \in Request |-> IF q = r THEN j ELSE i]
=============================================================================
