---------------------------- MODULE MCReadCache ----------------------------
(***************************************************************************)
(* Instances of ReadCache and of StateFileCache for TLC.  The two share no *)
(* state but the calls that invalidate both, so that only one of them is   *)
(* away from its initial state at a time.                                  *)
(***************************************************************************)
EXTENDS ReadCache, StateFileCache

MCInit == Init /\ FilesInit

MCNext ==
    \/ Next /\ FilesInit /\ UNCHANGED fileVars
    \/ FilesNext /\ Init /\ UNCHANGED vars

MCSpec == MCInit /\ [][MCNext]_<<vars, fileVars>> /\ Fairness

-----------------------------------------------------------------------------

OneInstallation == [s \in Repository |-> CHOOSE i \in Installation : TRUE]

\* hunsu/state has no Project, then holds one.
Growing == [v \in Version |-> IF v = 0 THEN "no_projects" ELSE "projects"]

Whole(kind, scope) ==
    [place |-> <<kind, scope>>, keys |-> {None}, force |-> FALSE]
Forced(scope) == [Whole("full", scope) EXCEPT !.force = TRUE]
Anchors(scope, K) ==
    [place |-> <<"anchor", scope>>, keys |-> K, force |-> FALSE]

CatalogAsks == {Whole("catalog", s) : s \in Repository}
GrantAsks == {Whole("grants", i) : i \in Installation}
AnchorAsks == {Anchors(s, K) : s \in Repository, K \in (SUBSET Node) \ {{}}}
FullAsks == {Whole("full", s) : s \in Repository}
            \cup {Forced(s) : s \in Repository}

OneKindAtATime ==
    {CatalogAsks, CatalogAsks \cup GrantAsks, AnchorAsks, FullAsks}

\* All state files but one exist.
AllButOne == (Snapshot \X Path) \ {CHOOSE f \in Snapshot \X Path : TRUE}
=============================================================================
