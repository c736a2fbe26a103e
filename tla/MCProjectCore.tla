--------------------------- MODULE MCProjectCore ----------------------------
(***************************************************************************)
(* Instances of ProjectCore for TLC.                                       *)
(*                                                                         *)
(* Identities are names: nothing in the engine orders them.  The instances *)
(* take them from ranges of integers, and the constraint                   *)
(* IdsInOrder keeps one behaviour of each class that differs by a renaming *)
(* of ids: the one that uses the ids of a kind in increasing order.        *)
(***************************************************************************)
EXTENDS ProjectCore

\* Every Goal asks for the same criteria.
MCCriteriaOf == [g \in Goal |-> Criterion]

FirstOf(used, ids) == \A i \in used, j \in ids : j < i => j \in used

PlansInUse ==
    {n.plan : n \in nodes}
    \cup {proposals[q].plan : q \in {x \in ProposalId : proposals[x] # None}}

IdsInOrder ==
    /\ FirstOf({n.sha : n \in nodes}, Sha)
    /\ FirstOf({n.tree : n \in nodes}, Tree)
    /\ FirstOf({plan.how : plan \in PlansInUse}, How)
    /\ FirstOf(UNION {plan.goals : plan \in PlansInUse}, Goal)
    /\ FirstOf({r \in RunId : runs[r] # None}, RunId)
    /\ FirstOf({x.id : x \in evidence}, EvidenceId)
    /\ FirstOf({x.id : x \in checkpoints}, CheckpointId)
    /\ FirstOf({q \in ProposalId : proposals[q] # None}, ProposalId)
    /\ FirstOf({x.id : x \in comparisons}, ComparisonId)
    /\ FirstOf({x.id : x \in dispositions} \cup {x.id : x \in decisions},
               DecisionId)

\* The engine decides nothing on a checkpoint: it is enough that one Run has
\* them.
OneRunHasCheckpoints == \A x \in checkpoints : x.run = 11

-----------------------------------------------------------------------------
(* A Project some way into its life, so that the rules on comparisons and  *)
(* decisions are explored deeper than from the empty state.  It is reached *)
(* by: create the Project with root 1 and Goal G; propose and confirm the  *)
(* Coaching child 2, which changes How; start Runs 11, 12 and 13 on the    *)
(* root and 14 on the child, cover each with evidence and complete them    *)
(* with results 3, 4, 5 and 6; propose another plan for result 3.  Run 11   *)
(* was checkpointed first.                                                 *)
(*                                                                         *)
(* The repository may have a second Project, which has declared the same   *)
(* root commit and registered the results 3 and 4 too, of Runs 15 and 16.  *)

TheGoal == CHOOSE g \in Goal : TRUE
TheCriterion == CHOOSE a \in Criterion : TRUE
TheProject == CHOOSE p \in Project : TRUE
TheTree == CHOOSE t \in Tree : TRUE
OldHow == CHOOSE h \in How : TRUE
NewHow == CHOOSE h \in How : h # OldHow

Offer(h) == [goals |-> {TheGoal}, how |-> h]

Twin == Project \ {TheProject}
Ended == IF Twin = {} THEN 11..14 ELSE 11..16
ProjectFor(r) == IF r <= 14 THEN TheProject ELSE CHOOSE p \in Twin : TRUE
SourceFor(r) == IF r = 14 THEN 2 ELSE 1
HowFor(r) == IF r = 14 THEN NewHow ELSE OldHow
ResultFor(r) == IF r <= 14 THEN r - 8 ELSE r - 12

GrownNodes ==
    {RootNode(p, 1, TheTree, Offer(OldHow)) : p \in Project}
    \cup {CoachingChild(TheProject, 2, TheTree, Offer(NewHow), 1, 31)}
    \cup {RunChild(ProjectFor(r), ResultFor(r), TheTree,
                   [goals |-> {}, how |-> HowFor(r)],
                   SourceFor(r), r, TheGoal) : r \in Ended}

GrownRun(r) ==
    [project |-> ProjectFor(r), source |-> SourceFor(r), goal |-> TheGoal,
     how |-> HowFor(r), status |-> "completed", result |-> ResultFor(r)]

GrownEvidence ==
    {[id |-> r + 10, run |-> r, criterion |-> TheCriterion] : r \in Ended}

GrownProposal(q) ==
    IF q = 31 THEN [project |-> TheProject, source |-> 1, plan |-> Offer(NewHow)]
    ELSE [project |-> TheProject, source |-> 3, plan |-> Offer(OldHow)]

GrownDispositions ==
    {[id |-> 51, proposal |-> 31, status |-> "confirmed", child |-> 2]}

GrownProject ==
    /\ rootSha = [p \in Project |-> 1] /\ nodes = GrownNodes
    /\ runs = [r \in RunId |-> IF r \in Ended THEN GrownRun(r) ELSE None]
    /\ checkpoints = {[id |-> k, run |-> 11] : k \in CheckpointId}
    /\ reviews = {} /\ evidence = GrownEvidence
    /\ proposals = [q \in ProposalId |->
                      IF q \in {31, 32} THEN GrownProposal(q) ELSE None]
    /\ dispositions = GrownDispositions
    /\ comparisons = {} /\ decisions = {}

\* From the empty state on, only the way that leads to GrownProject is
\* followed, one Run at a time.
OnTheWay ==
    /\ nodes \subseteq GrownNodes /\ evidence \subseteq GrownEvidence
    /\ dispositions \subseteq GrownDispositions
    /\ \A q \in ProposalId : proposals[q] \in {None, GrownProposal(q)}
    /\ comparisons = {} /\ decisions = {}
    /\ \A r \in RunId : runs[r] # None =>
          /\ runs[r] \in {GrownRun(r), [GrownRun(r) EXCEPT !.status = "running",
                                                         !.result = None]}
          /\ \A x \in Ended : x < r => runs[x] = GrownRun(x)

HasGrown ==
    proposals[32] = GrownProposal(32) /\ GrownNodes \subseteq nodes

ByWayOfGrownProject == HasGrown \/ OnTheWay

\* The twin compares and decides, it starts no Runs.
TwinStartsNothing ==
    \A r \in RunId \ Ended : runs[r] # None => runs[r].project = TheProject

\* The engine decides nothing on a Run that failed or was canceled: such a Run is
\* followed only while nothing is compared.
RunsEndEarly ==
    \A r \in RunId \ Ended : runs[r] # None /\ comparisons # {} => IsRunning(r)

GrownSpec == GrownProject /\ [][Next]_vars
=============================================================================
