----------------------------- MODULE ProjectCore ----------------------------
(***************************************************************************)
(* decideProjectCommand: one action per Project command, with the guards   *)
(* the decider checks on the state before the command and the records its  *)
(* events add.  A refused command changes nothing and is no step.  What is *)
(* checked of the metadata of a command (its key, the ids of its events    *)
(* and its time) is in ProjectCommands.                                    *)
(*                                                                         *)
(* The command's identities, actor and Node content are inputs: they are   *)
(* whatever the caller sent, and the guards decide.                        *)
(***************************************************************************)
EXTENDS ProjectState

\* CreateProject: validateProjectCreation looks only at the Project id and at
\* the agreement of the root Node with the declared root SHA.
CreateProject(actor, p, s, t, plan) ==
    /\ actor = "user"
    /\ rootSha[p] = None
    /\ rootSha' = [rootSha EXCEPT ![p] = s]
    /\ nodes' = nodes \cup {RootNode(p, s, t, plan)}
    /\ UNCHANGED <<runs, checkpoints, evidence, reviews, proposals,
                   dispositions, comparisons, decisions>>

RebuildProjectMaterializations(actor, p) ==
    /\ actor = "user" /\ rootSha[p] # None
    /\ UNCHANGED vars

\* StartRun: buildRunningRun.  The Run snapshots the source Node's How.
StartRun(r, p, s, g) ==
    /\ runs[r] = None
    /\ rootSha[p] # None
    /\ HasNode(p, s)
    /\ ~IsRejected(p, s)
    /\ g \in NodeAt(p, s).plan.goals
    /\ runs' = [runs EXCEPT ![r] =
                  [project |-> p, source |-> s, goal |-> g,
                   how |-> NodeAt(p, s).plan.how,
                   status |-> "running", result |-> None]]
    /\ UNCHANGED <<rootSha, nodes, checkpoints, evidence, reviews, proposals,
                   dispositions, comparisons, decisions>>

\* Mutant of CheckpointRun: the two ids change places.
CheckpointRunSwapped(k, r) ==
    /\ IsRunning(r)
    /\ checkpoints' = checkpoints \cup {[id |-> r, run |-> k]}
    /\ UNCHANGED <<rootSha, nodes, runs, evidence, reviews, proposals,
                   dispositions, comparisons, decisions>>

CheckpointRun(k, r) ==
    /\ IsRunning(r)
    /\ \A x \in checkpoints : x.id # k
    /\ checkpoints' = checkpoints \cup {[id |-> k, run |-> r]}
    /\ UNCHANGED <<rootSha, nodes, runs, evidence, reviews, proposals,
                   dispositions, comparisons, decisions>>

\* Mutant of AttachRunEvidence: a Run that has ended still takes evidence.
AttachEvidenceLate(e, r, target) ==
    /\ \A x \in evidence : x.id # e
    /\ runs[r] # None
    /\ target # None => target \in CriteriaOf[runs[r].goal]
    /\ evidence' = evidence \cup {[id |-> e, run |-> r, criterion |-> target]}
    /\ UNCHANGED <<rootSha, nodes, runs, checkpoints, reviews, proposals,
                   dispositions, comparisons, decisions>>

\* AttachRunEvidence: validateEvidence.  A target is one criterion of the
\* Run's Goal, or None for evidence about the Run as a whole.
AttachRunEvidence(e, r, target) ==
    /\ \A x \in evidence : x.id # e
    /\ IsRunning(r)
    /\ target # None => target \in CriteriaOf[runs[r].goal]
    /\ evidence' = evidence \cup {[id |-> e, run |-> r, criterion |-> target]}
    /\ UNCHANGED <<rootSha, nodes, runs, checkpoints, reviews, proposals,
                   dispositions, comparisons, decisions>>

\* CompleteRun: validateRunCompletion on the running Run, then the Run becomes
\* completed and its result Node is registered in the same batch.
CompleteRun(r, s, t, plan) ==
    /\ ResultValid(r, s)
    /\ LET run == runs[r]
           n   == RunChild(run.project, s, t, plan, run.source, r, run.goal)
       IN  /\ RunChildValid(r, run, n)
           /\ nodes' = nodes \cup {n}
    /\ runs' = [runs EXCEPT ![r] = [@ EXCEPT !.status = "completed",
                                             !.result = s]]
    /\ UNCHANGED <<rootSha, checkpoints, evidence, reviews, proposals,
                   dispositions, comparisons, decisions>>

\* Mutant of FailRun: a completed Run can still fail.
FailAnyRun(r) ==
    /\ runs[r] # None
    /\ runs' = [runs EXCEPT ![r] = [@ EXCEPT !.status = "failed"]]
    /\ UNCHANGED <<rootSha, nodes, checkpoints, evidence, reviews, proposals,
                   dispositions, comparisons, decisions>>

FailRun(r) ==
    /\ IsRunning(r)
    /\ runs' = [runs EXCEPT ![r] = [@ EXCEPT !.status = "failed"]]
    /\ UNCHANGED <<rootSha, nodes, checkpoints, evidence, reviews, proposals,
                   dispositions, comparisons, decisions>>

CancelRun(r) ==
    /\ IsRunning(r)
    /\ runs' = [runs EXCEPT ![r] = [@ EXCEPT !.status = "canceled"]]
    /\ UNCHANGED <<rootSha, nodes, checkpoints, evidence, reviews, proposals,
                   dispositions, comparisons, decisions>>

RecordCoachReview(actor, w, p, target) ==
    /\ actor = "coach"
    /\ \A x \in reviews : x.id # w
    /\ rootSha[p] # None
    /\ \/ target.kind = "node" /\ HasNode(p, target.of)
       \/ /\ target.kind = "run" /\ target.of \in RunId
          /\ runs[target.of] # None /\ runs[target.of].project = p
       \/ /\ target.kind = "comparison"
          /\ \E c \in comparisons : c.id = target.of /\ c.project = p
    /\ reviews' = reviews \cup {[id |-> w, project |-> p, target |-> target]}
    /\ UNCHANGED <<rootSha, nodes, runs, checkpoints, evidence, proposals,
                   dispositions, comparisons, decisions>>

\* RecordCoachingProposal: the proposed plan must differ from the source's.
RecordCoachingProposal(actor, q, p, s, plan) ==
    /\ actor = "coach"
    /\ proposals[q] = None
    /\ ProposalValid(p, s, plan)
    /\ proposals' = [proposals EXCEPT ![q] =
                       [project |-> p, source |-> s, plan |-> plan]]
    /\ UNCHANGED <<rootSha, nodes, runs, checkpoints, evidence, reviews,
                   dispositions, comparisons, decisions>>

\* ConfirmCoachingProposal: buildCoachingConfirmation, then the disposition
\* and the Coaching child Node in one batch.
ConfirmCoachingProposal(actor, q, d, s, t, plan) ==
    /\ actor = "user"
    /\ ConfirmableProposal(q)
    /\ FreshDecisionId(d)
    /\ LET n == CoachingChild(proposals[q].project, s, t, plan,
                              proposals[q].source, q)
       IN  /\ CoachingChildValid(q, n)
           /\ nodes' = nodes \cup {n}
    /\ dispositions' = dispositions \cup
         {[id |-> d, proposal |-> q, status |-> "confirmed", child |-> s]}
    /\ UNCHANGED <<rootSha, runs, checkpoints, evidence, reviews, proposals,
                   comparisons, decisions>>

RejectCoachingProposal(actor, q, d) ==
    /\ actor = "user"
    /\ OpenProposal(q)
    /\ FreshDecisionId(d)
    /\ dispositions' = dispositions \cup
         {[id |-> d, proposal |-> q, status |-> "rejected", child |-> None]}
    /\ UNCHANGED <<rootSha, nodes, runs, checkpoints, evidence, reviews,
                   proposals, comparisons, decisions>>

\* CompareAlternatives.  buildComparison takes the shared parent of siblings,
\* and the shared Goal of an experiment, from the candidates themselves.
RecordComparison(c, p, kind, anchor, g, S) ==
    LET comparison == [id |-> c, project |-> p, kind |-> kind,
                       anchor |-> anchor, goal |-> g, nodes |-> S]
    IN  OverlapValid(comparison) /\ comparisons' = comparisons \cup {comparison}

CompareSiblingRuns(c, p, S) ==
    /\ FreshComparisonId(c)
    /\ CandidatesValid(p, S)
    /\ \E parent \in Sha :
         /\ \A s \in S : NodeAt(p, s).parent = parent
         /\ RecordComparison(c, p, "sibling_runs", parent, None, S)
    /\ UNCHANGED <<rootSha, nodes, runs, checkpoints, evidence, reviews,
                   proposals, dispositions, decisions>>

CompareCoachedHow(c, p, anchor, S) ==
    /\ FreshComparisonId(c)
    /\ CandidatesValid(p, S)
    /\ \E g \in Goal :
         /\ ExperimentValid(p, anchor, g, S)
         /\ RecordComparison(c, p, "coached_how_experiment", anchor, g, S)
    /\ UNCHANGED <<rootSha, nodes, runs, checkpoints, evidence, reviews,
                   proposals, dispositions, decisions>>

SelectAlternative(actor, d, p, c, s) ==
    /\ actor = "user"
    /\ LET decision == [id |-> d, project |-> p, comparison |-> c,
                        kind |-> "selection", nodes |-> {s}]
       IN  SelectionValid(decision) /\ decisions' = decisions \cup {decision}
    /\ UNCHANGED <<rootSha, nodes, runs, checkpoints, evidence, reviews,
                   proposals, dispositions, comparisons>>

RejectAlternatives(actor, d, p, c, S) ==
    /\ actor = "user"
    /\ S # {}
    /\ LET decision == [id |-> d, project |-> p, comparison |-> c,
                        kind |-> "rejection", nodes |-> S]
       IN  RejectionValid(decision) /\ decisions' = decisions \cup {decision}
    /\ UNCHANGED <<rootSha, nodes, runs, checkpoints, evidence, reviews,
                   proposals, dispositions, comparisons>>

-----------------------------------------------------------------------------
(* Commands, by the part of the API that issues them *)

ProjectCommand(actor, p) ==
    \/ \E s \in Sha, t \in Tree, plan \in Plan : CreateProject(actor, p, s, t, plan)
    \/ RebuildProjectMaterializations(actor, p)
    \/ \E w \in ReviewId, target \in ReviewTarget :
         RecordCoachReview(actor, w, p, target)

RunCommand(r) ==
    \/ \E p \in Project, s \in Sha, g \in Goal : StartRun(r, p, s, g)
    \/ \E k \in CheckpointId : CheckpointRun(k, r)
    \/ \E e \in EvidenceId, target \in Criterion \cup {None} :
         AttachRunEvidence(e, r, target)
    \/ \E s \in Sha, t \in Tree, plan \in Plan : CompleteRun(r, s, t, plan)
    \/ FailRun(r)
    \/ CancelRun(r)

CoachingCommand(actor, q) ==
    \/ \E p \in Project, s \in Sha, plan \in Plan :
         RecordCoachingProposal(actor, q, p, s, plan)
    \/ \E d \in DecisionId, s \in Sha, t \in Tree, plan \in Plan :
         ConfirmCoachingProposal(actor, q, d, s, t, plan)
    \/ \E d \in DecisionId : RejectCoachingProposal(actor, q, d)

ComparisonCommand(p, c) ==
    \E S \in SUBSET Sha :
        \/ CompareSiblingRuns(c, p, S)
        \/ \E anchor \in Sha : CompareCoachedHow(c, p, anchor, S)

DecisionCommand(actor, p, c) ==
    \E d \in DecisionId :
        \/ \E s \in Sha : SelectAlternative(actor, d, p, c, s)
        \/ \E S \in SUBSET Sha : RejectAlternatives(actor, d, p, c, S)

Next ==
    \/ \E r \in RunId : RunCommand(r)
    \/ \E p \in Project, c \in ComparisonId : ComparisonCommand(p, c)
    \/ \E actor \in Actor :
        \/ \E p \in Project : ProjectCommand(actor, p)
        \/ \E q \in ProposalId : CoachingCommand(actor, q)
        \/ \E p \in Project, c \in ComparisonId : DecisionCommand(actor, p, c)

Spec == Init /\ [][Next]_vars
-----------------------------------------------------------------------------
(* Divergence, as dashboards count it: unresolvedDivergenceCount *)

RunChildrenOf(p, parent) ==
    {n.sha : n \in {m \in nodes : m.project = p /\ m.kind = "run_child"
                                  /\ m.parent = parent}}

\* isCandidateCohortResolved: all rejected, or all but one selected result.
CohortResolved(p, S) ==
    LET selected == {s \in S : IsSelected(p, s) /\ ~IsRejected(p, s)} IN
    \/ \A s \in S : IsRejected(p, s)
    \/ /\ Cardinality(selected) = 1
       /\ \A s \in S : s \in selected \/ IsRejected(p, s)

\* The results of one parent are a divergence from the second result on.
UnresolvedSiblings(p) ==
    {parent \in Sha :
        LET S == RunChildrenOf(p, parent)
        IN  Cardinality(S) >= 2 /\ ~CohortResolved(p, S)}

\* All the candidates ever compared under one coached-How cohort key.
UnresolvedExperiments(p) ==
    {key \in {CohortKey(c) : c \in {x \in comparisons :
                 x.project = p /\ x.kind = "coached_how_experiment"}} :
        ~CohortResolved(p, UNION {c.nodes : c \in {x \in comparisons :
                                     CohortKey(x) = key}})}

UnresolvedDivergenceCount(p) ==
    Cardinality(UnresolvedSiblings(p)) + Cardinality(UnresolvedExperiments(p))

-----------------------------------------------------------------------------
(* Properties *)

\* The state is a ProjectState: the shapes that packages/protocol decodes.
TypeOK ==
    /\ rootSha \in [Project -> Sha \cup {None}]
    /\ nodes \subseteq Node
    /\ runs \in [RunId -> Run \cup {None}]
    /\ checkpoints \subseteq [id : CheckpointId, run : RunId]
    /\ evidence \subseteq
         [id : EvidenceId, run : RunId, criterion : Criterion \cup {None}]
    /\ reviews \subseteq
         [id : ReviewId, project : Project, target : ReviewTarget]
    /\ proposals \in [ProposalId -> Proposal \cup {None}]
    /\ dispositions \subseteq Disposition
    /\ comparisons \subseteq Comparison
    /\ decisions \subseteq Decision

\* A commit is registered once in a Project (validateNewNode).
NodesUnique ==
    \A m, n \in nodes : m.project = n.project /\ m.sha = n.sha => m = n

\* A Project has exactly its declared root, and every Node belongs to one.
RootsDeclared ==
    /\ \A n \in nodes : rootSha[n.project] # None
    /\ \A n \in nodes : n.kind = "root" => n.sha = rootSha[n.project]
    /\ \A p \in Project : rootSha[p] # None =>
         \E n \in nodes : n.project = p /\ n.kind = "root"

ParentsRegistered ==
    \A n \in nodes : n.kind # "root" => HasNode(n.project, n.parent)

\* No Node descends from itself: any set of Nodes has one whose parent lies
\* outside the set, so every walk along parents ends, and ends at a root.
NoCycle ==
    \A S \in SUBSET nodes : S # {} =>
        \E n \in S : \/ n.kind = "root"
                     \/ \A m \in S : m.project = n.project => m.sha # n.parent

\* validateNodeGraph accepts every state the decider can produce, whatever
\* order Runs finish and proposals are confirmed in: each Project is one tree
\* under its declared root.
NodeGraphValid ==
    NodesUnique /\ RootsDeclared /\ ParentsRegistered /\ NoCycle

\* Completed Runs and result Nodes are the same facts: a completed Run has
\* exactly the Node it names, bound to its source and Goal; a Run that is
\* running, failed or canceled has left no Node (buildRunningRun, FailRun,
\* CancelRun, validateRunChildNode).
ResultsMatchRuns ==
    /\ \A r \in RunId :
         runs[r] # None /\ runs[r].status = "completed" =>
             \E n \in nodes :
                 /\ n.kind = "run_child" /\ n.origin = r
                 /\ n.project = runs[r].project /\ n.sha = runs[r].result
    /\ \A n \in nodes : n.kind = "run_child" =>
         /\ n.origin \in RunId /\ runs[n.origin] # None
         /\ runs[n.origin].status = "completed"
         /\ runs[n.origin].project = n.project
         /\ runs[n.origin].result = n.sha
         /\ runs[n.origin].source = n.parent
         /\ runs[n.origin].goal = n.goal

\* A Run completes only when its own evidence covers its whole Goal, and the
\* evidence that justified a completion never disappears.
CompletedRunsCovered ==
    \A r \in RunId :
        runs[r] # None /\ runs[r].status = "completed" =>
            CriteriaOf[runs[r].goal] \subseteq Covered(r)

\* A Coaching child exists exactly when its proposal was confirmed, it is the
\* child the disposition names, and a proposal is disposed of at most once.
CoachingMatchesDispositions ==
    /\ \A x, y \in dispositions : x.proposal = y.proposal => x = y
    /\ \A x \in dispositions : proposals[x.proposal] # None
    /\ \A x \in dispositions : x.status = "confirmed" =>
         \E n \in nodes :
             /\ n.kind = "coaching_child" /\ n.origin = x.proposal
             /\ n.sha = x.child
             /\ n.project = proposals[x.proposal].project
             /\ n.parent = proposals[x.proposal].source
    /\ \A n \in nodes : n.kind = "coaching_child" =>
         /\ n.origin \in ProposalId
         /\ \E x \in dispositions :
              /\ x.proposal = n.origin /\ x.status = "confirmed"
              /\ x.child = n.sha

\* No sequence of decisions both selects and rejects a result.
SelectedNeverRejected ==
    \A x, y \in decisions :
        x.kind = "selection" /\ y.kind = "rejection" /\ x.project = y.project
            => x.nodes \cap y.nodes = {}

\* A result takes part in the comparisons of one cohort only, however often
\* and under whatever variant it is compared.
OneCohortPerResult ==
    \A x, y \in comparisons :
        x.project = y.project /\ x.nodes \cap y.nodes # {} =>
            CohortKey(x) = CohortKey(y)

\* A cohort has at most one selected future, whichever of its comparisons the
\* selections cite.
OneFuturePerCohort ==
    \A x, y \in decisions : \A c, e \in comparisons :
        /\ x.kind = "selection" /\ c.id = x.comparison /\ c.project = x.project
        /\ y.kind = "selection" /\ e.id = y.comparison /\ e.project = y.project
        /\ CohortKey(c) = CohortKey(e)
        => x = y

\* A recorded coached-How experiment compares like with like: its results came
\* from distinct sources on one tree that offered the same Goals.
ExperimentsCompareLikeWithLike ==
    \A c \in comparisons : c.kind = "coached_how_experiment" =>
        \A s, u \in c.nodes : s # u =>
            LET a == SourceOf(c.project, s)
                b == SourceOf(c.project, u)
            IN  /\ a # b
                /\ a.tree = b.tree
                /\ a.plan.goals = b.plan.goals
                /\ NodeAt(c.project, s).goal = NodeAt(c.project, u).goal

\* A decision disposes only of results that its own Project compared, also
\* when another Project of the repository registered the same commit.
DecisionsStayInProject ==
    \A d \in decisions : \A s \in d.nodes :
        \E c \in comparisons :
            c.id = d.comparison /\ c.project = d.project /\ s \in c.nodes

\* Once a Run has ended nothing is recorded against it any more.
TerminalRunsFrozen ==
    [][\A r \in RunId :
         runs[r] # None /\ runs[r].status # "running" =>
             /\ runs'[r] = runs[r]
             /\ \A e \in evidence' \ evidence : e.run # r
             /\ \A k \in checkpoints' \ checkpoints : k.run # r]_vars

\* Nothing new grows from a rejected Node: no Run starts on it, no proposal is
\* recorded for it and no proposal made earlier is confirmed.  Runs already
\* started may still complete.
RejectedNodesInert ==
    [][\A p \in Project, s \in Sha : IsRejected(p, s) =>
         /\ \A r \in RunId : runs[r] = None /\ runs'[r] # None =>
              ~(runs'[r].project = p /\ runs'[r].source = s)
         /\ \A q \in ProposalId : proposals[q] = None /\ proposals'[q] # None =>
              ~(proposals'[q].project = p /\ proposals'[q].source = s)
         /\ \A n \in nodes' \ nodes :
              ~(n.kind = "coaching_child" /\ n.project = p /\ n.parent = s)]_vars

\* tests/projections.test.ts: sibling results "count as unresolved divergence
\* until decisions decorate them".  Once every result of a parent is selected
\* or rejected the parent is no longer counted.
DecoratedSiblingsAreResolved ==
    \A p \in Project, parent \in Sha :
        (\A s \in RunChildrenOf(p, parent) : IsSelected(p, s) \/ IsRejected(p, s))
            => parent \notin UnresolvedSiblings(p)
=============================================================================
