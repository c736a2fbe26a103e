---------------------------- MODULE ProjectState ----------------------------
(***************************************************************************)
(* The state of one repository's Projects as packages/core keeps it        *)
(* (ProjectState in packages/protocol, emptyProjectState in engine.ts) and *)
(* the lookups and validators that both sides of the engine share: the     *)
(* decider of commands (ProjectCore) and the replayer of recorded events   *)
(* (ProjectReplay).                                                        *)
(*                                                                         *)
(* Data is abstracted to what the rules compare.  A Goal, a Runner value   *)
(* (How) and a tree stand for their digests; a Node Plan is the set of its *)
(* Goals with its How, so two plans are equal exactly when their canonical *)
(* digests are.  Wording, timestamps, payload envelopes and findings are   *)
(* left out.  None is the absent value.                                    *)
(***************************************************************************)
EXTENDS Integers, FiniteSets

CONSTANTS
    Project, Sha, Tree, Goal, Criterion, How,
    CriteriaOf,       \* the acceptance criteria of each Goal
    RunId, CheckpointId, EvidenceId, ReviewId,
    ProposalId, ComparisonId, DecisionId,
    None

\* serialization.ts and validatePlan admit only Goals with at least one
\* acceptance criterion.
ASSUME GoalsHaveCriteria ==
    CriteriaOf \in [Goal -> (SUBSET Criterion) \ {{}}]

\* The absent value is none of the identities it may stand in for.
ASSUME NoneIsFresh ==
    None \notin Sha \cup Goal \cup Criterion \cup RunId \cup ProposalId

VARIABLES
    rootSha,        \* declared root of each Project; None: no such Project
    nodes,          \* registered Commit Nodes
    runs,           \* RunId -> Run, None while no Run has that id
    checkpoints,    \* checkpoints of Runs
    evidence,       \* evidence attached to Runs
    reviews,        \* Coach reviews
    proposals,      \* ProposalId -> Coaching proposal or None
    dispositions,   \* confirmations and rejections of Coaching proposals
    comparisons,    \* recorded comparisons
    decisions       \* selections and rejections of compared alternatives

vars == <<rootSha, nodes, runs, checkpoints, evidence, reviews, proposals,
          dispositions, comparisons, decisions>>

-----------------------------------------------------------------------------
(* Shapes *)

Actor == {"user", "coach", "system"}

Plan == [goals : SUBSET Goal, how : How]

Node == [project : Project, sha : Sha, tree : Tree, plan : Plan,
         kind    : {"root", "run_child", "coaching_child"},
         parent  : Sha \cup {None},
         origin  : RunId \cup ProposalId \cup {None},
         goal    : Goal \cup {None}]

Run == [project : Project, source : Sha, goal : Goal, how : How,
        status  : {"running", "completed", "failed", "canceled"},
        result  : Sha \cup {None}]

Proposal == [project : Project, source : Sha, plan : Plan]

Disposition == [id : DecisionId, proposal : ProposalId,
                status : {"confirmed", "rejected"}, child : Sha \cup {None}]

Comparison == [id : ComparisonId, project : Project,
               kind : {"sibling_runs", "coached_how_experiment"},
               anchor : Sha, goal : Goal \cup {None}, nodes : SUBSET Sha]

Decision == [id : DecisionId, project : Project, comparison : ComparisonId,
             kind : {"selection", "rejection"}, nodes : SUBSET Sha]

\* What a Coach review is about: a Node, a Run or a comparison.
ReviewTarget == [kind : {"node", "run", "comparison"},
                 of   : Sha \cup RunId \cup ComparisonId]

\* Nor is it a record of the state.
ASSUME NoneIsNoRecord == None \notin Run \cup Proposal

RootNode(p, s, t, plan) ==
    [project |-> p, sha |-> s, tree |-> t, plan |-> plan, kind |-> "root",
     parent |-> None, origin |-> None, goal |-> None]

RunChild(p, s, t, plan, parent, r, g) ==
    [project |-> p, sha |-> s, tree |-> t, plan |-> plan, kind |-> "run_child",
     parent |-> parent, origin |-> r, goal |-> g]

CoachingChild(p, s, t, plan, parent, q) ==
    [project |-> p, sha |-> s, tree |-> t, plan |-> plan,
     kind |-> "coaching_child", parent |-> parent, origin |-> q, goal |-> None]

-----------------------------------------------------------------------------
(* Lookups *)

HasNode(p, s) == \E n \in nodes : n.project = p /\ n.sha = s

NodeAt(p, s) == CHOOSE n \in nodes : n.project = p /\ n.sha = s

IsRunning(r) == runs[r] # None /\ runs[r].status = "running"

IsRejected(p, s) ==
    \E d \in decisions : d.kind = "rejection" /\ d.project = p /\ s \in d.nodes

IsSelected(p, s) ==
    \E d \in decisions : d.kind = "selection" /\ d.project = p /\ s \in d.nodes

\* A decision id is shared by Coaching dispositions and alternative decisions.
FreshDecisionId(d) ==
    /\ \A x \in dispositions : x.id # d
    /\ \A x \in decisions : x.id # d

HasDisposition(q) == \E x \in dispositions : x.proposal = q

\* inheritRunChildPlan: a result inherits the plan less the Goal it consumed.
InheritedPlan(plan, g) == [goals |-> plan.goals \ {g}, how |-> plan.how]

\* The criteria of a Run's Goal that its own evidence covers.
Covered(r) == {e.criterion : e \in {x \in evidence : x.run = r}} \ {None}

-----------------------------------------------------------------------------
(* Validators used by the decider and by the replayer.  A validator takes  *)
(* as arguments the parts of the state that an earlier event of the same   *)
(* batch may already have changed.                                         *)

\* Mutant of NewNodeValid: registers the same commit twice.
NewNodeValidTwice(root, n) ==
    /\ root[n.project] # None
    /\ n.kind # "root" => n.parent # n.sha /\ HasNode(n.project, n.parent)

\* validateNewNode, on the Projects that `root` declares.
NewNodeValid(root, n) ==
    /\ root[n.project] # None
    /\ ~HasNode(n.project, n.sha)
    /\ \/ /\ n.kind = "root"
          /\ \A m \in nodes : m.project = n.project => m.kind # "root"
          /\ n.sha = root[n.project]
       \/ /\ n.kind # "root"
          /\ n.parent # n.sha
          /\ HasNode(n.project, n.parent)

\* Mutant of ResultValid: counts the evidence of every Run.
ResultValidAnyEvidence(r, s) ==
    /\ IsRunning(r)
    /\ runs[r].source # s
    /\ CriteriaOf[runs[r].goal] \subseteq {e.criterion : e \in evidence}

\* validateVerifiedRunResult: the Run is running, the result is a new commit
\* and the Run's evidence covers every acceptance criterion of its Goal.
ResultValid(r, s) ==
    /\ IsRunning(r)
    /\ runs[r].source # s
    /\ CriteriaOf[runs[r].goal] \subseteq Covered(r)

\* validateRunChildNode: n is the result Node of Run r, whose record is `run`.
RunChildValid(r, run, n) ==
    /\ run.status = "completed" => run.result = n.sha
    /\ n.project = run.project /\ n.parent = run.source
    /\ n.origin = r /\ n.goal = run.goal
    /\ HasNode(run.project, run.source)
    /\ LET source == NodeAt(run.project, run.source)
       IN  /\ run.goal \in source.plan.goals
           /\ n.plan = InheritedPlan(source.plan, run.goal)
    /\ NewNodeValid(rootSha, n)

\* validateCoachingChild: n is the child that proposal q announced.
CoachingChildValid(q, n) ==
    LET proposal == proposals[q] IN
    /\ HasNode(proposal.project, proposal.source)
    /\ n.project = proposal.project /\ n.parent = proposal.source
    /\ n.origin = q
    /\ n.tree = NodeAt(proposal.project, proposal.source).tree
    /\ n.plan = proposal.plan
    /\ NewNodeValid(rootSha, n)

\* validateCoachingProposal, less the duplicate-id check of its callers.
ProposalValid(p, s, plan) ==
    /\ HasNode(p, s)
    /\ ~IsRejected(p, s)
    /\ plan # NodeAt(p, s).plan

\* Mutants: an earlier disposition, or a rejection of the source, is ignored.
OpenProposalAgain(q) == proposals[q] # None
ConfirmableAfterRejection(q) == proposals[q] # None /\ ~HasDisposition(q)

\* findOpenCoachingProposal and findConfirmableCoachingProposal.
OpenProposal(q) == proposals[q] # None /\ ~HasDisposition(q)

ConfirmableProposal(q) ==
    OpenProposal(q) /\ ~IsRejected(proposals[q].project, proposals[q].source)

\* resolveCompletedRunCandidates, for one candidate.
CandidateValid(p, s) ==
    /\ HasNode(p, s)
    /\ LET n == NodeAt(p, s) IN
       /\ n.kind = "run_child"
       /\ runs[n.origin] # None /\ runs[n.origin].status = "completed"
       /\ LET run == runs[n.origin] IN
          /\ run.project = p /\ run.source = n.parent
          /\ run.result = s /\ run.goal = n.goal
          /\ HasNode(p, run.source)
          /\ run.goal \in NodeAt(p, run.source).plan.goals
          /\ run.how = NodeAt(p, run.source).plan.how

CandidatesValid(p, S) ==
    Cardinality(S) >= 2 /\ \A s \in S : CandidateValid(p, s)

\* The source Node of the Run that produced candidate s.
SourceOf(p, s) == NodeAt(p, runs[NodeAt(p, s).origin].source)

\* Mutant of ExperimentSourceValid: the sources may offer different Goals.
ExperimentSourceAnyGoals(p, anchor, source) ==
    source.sha # anchor =>
        /\ source.kind = "coaching_child" /\ source.parent = anchor
        /\ source.tree = NodeAt(p, anchor).tree

\* validateCoachedHowExperimentCandidates: one source may be the anchor, every
\* other one is a confirmed Coaching child of it on the anchor's tree, and the
\* source plans differ from the anchor's only in How.
ExperimentSourceValid(p, anchor, source) ==
    LET a == NodeAt(p, anchor) IN
    /\ source.sha # anchor =>
         /\ source.kind = "coaching_child" /\ source.parent = anchor
         /\ source.tree = a.tree
         /\ proposals[source.origin] # None
         /\ proposals[source.origin].project = p
         /\ proposals[source.origin].source = anchor
         /\ proposals[source.origin].plan = source.plan
         /\ \E x \in dispositions :
              /\ x.proposal = source.origin
              /\ x.status = "confirmed" /\ x.child = source.sha
    /\ source.plan.goals = a.plan.goals

ExperimentValid(p, anchor, g, S) ==
    /\ HasNode(p, anchor)
    /\ \A s, u \in S : SourceOf(p, s).sha = SourceOf(p, u).sha => s = u
    /\ \A s \in S : NodeAt(p, s).goal = g
    /\ \A s \in S : ExperimentSourceValid(p, anchor, SourceOf(p, s))

\* comparisonCohortKey.
CohortKey(c) == <<c.kind, c.project, c.anchor, c.goal>>

\* Mutant of OverlapValid: only comparisons of the same variant are looked at.
OverlapValidByKind(c) ==
    \A x \in comparisons :
        /\ x.project = c.project /\ x.kind = c.kind
        /\ x.nodes \cap c.nodes # {}
        => CohortKey(x) = CohortKey(c)

\* validateComparisonCohortOverlap.
OverlapValid(c) ==
    \A x \in comparisons :
        x.project = c.project /\ x.nodes \cap c.nodes # {} =>
            CohortKey(x) = CohortKey(c)

FreshComparisonId(c) == \A x \in comparisons : x.id # c

\* Mutants of SelectionValid: one selection per comparison instead of one per
\* cohort, and a comparison looked up by its id alone.
SelectionValidPerComparison(d) ==
    /\ FreshDecisionId(d.id)
    /\ \E c \in comparisons :
         c.project = d.project /\ c.id = d.comparison /\ d.nodes \subseteq c.nodes
    /\ \A x \in decisions : x.kind = "selection" => x.comparison # d.comparison
    /\ \A s \in d.nodes : ~IsRejected(d.project, s)

SelectionValidAnyProject(d) ==
    /\ FreshDecisionId(d.id)
    /\ \E c \in comparisons : c.id = d.comparison /\ d.nodes \subseteq c.nodes
    /\ \A s \in d.nodes : ~IsRejected(d.project, s)

\* validateSelectionDecision, less the actor.
SelectionValid(d) ==
    /\ FreshDecisionId(d.id)
    /\ \E c \in comparisons :
         /\ c.project = d.project /\ c.id = d.comparison
         /\ d.nodes \subseteq c.nodes
         /\ \A x \in decisions, y \in comparisons :
              /\ x.kind = "selection" /\ x.project = d.project
              /\ y.project = d.project /\ y.id = x.comparison
              => CohortKey(y) # CohortKey(c)
    /\ \A s \in d.nodes : ~IsRejected(d.project, s)

\* Mutant of RejectionValid: a selected result may be rejected.
RejectionValidSelected(d) ==
    /\ FreshDecisionId(d.id)
    /\ \E c \in comparisons :
         c.project = d.project /\ c.id = d.comparison /\ d.nodes \subseteq c.nodes
    /\ \A s \in d.nodes : ~IsRejected(d.project, s)

\* validateRejectionDecision, less the actor.
RejectionValid(d) ==
    /\ FreshDecisionId(d.id)
    /\ \E c \in comparisons :
         c.project = d.project /\ c.id = d.comparison /\ d.nodes \subseteq c.nodes
    /\ \A s \in d.nodes : ~IsSelected(d.project, s) /\ ~IsRejected(d.project, s)

-----------------------------------------------------------------------------
(* emptyProjectState *)

Init ==
    /\ rootSha = [p \in Project |-> None]
    /\ nodes = {}
    /\ runs = [r \in RunId |-> None]
    /\ checkpoints = {} /\ evidence = {} /\ reviews = {}
    /\ proposals = [q \in ProposalId |-> None]
    /\ dispositions = {} /\ comparisons = {} /\ decisions = {}
=============================================================================
