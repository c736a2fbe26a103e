-------------------------- MODULE ProjectCoreProofs -------------------------
(***************************************************************************)
(* The decision engine's invariants, proved for all Projects, commits,     *)
(* Goals, Runs, proposals, comparisons and decisions; that what it decides *)
(* can be replayed; and that the log of it can be read.                    *)
(*                                                                         *)
(* The proofs follow the state rather than the commands: a first part says *)
(* for each variable how a command may change it, and every invariant is   *)
(* then derived from the changes of the variables it speaks of.            *)
(*                                                                         *)
(* For the log: recursions define functions; records are finite in number  *)
(* and known by their ids; a log is made of whole batches, each known by   *)
(* the key of its command; and the value that an event carries is decoded. *)
(* Conversely each event is that of a record, and its id no other's.       *)
(***************************************************************************)
EXTENDS ProjectCommands, EventCodec, FiniteSetTheorems, SequenceTheorems,
        WellFoundedInduction, TLAPS

-----------------------------------------------------------------------------
(* Lookups *)

\* A Node that exists is the one that looking it up returns.
LEMMA NodeFound ==
    ASSUME NEW p, NEW s, HasNode(p, s)
    PROVE  /\ NodeAt(p, s) \in nodes
           /\ NodeAt(p, s).project = p /\ NodeAt(p, s).sha = s
  BY DEF HasNode, NodeAt

-----------------------------------------------------------------------------
(* How each variable may change *)

\* Comparisons are only added, with a new id and in the cohort of every
\* comparison they overlap.
ComparisonAdded(c) ==
    /\ c \in Comparison
    /\ comparisons' = comparisons \cup {c}
    /\ FreshComparisonId(c.id) /\ OverlapValid(c)
    /\ CandidatesValid(c.project, c.nodes)
    /\ c.kind = "coached_how_experiment" =>
         ExperimentValid(c.project, c.anchor, c.goal, c.nodes)
    /\ UNCHANGED <<rootSha, nodes, runs, checkpoints, evidence, reviews,
                   proposals, dispositions, decisions>>

\* Decisions are only added, on one result at least, and are validated.
DecisionAdded(d) ==
    /\ d \in Decision /\ d.nodes # {}
    /\ decisions' = decisions \cup {d}
    /\ \/ d.kind = "selection" /\ SelectionValid(d)
       \/ d.kind = "rejection" /\ RejectionValid(d)
    /\ UNCHANGED <<rootSha, nodes, runs, checkpoints, evidence, reviews,
                   proposals, dispositions, comparisons>>

LEMMA CompareAdds ==
    ASSUME NEW p \in Project, NEW c \in ComparisonId, ComparisonCommand(p, c)
    PROVE  \E x : ComparisonAdded(x)
  <1>1. ASSUME NEW S \in SUBSET Sha, CompareSiblingRuns(c, p, S)
        PROVE  \E x : ComparisonAdded(x)
    <2>1. PICK parent \in Sha :
            RecordComparison(c, p, "sibling_runs", parent, None, S)
      BY <1>1 DEF CompareSiblingRuns
    <2> DEFINE x == [id |-> c, project |-> p, kind |-> "sibling_runs",
                     anchor |-> parent, goal |-> None, nodes |-> S]
    <2>2. x \in Comparison
      BY DEF Comparison
    <2>3. ComparisonAdded(x)
      BY <1>1, <2>1, <2>2 DEF ComparisonAdded, CompareSiblingRuns,
                              RecordComparison
    <2> QED
      BY <2>3
  <1>2. ASSUME NEW S \in SUBSET Sha, NEW anchor \in Sha,
               CompareCoachedHow(c, p, anchor, S)
        PROVE  \E x : ComparisonAdded(x)
    <2>1. PICK g \in Goal :
            /\ ExperimentValid(p, anchor, g, S)
            /\ RecordComparison(c, p, "coached_how_experiment", anchor, g, S)
      BY <1>2 DEF CompareCoachedHow
    <2> DEFINE x == [id |-> c, project |-> p,
                     kind |-> "coached_how_experiment",
                     anchor |-> anchor, goal |-> g, nodes |-> S]
    <2>2. x \in Comparison
      BY DEF Comparison
    <2>3. ComparisonAdded(x)
      BY <1>2, <2>1, <2>2 DEF ComparisonAdded, CompareCoachedHow,
                              RecordComparison
    <2> QED
      BY <2>3
  <1> QED
    BY <1>1, <1>2 DEF ComparisonCommand

LEMMA DecideAdds ==
    ASSUME NEW actor, NEW p \in Project, NEW c \in ComparisonId,
           DecisionCommand(actor, p, c)
    PROVE  \E x : DecisionAdded(x)
  <1>1. ASSUME NEW d \in DecisionId, NEW s \in Sha,
               SelectAlternative(actor, d, p, c, s)
        PROVE  \E x : DecisionAdded(x)
    <2> DEFINE x == [id |-> d, project |-> p, comparison |-> c,
                     kind |-> "selection", nodes |-> {s}]
    <2>1. x \in Decision /\ x.nodes # {}
      BY DEF Decision
    <2>2. DecisionAdded(x)
      BY <1>1, <2>1 DEF DecisionAdded, SelectAlternative
    <2> QED
      BY <2>2
  <1>2. ASSUME NEW d \in DecisionId, NEW S \in SUBSET Sha,
               RejectAlternatives(actor, d, p, c, S)
        PROVE  \E x : DecisionAdded(x)
    <2> DEFINE x == [id |-> d, project |-> p, comparison |-> c,
                     kind |-> "rejection", nodes |-> S]
    <2>1. x \in Decision /\ x.nodes # {}
      BY <1>2 DEF Decision, RejectAlternatives
    <2>2. DecisionAdded(x)
      BY <1>2, <2>1 DEF DecisionAdded, RejectAlternatives
    <2> QED
      BY <2>2
  <1> QED
    BY <1>1, <1>2 DEF DecisionCommand

\* Nothing but comparisons and decisions touches comparisons and decisions.
LEMMA OthersKeepDecisions ==
    /\ \A r : RunCommand(r) => UNCHANGED <<comparisons, decisions>>
    /\ \A actor, p : ProjectCommand(actor, p) =>
         UNCHANGED <<comparisons, decisions>>
    /\ \A actor, q : CoachingCommand(actor, q) =>
         UNCHANGED <<comparisons, decisions>>
  <1>1. ASSUME NEW r, RunCommand(r) PROVE UNCHANGED <<comparisons, decisions>>
    BY <1>1 DEF RunCommand, StartRun, CheckpointRun, AttachRunEvidence,
                CompleteRun, FailRun, CancelRun
  <1>2. ASSUME NEW actor, NEW p, ProjectCommand(actor, p)
        PROVE  UNCHANGED <<comparisons, decisions>>
    BY <1>2 DEF ProjectCommand, CreateProject, RebuildProjectMaterializations,
                RecordCoachReview, vars
  <1>3. ASSUME NEW actor, NEW q, CoachingCommand(actor, q)
        PROVE  UNCHANGED <<comparisons, decisions>>
    BY <1>3 DEF CoachingCommand, RecordCoachingProposal,
                ConfirmCoachingProposal, RejectCoachingProposal
  <1> QED
    BY <1>1, <1>2, <1>3

\* A step either leaves comparisons and decisions alone, or adds to one.
LEMMA AlternativesChange ==
    ASSUME [Next]_vars
    PROVE  \/ UNCHANGED <<comparisons, decisions>>
           \/ \E c : ComparisonAdded(c)
           \/ \E d : DecisionAdded(d)
  <1>1. CASE UNCHANGED vars
    BY <1>1 DEF vars
  <1> QED
    BY <1>1, CompareAdds, DecideAdds, OthersKeepDecisions DEF Next

-----------------------------------------------------------------------------
(* Alternatives: one cohort per result, one future per cohort.             *)
(* The invariant adds to the properties what they rest on: ids identify    *)
(* comparisons and decisions, and a decision cites a comparison that       *)
(* exists, so a comparison recorded later can never join its cohort.       *)

AlternativesInv ==
    /\ comparisons \subseteq Comparison /\ decisions \subseteq Decision
    /\ \A c, e \in comparisons : c.id = e.id => c = e
    /\ \A d \in decisions : \E c \in comparisons :
         c.id = d.comparison /\ c.project = d.project /\ d.nodes \subseteq c.nodes
    /\ SelectedNeverRejected
    /\ OneCohortPerResult
    /\ OneFuturePerCohort

LEMMA ComparisonKeepsAlternatives ==
    ASSUME AlternativesInv, NEW c, ComparisonAdded(c)
    PROVE  AlternativesInv'
  <1>1. /\ comparisons' = comparisons \cup {c} /\ decisions' = decisions
        /\ c \in Comparison /\ \A x \in comparisons : x.id # c.id
    BY DEF ComparisonAdded, FreshComparisonId
  <1>2. comparisons' \subseteq Comparison /\ decisions' \subseteq Decision
    BY <1>1 DEF AlternativesInv
  <1>3. \A x, y \in comparisons' : x.id = y.id => x = y
    BY <1>1 DEF AlternativesInv
  <1>4. \A d \in decisions' : \E x \in comparisons' :
          x.id = d.comparison /\ x.project = d.project /\ d.nodes \subseteq x.nodes
    BY <1>1 DEF AlternativesInv
  <1>5. SelectedNeverRejected'
    BY <1>1 DEF AlternativesInv, SelectedNeverRejected
  <1>6. OneCohortPerResult'
    <2>1. \A x \in comparisons :
            x.project = c.project /\ x.nodes \cap c.nodes # {} =>
              CohortKey(x) = CohortKey(c)
      BY DEF ComparisonAdded, OverlapValid
    <2> QED
      BY <1>1, <2>1 DEF AlternativesInv, OneCohortPerResult
  <1>7. OneFuturePerCohort'
    <2> SUFFICES ASSUME NEW x \in decisions, NEW y \in decisions,
                        NEW e \in comparisons', NEW f \in comparisons',
                        x.kind = "selection", y.kind = "selection",
                        e.id = x.comparison, e.project = x.project,
                        f.id = y.comparison, f.project = y.project,
                        CohortKey(e) = CohortKey(f)
                 PROVE  x = y
      BY <1>1 DEF OneFuturePerCohort
    <2>1. e \in comparisons /\ f \in comparisons
      BY <1>1 DEF AlternativesInv
    <2> QED
      BY <2>1 DEF AlternativesInv, OneFuturePerCohort
  <1> QED
    BY <1>2, <1>3, <1>4, <1>5, <1>6, <1>7 DEF AlternativesInv

\* A validated selection is the first of its cohort.
LEMMA SelectionIsFirst ==
    ASSUME AlternativesInv, NEW d \in Decision, SelectionValid(d),
           NEW x \in decisions, x.kind = "selection",
           NEW e \in comparisons, e.id = d.comparison, e.project = d.project,
           NEW f \in comparisons, f.id = x.comparison, f.project = x.project
    PROVE  CohortKey(e) # CohortKey(f)
  <1>1. PICK c \in comparisons :
          /\ c.project = d.project /\ c.id = d.comparison
          /\ \A z \in decisions, y \in comparisons :
               /\ z.kind = "selection" /\ z.project = d.project
               /\ y.project = d.project /\ y.id = z.comparison
               => CohortKey(y) # CohortKey(c)
    BY DEF SelectionValid
  <1>2. e = c
    BY <1>1 DEF AlternativesInv
  <1>3. CASE x.project = d.project
    BY <1>1, <1>2, <1>3
  <1>4. CASE x.project # d.project
    BY <1>4 DEF CohortKey
  <1> QED
    BY <1>3, <1>4

LEMMA DecisionKeepsAlternatives ==
    ASSUME AlternativesInv, NEW d, DecisionAdded(d)
    PROVE  AlternativesInv'
  <1>1. /\ comparisons' = comparisons /\ decisions' = decisions \cup {d}
        /\ d \in Decision /\ d.kind \in {"selection", "rejection"}
    BY DEF DecisionAdded, Decision
  <1>2. comparisons' \subseteq Comparison /\ decisions' \subseteq Decision
    BY <1>1 DEF AlternativesInv
  <1>3. \E c \in comparisons :
          c.id = d.comparison /\ c.project = d.project /\ d.nodes \subseteq c.nodes
    BY DEF DecisionAdded, SelectionValid, RejectionValid
  <1>4. \A x \in decisions' : \E c \in comparisons' :
          c.id = x.comparison /\ c.project = x.project /\ x.nodes \subseteq c.nodes
    BY <1>1, <1>3 DEF AlternativesInv
  <1>5. SelectedNeverRejected'
    <2>1. CASE d.kind = "selection"
      <3>1. \A y \in decisions : y.kind = "rejection" /\ y.project = d.project
              => d.nodes \cap y.nodes = {}
        BY <2>1 DEF DecisionAdded, SelectionValid, IsRejected
      <3> QED
        BY <1>1, <2>1, <3>1 DEF AlternativesInv, SelectedNeverRejected
    <2>2. CASE d.kind = "rejection"
      <3>1. \A y \in decisions : y.kind = "selection" /\ y.project = d.project
              => d.nodes \cap y.nodes = {}
        BY <2>2 DEF DecisionAdded, RejectionValid, IsSelected
      <3> QED
        BY <1>1, <2>2, <3>1 DEF AlternativesInv, SelectedNeverRejected
    <2> QED
      BY <1>1, <2>1, <2>2
  <1>6. OneCohortPerResult'
    BY <1>1 DEF AlternativesInv, OneCohortPerResult, CohortKey
  <1>7. OneFuturePerCohort'
    <2>1. CASE d.kind = "rejection"
      BY <1>1, <2>1 DEF AlternativesInv, OneFuturePerCohort, CohortKey
    <2>2. CASE d.kind = "selection"
      <3>1. SelectionValid(d)
        BY <2>2 DEF DecisionAdded
      <3> SUFFICES ASSUME NEW x \in decisions', NEW y \in decisions',
                          NEW e \in comparisons', NEW f \in comparisons',
                          x.kind = "selection", y.kind = "selection",
                          e.id = x.comparison, e.project = x.project,
                          f.id = y.comparison, f.project = y.project,
                          CohortKey(e) = CohortKey(f)
                   PROVE  x = y
        BY DEF OneFuturePerCohort
      <3>2. CASE x \in decisions /\ y \in decisions
        BY <1>1, <3>2 DEF AlternativesInv, OneFuturePerCohort
      <3>3. CASE x = d /\ y \in decisions
        BY <1>1, <3>1, <3>3, SelectionIsFirst
      <3>4. CASE y = d /\ x \in decisions
        BY <1>1, <3>1, <3>4, SelectionIsFirst
      <3> QED
        BY <1>1, <3>2, <3>3, <3>4
    <2> QED
      BY <1>1, <2>1, <2>2
  <1>8. \A x, y \in comparisons' : x.id = y.id => x = y
    BY <1>1 DEF AlternativesInv
  <1> QED
    BY <1>2, <1>4, <1>5, <1>6, <1>7, <1>8 DEF AlternativesInv

LEMMA AlternativesInductive == AlternativesInv /\ [Next]_vars => AlternativesInv'
  <1> SUFFICES ASSUME AlternativesInv, [Next]_vars PROVE AlternativesInv'
    OBVIOUS
  <1>1. CASE UNCHANGED <<comparisons, decisions>>
    BY <1>1 DEF AlternativesInv, SelectedNeverRejected, OneCohortPerResult,
                OneFuturePerCohort, CohortKey
  <1> QED
    BY <1>1, AlternativesChange, ComparisonKeepsAlternatives,
       DecisionKeepsAlternatives

\* The invariant of comparisons and decisions.
THEOREM AlternativesInvariant == Spec => []AlternativesInv
  <1>1. Init => AlternativesInv
    BY DEF Init, AlternativesInv, SelectedNeverRejected, OneCohortPerResult,
           OneFuturePerCohort
  <1> QED
    BY <1>1, AlternativesInductive, PTL DEF Spec

\* No sequence of decisions both selects and rejects a result.
THEOREM NoResultIsSelectedAndRejected == Spec => []SelectedNeverRejected
  <1>1. AlternativesInv => SelectedNeverRejected
    BY DEF AlternativesInv
  <1> QED
    BY <1>1, AlternativesInvariant, PTL

\* A result is compared in one cohort only.
THEOREM ResultsKeepTheirCohort == Spec => []OneCohortPerResult
  <1>1. AlternativesInv => OneCohortPerResult
    BY DEF AlternativesInv
  <1> QED
    BY <1>1, AlternativesInvariant, PTL

\* A cohort has at most one selected future, whichever comparisons are cited.
THEOREM CohortsHaveOneFuture == Spec => []OneFuturePerCohort
  <1>1. AlternativesInv => OneFuturePerCohort
    BY DEF AlternativesInv
  <1> QED
    BY <1>1, AlternativesInvariant, PTL

\* A decision disposes only of results that its own Project compared.
THEOREM DecisionsCiteTheirProject == Spec => []DecisionsStayInProject
  <1>1. AlternativesInv => DecisionsStayInProject
    BY DEF AlternativesInv, DecisionsStayInProject
  <1> QED
    BY <1>1, AlternativesInvariant, PTL

-----------------------------------------------------------------------------
(* Type correctness: what a command records has the shape that             *)
(* packages/protocol decodes.  A command takes part of what it records     *)
(* from the state, so these shapes depend on each other: a Run's How comes *)
(* from a Node, a Node's Goal from a Run, a child's Project from a         *)
(* proposal.                                                               *)

LEMMA ProjectCommandTypes ==
    ASSUME TypeOK, NEW actor \in Actor, NEW p \in Project,
           ProjectCommand(actor, p)
    PROVE  TypeOK'
  <1>1. ASSUME NEW s \in Sha, NEW t \in Tree, NEW plan \in Plan,
               CreateProject(actor, p, s, t, plan)
        PROVE  TypeOK'
    <2>1. rootSha' \in [Project -> Sha \cup {None}]
      BY <1>1 DEF TypeOK, CreateProject
    <2>2. RootNode(p, s, t, plan) \in Node
      BY DEF RootNode, Node
    <2> QED
      BY <1>1, <2>1, <2>2 DEF TypeOK, CreateProject
  <1>2. CASE RebuildProjectMaterializations(actor, p)
    BY <1>2 DEF TypeOK, RebuildProjectMaterializations, vars
  <1>3. ASSUME NEW w \in ReviewId, NEW target \in ReviewTarget,
               RecordCoachReview(actor, w, p, target)
        PROVE  TypeOK'
    BY <1>3 DEF TypeOK, RecordCoachReview
  <1> QED
    BY <1>1, <1>2, <1>3 DEF ProjectCommand

\* A running Run that changes its status, or names its result, stays a Run.
LEMMA RunEnds ==
    ASSUME TypeOK, NEW r \in RunId, IsRunning(r)
    PROVE  /\ runs[r] \in Run
           /\ \A status \in {"failed", "canceled"} :
                [runs[r] EXCEPT !.status = status] \in Run
           /\ \A s \in Sha :
                [runs[r] EXCEPT !.status = "completed", !.result = s] \in Run
  <1>1. runs[r] \in Run
    BY DEF TypeOK, IsRunning
  <1> QED
    BY <1>1 DEF Run

LEMMA RunCommandTypes ==
    ASSUME TypeOK, NEW r \in RunId, RunCommand(r)
    PROVE  TypeOK'
  <1>1. ASSUME NEW p \in Project, NEW s \in Sha, NEW g \in Goal,
               StartRun(r, p, s, g)
        PROVE  TypeOK'
    <2>1. NodeAt(p, s) \in Node
      BY <1>1, NodeFound DEF TypeOK, StartRun
    <2>2. NodeAt(p, s).plan.how \in How
      BY <2>1 DEF Node, Plan
    <2>3. [project |-> p, source |-> s, goal |-> g,
           how |-> NodeAt(p, s).plan.how,
           status |-> "running", result |-> None] \in Run
      BY <2>2 DEF Run
    <2>4. runs' \in [RunId -> Run \cup {None}]
      BY <1>1, <2>3 DEF TypeOK, StartRun
    <2> QED
      BY <1>1, <2>4 DEF TypeOK, StartRun
  <1>2. ASSUME NEW k \in CheckpointId, CheckpointRun(k, r) PROVE TypeOK'
    BY <1>2 DEF TypeOK, CheckpointRun
  <1>3. ASSUME NEW e \in EvidenceId, NEW target \in Criterion \cup {None},
               AttachRunEvidence(e, r, target)
        PROVE  TypeOK'
    BY <1>3 DEF TypeOK, AttachRunEvidence
  <1>4. ASSUME NEW s \in Sha, NEW t \in Tree, NEW plan \in Plan,
               CompleteRun(r, s, t, plan)
        PROVE  TypeOK'
    <2>1. /\ runs[r] \in Run
          /\ [runs[r] EXCEPT !.status = "completed", !.result = s] \in Run
      BY <1>4, RunEnds DEF CompleteRun, ResultValid
    <2>2. runs' \in [RunId -> Run \cup {None}]
      BY <1>4, <2>1 DEF TypeOK, CompleteRun
    <2>3. RunChild(runs[r].project, s, t, plan, runs[r].source, r, runs[r].goal)
            \in Node
      BY <2>1 DEF RunChild, Node, Run
    <2> QED
      BY <1>4, <2>2, <2>3 DEF TypeOK, CompleteRun
  <1>5. CASE FailRun(r) \/ CancelRun(r)
    <2>1. runs' \in [RunId -> Run \cup {None}]
      BY <1>5, RunEnds DEF TypeOK, FailRun, CancelRun
    <2> QED
      BY <1>5, <2>1 DEF TypeOK, FailRun, CancelRun
  <1> QED
    BY <1>1, <1>2, <1>3, <1>4, <1>5 DEF RunCommand

LEMMA CoachingCommandTypes ==
    ASSUME TypeOK, NEW actor \in Actor, NEW q \in ProposalId,
           CoachingCommand(actor, q)
    PROVE  TypeOK'
  <1>1. ASSUME NEW p \in Project, NEW s \in Sha, NEW plan \in Plan,
               RecordCoachingProposal(actor, q, p, s, plan)
        PROVE  TypeOK'
    <2>1. [project |-> p, source |-> s, plan |-> plan] \in Proposal
      BY DEF Proposal
    <2>2. proposals' \in [ProposalId -> Proposal \cup {None}]
      BY <1>1, <2>1 DEF TypeOK, RecordCoachingProposal
    <2> QED
      BY <1>1, <2>2 DEF TypeOK, RecordCoachingProposal
  <1>2. ASSUME NEW d \in DecisionId, NEW s \in Sha, NEW t \in Tree,
               NEW plan \in Plan,
               ConfirmCoachingProposal(actor, q, d, s, t, plan)
        PROVE  TypeOK'
    <2>1. proposals[q] \in Proposal
      BY <1>2 DEF TypeOK, ConfirmCoachingProposal, ConfirmableProposal,
                  OpenProposal
    <2>2. CoachingChild(proposals[q].project, s, t, plan,
                        proposals[q].source, q) \in Node
      BY <2>1 DEF CoachingChild, Node, Proposal
    <2>3. [id |-> d, proposal |-> q, status |-> "confirmed", child |-> s]
            \in Disposition
      BY DEF Disposition
    <2> QED
      BY <1>2, <2>2, <2>3 DEF TypeOK, ConfirmCoachingProposal
  <1>3. ASSUME NEW d \in DecisionId, RejectCoachingProposal(actor, q, d)
        PROVE  TypeOK'
    <2>1. [id |-> d, proposal |-> q, status |-> "rejected", child |-> None]
            \in Disposition
      BY DEF Disposition
    <2> QED
      BY <1>3, <2>1 DEF TypeOK, RejectCoachingProposal
  <1> QED
    BY <1>1, <1>2, <1>3 DEF CoachingCommand

LEMMA AlternativesTypes ==
    ASSUME TypeOK, NEW x, ComparisonAdded(x) \/ DecisionAdded(x)
    PROVE  TypeOK'
  BY DEF TypeOK, ComparisonAdded, DecisionAdded

\* Every command keeps the state a ProjectState.
THEOREM ProjectStateTypes == Spec => []TypeOK
  <1>1. Init => TypeOK
    BY DEF Init, TypeOK
  <1>2. TypeOK /\ [Next]_vars => TypeOK'
    <2> SUFFICES ASSUME TypeOK, [Next]_vars PROVE TypeOK'
      OBVIOUS
    <2>1. CASE UNCHANGED vars
      BY <2>1 DEF TypeOK, vars
    <2> QED
      BY <2>1, ProjectCommandTypes, RunCommandTypes, CoachingCommandTypes,
         CompareAdds, DecideAdds, AlternativesTypes
         DEF Next
  <1> QED
    BY <1>1, <1>2, PTL DEF Spec

-----------------------------------------------------------------------------
(***************************************************************************)
(* Runs, Nodes and Coaching dispositions tell one story, and the Nodes of  *)
(* a Project form one tree.                                                *)
(*                                                                         *)
(* A tree is easily broken by a Node that is its own ancestor through      *)
(* commits registered in an unlucky order.  It cannot happen because a new *)
(* Node's commit is not registered yet, while its parent is: no registered *)
(* Node can already point at the new one.                                  *)
(***************************************************************************)

-----------------------------------------------------------------------------
(* How Nodes, Runs, evidence and dispositions may change *)

\* The first Node of a Project, its declared root.
RootAdded(n) ==
    /\ n \in Node /\ n.kind = "root"
    /\ rootSha[n.project] = None
    /\ rootSha' = [rootSha EXCEPT ![n.project] = n.sha]
    /\ nodes' = nodes \cup {n}
    /\ UNCHANGED <<runs, evidence, proposals, dispositions>>

\* A Run's result: the Run ends with it in the same step.
ResultAdded(r, n) ==
    /\ r \in RunId /\ n \in Node
    /\ n.kind = "run_child" /\ n.origin = r
    /\ IsRunning(r) /\ ResultValid(r, n.sha)
    /\ n.project = runs[r].project /\ n.parent = runs[r].source
    /\ n.goal = runs[r].goal
    /\ runs' = [runs EXCEPT ![r] = [@ EXCEPT !.status = "completed",
                                             !.result = n.sha]]
    /\ NewNodeValid(rootSha, n)
    /\ nodes' = nodes \cup {n}
    /\ UNCHANGED <<rootSha, evidence, proposals, dispositions>>

\* A Coaching child: the disposition that names it is recorded with it.
ChildAdded(q, n) ==
    /\ q \in ProposalId /\ n \in Node
    /\ n.kind = "coaching_child" /\ n.origin = q
    /\ ConfirmableProposal(q) /\ CoachingChildValid(q, n)
    /\ \E x \in Disposition :
         /\ x.proposal = q /\ x.status = "confirmed" /\ x.child = n.sha
         /\ dispositions' = dispositions \cup {x}
    /\ nodes' = nodes \cup {n}
    /\ UNCHANGED <<rootSha, runs, evidence, proposals>>

\* Everything else leaves the Nodes alone: a Run starts or ends without a
\* result, evidence or a proposal is added, or a proposal is rejected.
NoNodeAdded ==
    /\ UNCHANGED <<rootSha, nodes>>
    /\ \/ UNCHANGED <<runs, evidence, proposals, dispositions>>
       \/ \E r \in RunId :
            /\ runs[r] = None
            /\ runs'[r] \in Run /\ runs'[r].status = "running"
            /\ \A u \in RunId \ {r} : runs'[u] = runs[u]
            /\ UNCHANGED <<evidence, proposals, dispositions>>
       \/ \E r \in RunId :
            /\ IsRunning(r)
            /\ runs'[r] \in Run /\ runs'[r].status \in {"failed", "canceled"}
            /\ \A u \in RunId \ {r} : runs'[u] = runs[u]
            /\ UNCHANGED <<evidence, proposals, dispositions>>
       \/ \E e : /\ evidence' = evidence \cup {e}
                 /\ IsRunning(e.run)
                 /\ UNCHANGED <<runs, proposals, dispositions>>
       \/ \E q \in ProposalId :
            /\ proposals[q] = None
            /\ proposals'[q] \in Proposal
            /\ \A u \in ProposalId \ {q} : proposals'[u] = proposals[u]
            /\ UNCHANGED <<runs, evidence, dispositions>>
       \/ \E x \in Disposition :
            /\ x.status = "rejected" /\ OpenProposal(x.proposal)
            /\ dispositions' = dispositions \cup {x}
            /\ UNCHANGED <<runs, evidence, proposals>>

Changes ==
    \/ \E n : RootAdded(n)
    \/ \E r, n : ResultAdded(r, n)
    \/ \E q, n : ChildAdded(q, n)
    \/ NoNodeAdded

LEMMA ProjectCommandChanges ==
    ASSUME TypeOK, NEW actor \in Actor, NEW p \in Project,
           ProjectCommand(actor, p)
    PROVE  Changes
  <1>1. ASSUME NEW s \in Sha, NEW t \in Tree, NEW plan \in Plan,
               CreateProject(actor, p, s, t, plan)
        PROVE  Changes
    <2> DEFINE n == RootNode(p, s, t, plan)
    <2>1. n \in Node /\ n.kind = "root" /\ n.project = p /\ n.sha = s
      BY DEF RootNode, Node
    <2>2. RootAdded(n)
      <3> HIDE DEF n
      <3>1. nodes' = nodes \cup {n}
        BY <1>1 DEF CreateProject, n
      <3> QED
        BY <1>1, <2>1, <3>1 DEF RootAdded, CreateProject
    <2> QED
      BY <2>2 DEF Changes
  <1>2. CASE RebuildProjectMaterializations(actor, p)
    BY <1>2 DEF RebuildProjectMaterializations, vars, Changes, NoNodeAdded
  <1>3. ASSUME NEW w \in ReviewId, NEW target \in ReviewTarget,
               RecordCoachReview(actor, w, p, target)
        PROVE  Changes
    BY <1>3 DEF RecordCoachReview, Changes, NoNodeAdded
  <1> QED
    BY <1>1, <1>2, <1>3 DEF ProjectCommand

LEMMA RunCommandChanges ==
    ASSUME TypeOK, TypeOK', NEW r \in RunId, RunCommand(r)
    PROVE  Changes
  <1>1. ASSUME NEW p \in Project, NEW s \in Sha, NEW g \in Goal,
               StartRun(r, p, s, g)
        PROVE  Changes
    <2>1. /\ runs'[r] \in Run
          /\ runs'[r].status = "running"
          /\ \A u \in RunId \ {r} : runs'[u] = runs[u]
      <3>1. NodeAt(p, s) \in Node
        BY <1>1, NodeFound DEF TypeOK, StartRun
      <3>2. NodeAt(p, s).plan.how \in How
        BY <3>1 DEF Node, Plan
      <3>3. [project |-> p, source |-> s, goal |-> g,
             how |-> NodeAt(p, s).plan.how,
             status |-> "running", result |-> None] \in Run
        BY <3>2 DEF Run
      <3> QED
        BY <1>1, <3>3 DEF TypeOK, StartRun
    <2> QED
      BY <1>1, <2>1 DEF Changes, NoNodeAdded, StartRun
  <1>2. ASSUME NEW k \in CheckpointId, CheckpointRun(k, r) PROVE Changes
    BY <1>2 DEF CheckpointRun, Changes, NoNodeAdded
  <1>3. ASSUME NEW e \in EvidenceId, NEW target \in Criterion \cup {None},
               AttachRunEvidence(e, r, target)
        PROVE  Changes
    BY <1>3 DEF AttachRunEvidence, Changes, NoNodeAdded
  <1>4. ASSUME NEW s \in Sha, NEW t \in Tree, NEW plan \in Plan,
               CompleteRun(r, s, t, plan)
        PROVE  Changes
    <2> DEFINE n == RunChild(runs[r].project, s, t, plan, runs[r].source, r,
                             runs[r].goal)
    <2>1. runs[r] \in Run /\ IsRunning(r)
      BY <1>4, RunEnds DEF CompleteRun, ResultValid
    <2>2. /\ n \in Node /\ n.kind = "run_child" /\ n.origin = r /\ n.sha = s
          /\ n.project = runs[r].project /\ n.parent = runs[r].source
          /\ n.goal = runs[r].goal
      BY <2>1 DEF RunChild, Node, Run
    <2>3. nodes' = nodes \cup {n} /\ RunChildValid(r, runs[r], n)
      BY <1>4 DEF CompleteRun
    <2> HIDE DEF n
    <2>4. ResultAdded(r, n)
      BY <1>4, <2>1, <2>2, <2>3 DEF CompleteRun, ResultAdded, RunChildValid
    <2> QED
      BY <2>4 DEF Changes
  <1>5. CASE FailRun(r) \/ CancelRun(r)
    <2>1. /\ runs'[r] \in Run /\ runs'[r].status \in {"failed", "canceled"}
          /\ \A u \in RunId \ {r} : runs'[u] = runs[u]
      <3>1. runs[r] \in Run
        BY <1>5, RunEnds DEF FailRun, CancelRun
      <3>2. \A status : [runs[r] EXCEPT !.status = status].status = status
        BY <3>1 DEF Run
      <3> QED
        BY <1>5, <3>1, <3>2, RunEnds DEF TypeOK, FailRun, CancelRun
    <2> QED
      BY <1>5, <2>1 DEF FailRun, CancelRun, Changes, NoNodeAdded
  <1> QED
    BY <1>1, <1>2, <1>3, <1>4, <1>5 DEF RunCommand

LEMMA CoachingCommandChanges ==
    ASSUME TypeOK, NEW actor \in Actor, NEW q \in ProposalId,
           CoachingCommand(actor, q)
    PROVE  Changes
  <1>1. ASSUME NEW p \in Project, NEW s \in Sha, NEW plan \in Plan,
               RecordCoachingProposal(actor, q, p, s, plan)
        PROVE  Changes
    <2>1. proposals'[q] \in Proposal
          /\ \A u \in ProposalId \ {q} : proposals'[u] = proposals[u]
      <3>1. [project |-> p, source |-> s, plan |-> plan] \in Proposal
        BY DEF Proposal
      <3> QED
        BY <1>1, <3>1 DEF TypeOK, RecordCoachingProposal
    <2> QED
      BY <1>1, <2>1 DEF Changes, NoNodeAdded, RecordCoachingProposal
  <1>2. ASSUME NEW d \in DecisionId, NEW s \in Sha, NEW t \in Tree,
               NEW plan \in Plan,
               ConfirmCoachingProposal(actor, q, d, s, t, plan)
        PROVE  Changes
    <2> DEFINE n == CoachingChild(proposals[q].project, s, t, plan,
                                  proposals[q].source, q)
               x == [id |-> d, proposal |-> q, status |-> "confirmed",
                     child |-> s]
    <2>1. proposals[q] \in Proposal
      BY <1>2 DEF TypeOK, ConfirmCoachingProposal, ConfirmableProposal,
                  OpenProposal
    <2>2. /\ n \in Node /\ n.kind = "coaching_child" /\ n.origin = q
          /\ n.sha = s
      BY <2>1 DEF CoachingChild, Node, Proposal
    <2>3. nodes' = nodes \cup {n} /\ CoachingChildValid(q, n)
      BY <1>2 DEF ConfirmCoachingProposal
    <2>4. /\ x \in Disposition /\ x.proposal = q /\ x.status = "confirmed"
          /\ x.child = s
      BY DEF Disposition
    <2>5. dispositions' = dispositions \cup {x}
      BY <1>2 DEF ConfirmCoachingProposal
    <2> HIDE DEF n, x
    <2>6. ChildAdded(q, n)
      BY <1>2, <2>2, <2>3, <2>4, <2>5 DEF ConfirmCoachingProposal, ChildAdded
    <2> QED
      BY <2>6 DEF Changes
  <1>3. ASSUME NEW d \in DecisionId, RejectCoachingProposal(actor, q, d)
        PROVE  Changes
    <2> DEFINE x == [id |-> d, proposal |-> q, status |-> "rejected",
                     child |-> None]
    <2>1. x \in Disposition /\ x.status = "rejected" /\ x.proposal = q
      BY DEF Disposition
    <2>2. dispositions' = dispositions \cup {x}
      BY <1>3 DEF RejectCoachingProposal
    <2> HIDE DEF x
    <2>3. NoNodeAdded
      BY <1>3, <2>1, <2>2 DEF RejectCoachingProposal, NoNodeAdded
    <2> QED
      BY <2>3 DEF Changes
  <1> QED
    BY <1>1, <1>2, <1>3 DEF CoachingCommand

LEMMA EveryStepChanges ==
    ASSUME TypeOK, TypeOK', [Next]_vars
    PROVE  Changes
  <1>1. CASE UNCHANGED vars
    BY <1>1 DEF vars, Changes, NoNodeAdded
  <1>2. ASSUME NEW x, ComparisonAdded(x) \/ DecisionAdded(x) PROVE Changes
    BY <1>2 DEF ComparisonAdded, DecisionAdded, Changes, NoNodeAdded
  <1> QED
    BY <1>1, <1>2, ProjectCommandChanges, RunCommandChanges,
       CoachingCommandChanges, CompareAdds, DecideAdds
       DEF Next

-----------------------------------------------------------------------------
(* The invariant *)

TreeInv ==
    /\ TypeOK
    /\ NodeGraphValid
    /\ ResultsMatchRuns
    /\ CompletedRunsCovered
    /\ CoachingMatchesDispositions

\* A new Node below a registered one closes no cycle.
LEMMA AddingKeepsAcyclic ==
    ASSUME NodeGraphValid, NEW n, ~HasNode(n.project, n.sha),
           nodes' = nodes \cup {n},
           n.kind = "root" \/ n.parent # n.sha
    PROVE  NoCycle'
  <1> SUFFICES ASSUME NEW S \in SUBSET (nodes \cup {n}), S # {}
               PROVE  \E m \in S :
                        \/ m.kind = "root"
                        \/ \A k \in S : k.project = m.project => k.sha # m.parent
    BY DEF NoCycle
  <1>1. CASE S \ {n} = {}
    BY <1>1
  <1>2. CASE S \ {n} # {}
    <2>1. S \ {n} \in SUBSET nodes
      OBVIOUS
    <2>2. PICK m \in S \ {n} :
            \/ m.kind = "root"
            \/ \A k \in S \ {n} : k.project = m.project => k.sha # m.parent
      BY <1>2, <2>1 DEF NodeGraphValid, NoCycle
    <2>3. m.kind # "root" => ~(n.project = m.project /\ n.sha = m.parent)
      BY DEF NodeGraphValid, ParentsRegistered
    <2> QED
      BY <2>2, <2>3
  <1> QED
    BY <1>1, <1>2

LEMMA RootKeepsTree ==
    ASSUME TreeInv, TypeOK', NEW n, RootAdded(n)
    PROVE  TreeInv'
  <1>1. /\ nodes' = nodes \cup {n} /\ n.kind = "root" /\ n \in Node
        /\ n.project \in Project /\ n.sha \in Sha
    BY DEF RootAdded, Node
  <1>2. \A m \in nodes : m.project # n.project
    BY DEF RootAdded, TreeInv, NodeGraphValid, RootsDeclared
  <1>3. ~HasNode(n.project, n.sha)
    BY <1>2 DEF HasNode
  <1>4. NoCycle'
    BY <1>1, <1>3, AddingKeepsAcyclic DEF TreeInv
  <1>5. NodesUnique'
    BY <1>1, <1>2 DEF TreeInv, NodeGraphValid, NodesUnique
  <1>6. /\ rootSha'[n.project] = n.sha /\ n.sha # None
        /\ \A p \in Project \ {n.project} : rootSha'[p] = rootSha[p]
        /\ \A m \in nodes : m.project \in Project
    BY <1>1, NoneIsFresh DEF RootAdded, TreeInv, TypeOK, Node
  <1>7. RootsDeclared'
    BY <1>1, <1>2, <1>6 DEF TreeInv, NodeGraphValid, RootsDeclared
  <1>8. ParentsRegistered'
    BY <1>1 DEF TreeInv, NodeGraphValid, ParentsRegistered, HasNode
  <1>9. ResultsMatchRuns'
    BY <1>1 DEF TreeInv, ResultsMatchRuns, RootAdded
  <1>10. CompletedRunsCovered' /\ CoachingMatchesDispositions'
    BY <1>1 DEF TreeInv, CompletedRunsCovered, Covered,
                CoachingMatchesDispositions, RootAdded
  <1> QED
    BY <1>4, <1>5, <1>7, <1>8, <1>9, <1>10 DEF TreeInv, NodeGraphValid

\* A Node below a registered one, of either kind, keeps the tree.
LEMMA ChildKeepsGraph ==
    ASSUME TreeInv, NEW n \in Node, n.kind # "root",
           NewNodeValid(rootSha, n),
           nodes' = nodes \cup {n}, rootSha' = rootSha
    PROVE  NodeGraphValid'
  <1>1. /\ rootSha[n.project] # None /\ ~HasNode(n.project, n.sha)
        /\ n.parent # n.sha /\ HasNode(n.project, n.parent)
    BY DEF NewNodeValid
  <1>2. NoCycle'
    BY <1>1, AddingKeepsAcyclic DEF TreeInv
  <1>3. NodesUnique'
    BY <1>1 DEF TreeInv, NodeGraphValid, NodesUnique, HasNode
  <1>4. RootsDeclared'
    BY <1>1 DEF TreeInv, NodeGraphValid, RootsDeclared
  <1>5. ParentsRegistered'
    BY <1>1 DEF TreeInv, NodeGraphValid, ParentsRegistered, HasNode
  <1> QED
    BY <1>2, <1>3, <1>4, <1>5 DEF NodeGraphValid

LEMMA ResultKeepsTree ==
    ASSUME TreeInv, TypeOK', NEW r, NEW n, ResultAdded(r, n)
    PROVE  TreeInv'
  <1>1. /\ r \in RunId /\ n \in Node /\ n.kind = "run_child" /\ n.origin = r
        /\ nodes' = nodes \cup {n} /\ runs[r].status = "running"
        /\ n.project = runs[r].project /\ n.parent = runs[r].source
        /\ n.goal = runs[r].goal /\ runs[r] \in Run
    BY RunEnds DEF ResultAdded, IsRunning, TreeInv
  <1>2. NodeGraphValid'
    BY <1>1, ChildKeepsGraph DEF ResultAdded
  <1>3. /\ runs'[r].status = "completed" /\ runs'[r].result = n.sha
        /\ runs'[r].project = runs[r].project
        /\ runs'[r].source = runs[r].source /\ runs'[r].goal = runs[r].goal
        /\ \A u \in RunId \ {r} : runs'[u] = runs[u]
    <2>1. runs'[r] = [runs[r] EXCEPT !.status = "completed", !.result = n.sha]
          /\ \A u \in RunId \ {r} : runs'[u] = runs[u]
      BY DEF ResultAdded, TreeInv, TypeOK
    <2> QED
      BY <1>1, <2>1 DEF Run
  <1>4. runs'[r] # None
    <2>1. [runs[r] EXCEPT !.status = "completed", !.result = n.sha] \in Run
      BY <1>1, RunEnds DEF ResultAdded, TreeInv, Node
    <2> QED
      BY <1>1, <2>1, NoneIsNoRecord DEF ResultAdded, TreeInv, TypeOK
  <1>5. ResultsMatchRuns'
    BY <1>1, <1>3, <1>4 DEF TreeInv, ResultsMatchRuns
  <1>6. CompletedRunsCovered'
    BY <1>1, <1>3 DEF TreeInv, CompletedRunsCovered, Covered, ResultAdded,
                      ResultValid
  <1>7. CoachingMatchesDispositions'
    BY <1>1 DEF TreeInv, CoachingMatchesDispositions, ResultAdded
  <1> QED
    BY <1>2, <1>5, <1>6, <1>7 DEF TreeInv

LEMMA ChildKeepsTree ==
    ASSUME TreeInv, TypeOK', NEW q, NEW n, ChildAdded(q, n)
    PROVE  TreeInv'
  <1>1. /\ q \in ProposalId /\ n \in Node /\ n.kind = "coaching_child"
        /\ n.origin = q /\ nodes' = nodes \cup {n}
        /\ n.project = proposals[q].project /\ n.parent = proposals[q].source
        /\ proposals[q] # None /\ \A x \in dispositions : x.proposal # q
    BY DEF ChildAdded, CoachingChildValid, ConfirmableProposal, OpenProposal,
           HasDisposition
  <1>2. NodeGraphValid'
    BY <1>1, ChildKeepsGraph DEF ChildAdded, CoachingChildValid
  <1>3. ResultsMatchRuns' /\ CompletedRunsCovered'
    BY <1>1 DEF TreeInv, ResultsMatchRuns, CompletedRunsCovered, Covered,
                ChildAdded
  <1>4. PICK x \in Disposition :
          /\ x.proposal = q /\ x.status = "confirmed" /\ x.child = n.sha
          /\ dispositions' = dispositions \cup {x}
    BY DEF ChildAdded
  <1>5. CoachingMatchesDispositions'
    BY <1>1, <1>4 DEF TreeInv, CoachingMatchesDispositions, ChildAdded
  <1> QED
    BY <1>2, <1>3, <1>5 DEF TreeInv

LEMMA NoNodeKeepsTree ==
    ASSUME TreeInv, TypeOK', NoNodeAdded
    PROVE  TreeInv'
  <1>1. NodeGraphValid'
    BY DEF NoNodeAdded, TreeInv, NodeGraphValid, NodesUnique, RootsDeclared,
           ParentsRegistered, HasNode, NoCycle
  <1>2. nodes' = nodes
    BY DEF NoNodeAdded
  <1>3. CASE UNCHANGED <<runs, evidence, proposals, dispositions>>
    BY <1>1, <1>2, <1>3 DEF TreeInv, ResultsMatchRuns, CompletedRunsCovered,
                            Covered, CoachingMatchesDispositions
  <1>4. ASSUME NEW r \in RunId, runs[r] = None \/ IsRunning(r),
               runs'[r] \in Run, runs'[r].status # "completed",
               \A u \in RunId \ {r} : runs'[u] = runs[u],
               UNCHANGED <<evidence, proposals, dispositions>>
        PROVE  TreeInv'
    <2>1. \A n \in nodes : n.kind = "run_child" => n.origin # r
      BY <1>4 DEF TreeInv, ResultsMatchRuns, IsRunning
    <2>2. ResultsMatchRuns' /\ CompletedRunsCovered'
      BY <1>2, <1>4, <2>1 DEF TreeInv, ResultsMatchRuns, CompletedRunsCovered,
                              Covered
    <2>3. CoachingMatchesDispositions'
      BY <1>2, <1>4 DEF TreeInv, CoachingMatchesDispositions
    <2> QED
      BY <1>1, <2>2, <2>3 DEF TreeInv
  <1>5. ASSUME NEW e, evidence' = evidence \cup {e},
               UNCHANGED <<runs, proposals, dispositions>>
        PROVE  TreeInv'
    <2>1. \A r : Covered(r) \subseteq Covered(r)'
      BY <1>5 DEF Covered
    <2> QED
      BY <1>1, <1>2, <1>5, <2>1 DEF TreeInv, ResultsMatchRuns,
           CompletedRunsCovered, CoachingMatchesDispositions
  <1>6. ASSUME NEW q \in ProposalId, proposals[q] = None,
               proposals'[q] \in Proposal,
               \A u \in ProposalId \ {q} : proposals'[u] = proposals[u],
               UNCHANGED <<runs, evidence, dispositions>>
        PROVE  TreeInv'
    <2>1. \A x \in dispositions : x.proposal \in ProposalId /\ x.proposal # q
      BY <1>6 DEF TreeInv, CoachingMatchesDispositions, TypeOK, Disposition
    <2>2. CoachingMatchesDispositions'
      BY <1>2, <1>6, <2>1 DEF TreeInv, CoachingMatchesDispositions
    <2> QED
      BY <1>1, <1>2, <1>6, <2>2 DEF TreeInv, ResultsMatchRuns,
           CompletedRunsCovered, Covered
  <1>7. ASSUME NEW x \in Disposition, x.status = "rejected",
               OpenProposal(x.proposal),
               dispositions' = dispositions \cup {x},
               UNCHANGED <<runs, evidence, proposals>>
        PROVE  TreeInv'
    <2>1. \A y \in dispositions : y.proposal # x.proposal
      BY <1>7 DEF OpenProposal, HasDisposition
    <2>2. CoachingMatchesDispositions'
      BY <1>2, <1>7, <2>1 DEF TreeInv, CoachingMatchesDispositions,
                              OpenProposal
    <2> QED
      BY <1>1, <1>2, <1>7, <2>2 DEF TreeInv, ResultsMatchRuns,
           CompletedRunsCovered, Covered
  <1> QED
    BY <1>3, <1>4, <1>5, <1>6, <1>7 DEF NoNodeAdded

LEMMA TreeInductive == TreeInv /\ TypeOK' /\ [Next]_vars => TreeInv'
  <1> SUFFICES ASSUME TreeInv, TypeOK', [Next]_vars PROVE TreeInv'
    OBVIOUS
  <1>1. Changes
    BY EveryStepChanges DEF TreeInv
  <1> QED
    BY <1>1, RootKeepsTree, ResultKeepsTree, ChildKeepsTree, NoNodeKeepsTree
       DEF Changes

\* Nodes, Runs, evidence and dispositions stay consistent.
THEOREM TreeInvariant == Spec => []TreeInv
  <1>1. Init => TreeInv
    <2> SUFFICES ASSUME Init PROVE TreeInv
      OBVIOUS
    <2>1. TypeOK
      BY DEF Init, TypeOK
    <2> QED
      BY <2>1 DEF Init, TreeInv, NodeGraphValid, NodesUnique, RootsDeclared,
                  ParentsRegistered, NoCycle, ResultsMatchRuns,
                  CompletedRunsCovered, CoachingMatchesDispositions
  <1> QED
    BY <1>1, TreeInductive, ProjectStateTypes, PTL DEF Spec

\* The Nodes of every Project form one tree under its declared root.
THEOREM ProjectsAreTrees == Spec => []NodeGraphValid
  <1>1. TreeInv => NodeGraphValid
    BY DEF TreeInv
  <1> QED
    BY <1>1, TreeInvariant, PTL

\* Completed Runs and result Nodes are the same facts.
THEOREM ResultsAreRuns == Spec => []ResultsMatchRuns
  <1>1. TreeInv => ResultsMatchRuns
    BY DEF TreeInv
  <1> QED
    BY <1>1, TreeInvariant, PTL

\* A completed Run's own evidence covers its whole Goal, for ever.
THEOREM CompletionsAreCovered == Spec => []CompletedRunsCovered
  <1>1. TreeInv => CompletedRunsCovered
    BY DEF TreeInv
  <1> QED
    BY <1>1, TreeInvariant, PTL

\* A Coaching child exists exactly when its proposal was confirmed.
THEOREM CoachingIsDisposed == Spec => []CoachingMatchesDispositions
  <1>1. TreeInv => CoachingMatchesDispositions
    BY DEF TreeInv
  <1> QED
    BY <1>1, TreeInvariant, PTL

-----------------------------------------------------------------------------
(* Experiments *)

\* Every result of an experiment is a registered result Node.
ExperimentInv ==
    \A c \in comparisons : c.kind = "coached_how_experiment" =>
        \A s \in c.nodes :
            HasNode(c.project, s) /\ NodeAt(c.project, s).kind = "run_child"

\* The source of a result's Run is the parent of its Node.
LEMMA SourceIsParent ==
    ASSUME TreeInv, NEW p, NEW s, HasNode(p, s), NodeAt(p, s).kind = "run_child"
    PROVE  /\ SourceOf(p, s) = NodeAt(p, NodeAt(p, s).parent)
           /\ HasNode(p, NodeAt(p, s).parent)
  <1>1. NodeAt(p, s) \in nodes /\ NodeAt(p, s).project = p
    BY NodeFound
  <1>2. runs[NodeAt(p, s).origin].source = NodeAt(p, s).parent
    BY <1>1 DEF TreeInv, ResultsMatchRuns
  <1>3. HasNode(p, NodeAt(p, s).parent)
    BY <1>1 DEF TreeInv, NodeGraphValid, ParentsRegistered
  <1> QED
    BY <1>2, <1>3 DEF SourceOf

\* A Node keeps what was registered for it.
LEMMA NodesStay ==
    ASSUME TreeInv, TreeInv', Changes, NEW p, NEW s, HasNode(p, s)
    PROVE  HasNode(p, s)' /\ NodeAt(p, s)' = NodeAt(p, s)
  <1>1. nodes \subseteq nodes'
    BY DEF Changes, RootAdded, ResultAdded, ChildAdded, NoNodeAdded
  <1>2. NodeAt(p, s) \in nodes' /\ HasNode(p, s)'
    BY <1>1, NodeFound DEF HasNode
  <1>3. NodeAt(p, s)' \in nodes' /\ NodeAt(p, s)'.project = p
        /\ NodeAt(p, s)'.sha = s
    BY <1>2 DEF HasNode, NodeAt
  <1> QED
    BY <1>2, <1>3, NodeFound DEF TreeInv, NodeGraphValid, NodesUnique

\* So does the source of a result.
LEMMA SourcesStay ==
    ASSUME TreeInv, TreeInv', Changes, NEW p, NEW s,
           HasNode(p, s), NodeAt(p, s).kind = "run_child"
    PROVE  /\ HasNode(p, s)' /\ NodeAt(p, s)' = NodeAt(p, s)
           /\ SourceOf(p, s)' = SourceOf(p, s)
  <1> DEFINE n == NodeAt(p, s)
  <1>1. HasNode(p, s)' /\ n' = n
    BY NodesStay
  <1>2. SourceOf(p, s) = NodeAt(p, n.parent) /\ HasNode(p, n.parent)
    BY SourceIsParent
  <1>3. n' \in nodes' /\ n'.project = p
    BY <1>1 DEF HasNode, NodeAt
  <1>4. runs'[n'.origin].source = n'.parent
    BY <1>1, <1>3 DEF TreeInv, ResultsMatchRuns
  <1>5. \A t : HasNode(p, t) => NodeAt(p, t)' = NodeAt(p, t)
    BY NodesStay
  <1>6. SourceOf(p, s)' = (CHOOSE m \in nodes' :
                              m.project = p /\ m.sha = n.parent)
    BY <1>1, <1>4 DEF SourceOf, NodeAt
  <1>7. NodeAt(p, n.parent)' = NodeAt(p, n.parent)
    BY <1>2, NodesStay
  <1> QED
    BY <1>1, <1>2, <1>6, <1>7 DEF NodeAt

\* What buildComparison checks of an experiment is that it compares like with
\* like: every source is the anchor, or on the anchor's tree.
LEMMA NewExperimentIsFair ==
    ASSUME TreeInv, NEW c, ComparisonAdded(c),
           c.kind = "coached_how_experiment"
    PROVE  /\ \A s \in c.nodes : /\ HasNode(c.project, s)
                                 /\ NodeAt(c.project, s).kind = "run_child"
           /\ \A s, u \in c.nodes : s # u =>
                /\ SourceOf(c.project, s) # SourceOf(c.project, u)
                /\ SourceOf(c.project, s).tree = SourceOf(c.project, u).tree
                /\ SourceOf(c.project, s).plan.goals
                     = SourceOf(c.project, u).plan.goals
                /\ NodeAt(c.project, s).goal = NodeAt(c.project, u).goal
  <1> DEFINE a == NodeAt(c.project, c.anchor)
  <1>1. ExperimentValid(c.project, c.anchor, c.goal, c.nodes)
    BY DEF ComparisonAdded
  <1>2. \A s \in c.nodes : /\ HasNode(c.project, s)
                           /\ NodeAt(c.project, s).kind = "run_child"
    BY DEF ComparisonAdded, CandidatesValid, CandidateValid
  <1>3. ASSUME NEW s \in c.nodes
        PROVE  /\ SourceOf(c.project, s).tree = a.tree
               /\ SourceOf(c.project, s).plan.goals = a.plan.goals
    <2> DEFINE source == SourceOf(c.project, s)
    <2>1. ExperimentSourceValid(c.project, c.anchor, source)
      BY <1>1 DEF ExperimentValid
    <2>2. source = NodeAt(c.project, NodeAt(c.project, s).parent)
          /\ HasNode(c.project, NodeAt(c.project, s).parent)
      BY <1>2, SourceIsParent
    <2>3. source.sha = NodeAt(c.project, s).parent
      BY <2>2, NodeFound
    <2>4. source.sha = c.anchor => source = a
      BY <2>2, <2>3
    <2> QED
      BY <2>1, <2>4 DEF ExperimentSourceValid
  <1>4. \A s, u \in c.nodes : s # u =>
          /\ SourceOf(c.project, s).sha # SourceOf(c.project, u).sha
          /\ NodeAt(c.project, s).goal = NodeAt(c.project, u).goal
    BY <1>1 DEF ExperimentValid
  <1> QED
    BY <1>2, <1>3, <1>4

LEMMA ExperimentsInductive ==
    ASSUME TreeInv, TreeInv', [Next]_vars,
           ExperimentInv, ExperimentsCompareLikeWithLike
    PROVE  ExperimentInv' /\ ExperimentsCompareLikeWithLike'
  <1>1. Changes
    BY EveryStepChanges DEF TreeInv
  <1>2. ASSUME NEW c \in comparisons', c.kind = "coached_how_experiment"
        PROVE  /\ \A s \in c.nodes : /\ HasNode(c.project, s)
                                     /\ NodeAt(c.project, s).kind = "run_child"
               /\ \A s, u \in c.nodes : s # u =>
                    /\ SourceOf(c.project, s) # SourceOf(c.project, u)
                    /\ SourceOf(c.project, s).tree
                         = SourceOf(c.project, u).tree
                    /\ SourceOf(c.project, s).plan.goals
                         = SourceOf(c.project, u).plan.goals
                    /\ NodeAt(c.project, s).goal = NodeAt(c.project, u).goal
    <2>1. CASE c \in comparisons
      BY <1>2, <2>1 DEF ExperimentInv, ExperimentsCompareLikeWithLike
    <2>2. CASE c \notin comparisons
      <3>1. ComparisonAdded(c)
        BY <2>2, AlternativesChange DEF ComparisonAdded, DecisionAdded
      <3> QED
        BY <1>2, <3>1, NewExperimentIsFair
    <2> QED
      BY <2>1, <2>2
  <1>3. ASSUME NEW c \in comparisons', c.kind = "coached_how_experiment",
               NEW s \in c.nodes
        PROVE  /\ HasNode(c.project, s)'
               /\ NodeAt(c.project, s)' = NodeAt(c.project, s)
               /\ SourceOf(c.project, s)' = SourceOf(c.project, s)
    BY <1>1, <1>2, <1>3, SourcesStay
  <1>4. ExperimentInv'
    BY <1>2, <1>3 DEF ExperimentInv
  <1>5. ExperimentsCompareLikeWithLike'
    <2> SUFFICES ASSUME NEW c \in comparisons',
                        c.kind = "coached_how_experiment",
                        NEW s \in c.nodes, NEW u \in c.nodes, s # u
                 PROVE  /\ SourceOf(c.project, s)' # SourceOf(c.project, u)'
                        /\ SourceOf(c.project, s)'.tree
                             = SourceOf(c.project, u)'.tree
                        /\ SourceOf(c.project, s)'.plan.goals
                             = SourceOf(c.project, u)'.plan.goals
                        /\ NodeAt(c.project, s)'.goal
                             = NodeAt(c.project, u)'.goal
      BY DEF ExperimentsCompareLikeWithLike
    <2> QED
      BY <1>2, <1>3
  <1> QED
    BY <1>4, <1>5

\* A recorded coached-How experiment compares like with like, for ever: its
\* results came from distinct sources on one tree that offered the same Goals.
THEOREM ExperimentsAreFair == Spec => []ExperimentsCompareLikeWithLike
  <1>1. Init => ExperimentInv /\ ExperimentsCompareLikeWithLike
    BY DEF Init, ExperimentInv, ExperimentsCompareLikeWithLike
  <1> QED
    BY <1>1, TreeInvariant, ExperimentsInductive, PTL DEF Spec

-----------------------------------------------------------------------------
(* What a step may never do *)

\* The commands that no Run issues leave Runs and what is recorded against
\* them alone.
LEMMA OthersKeepRuns ==
    ASSUME [Next]_vars, \A r \in RunId : ~RunCommand(r)
    PROVE  UNCHANGED <<runs, checkpoints, evidence>>
  <1>1. CASE UNCHANGED vars
    BY <1>1 DEF vars
  <1>2. \A actor, p : ProjectCommand(actor, p) =>
          UNCHANGED <<runs, checkpoints, evidence>>
    BY DEF ProjectCommand, CreateProject, RebuildProjectMaterializations,
           RecordCoachReview, vars
  <1>3. \A actor, q : CoachingCommand(actor, q) =>
          UNCHANGED <<runs, checkpoints, evidence>>
    BY DEF CoachingCommand, RecordCoachingProposal, ConfirmCoachingProposal,
           RejectCoachingProposal
  <1>4. \A p, c : ComparisonCommand(p, c) =>
          UNCHANGED <<runs, checkpoints, evidence>>
    BY DEF ComparisonCommand, CompareSiblingRuns, CompareCoachedHow
  <1>5. \A actor, p, c : DecisionCommand(actor, p, c) =>
          UNCHANGED <<runs, checkpoints, evidence>>
    BY DEF DecisionCommand, SelectAlternative, RejectAlternatives
  <1> QED
    BY <1>1, <1>2, <1>3, <1>4, <1>5 DEF Next

\* A Run's command changes that Run only, records against that Run only, and
\* is accepted only for a Run that does not exist yet or is running.
LEMMA RunCommandIsLocal ==
    ASSUME TypeOK, NEW u \in RunId, RunCommand(u)
    PROVE  /\ runs[u] = None \/ IsRunning(u)
           /\ \A r \in RunId \ {u} : runs'[r] = runs[r]
           /\ \A e \in evidence' \ evidence : e.run = u
           /\ \A k \in checkpoints' \ checkpoints : k.run = u
  <1>1. ASSUME NEW p \in Project, NEW s \in Sha, NEW g \in Goal,
               StartRun(u, p, s, g)
        PROVE  /\ runs[u] = None /\ UNCHANGED <<checkpoints, evidence>>
               /\ \A r \in RunId \ {u} : runs'[r] = runs[r]
    BY <1>1 DEF StartRun, TypeOK
  <1>2. ASSUME NEW k \in CheckpointId, CheckpointRun(k, u)
        PROVE  /\ IsRunning(u) /\ UNCHANGED <<runs, evidence>>
               /\ \A x \in checkpoints' \ checkpoints : x.run = u
    BY <1>2 DEF CheckpointRun
  <1>3. ASSUME NEW e \in EvidenceId, NEW target \in Criterion \cup {None},
               AttachRunEvidence(e, u, target)
        PROVE  /\ IsRunning(u) /\ UNCHANGED <<runs, checkpoints>>
               /\ \A x \in evidence' \ evidence : x.run = u
    BY <1>3 DEF AttachRunEvidence
  <1>4. ASSUME NEW s \in Sha, NEW t \in Tree, NEW plan \in Plan,
               CompleteRun(u, s, t, plan)
        PROVE  /\ IsRunning(u) /\ UNCHANGED <<checkpoints, evidence>>
               /\ \A r \in RunId \ {u} : runs'[r] = runs[r]
    BY <1>4 DEF CompleteRun, ResultValid, TypeOK
  <1>5. CASE FailRun(u) \/ CancelRun(u)
    BY <1>5 DEF FailRun, CancelRun, TypeOK
  <1> QED
    BY <1>1, <1>2, <1>3, <1>4, <1>5 DEF RunCommand

\* Nothing is recorded against a Run that has ended.
THEOREM EndedRunsAreFrozen == Spec => TerminalRunsFrozen
  <1> DEFINE Frozen ==
        \A r \in RunId :
          runs[r] # None /\ runs[r].status # "running" =>
             /\ runs'[r] = runs[r]
             /\ \A e \in evidence' \ evidence : e.run # r
             /\ \A k \in checkpoints' \ checkpoints : k.run # r
  <1>1. TypeOK /\ [Next]_vars => Frozen
    <2> SUFFICES ASSUME TypeOK, [Next]_vars PROVE Frozen
      OBVIOUS
    <2>1. CASE \A r \in RunId : ~RunCommand(r)
      BY <2>1, OthersKeepRuns
    <2>2. ASSUME NEW u \in RunId, RunCommand(u) PROVE Frozen
      <3>1. \A r \in RunId : runs[r] # None /\ runs[r].status # "running"
              => r # u
        BY <2>2, RunCommandIsLocal DEF IsRunning
      <3> QED
        BY <2>2, <3>1, RunCommandIsLocal
    <2> QED
      BY <2>1, <2>2
  <1>2. TypeOK /\ [Next]_vars => [Frozen]_vars
    BY <1>1
  <1> QED
    BY <1>2, ProjectStateTypes, PTL DEF Spec, TerminalRunsFrozen

\* Nothing new grows from a rejected Node.
THEOREM RejectedNodesStayInert == Spec => RejectedNodesInert
  <1> DEFINE Started(p, s) ==
               \E r \in RunId : /\ runs[r] = None /\ runs'[r] # None
                               /\ runs'[r].project = p /\ runs'[r].source = s
             Proposed(p, s) ==
               \E q \in ProposalId :
                 /\ proposals[q] = None /\ proposals'[q] # None
                 /\ proposals'[q].project = p /\ proposals'[q].source = s
             Coached(p, s) ==
               \E n \in nodes' \ nodes :
                 n.kind = "coaching_child" /\ n.project = p /\ n.parent = s
  <1>1. ASSUME TypeOK, [Next]_vars, NEW p \in Project, NEW s \in Sha,
               Started(p, s)
        PROVE  ~IsRejected(p, s)
    <2>1. PICK r \in RunId : /\ runs[r] = None /\ runs'[r] # None
                             /\ runs'[r].project = p /\ runs'[r].source = s
      BY <1>1
    <2>2. PICK u \in RunId : RunCommand(u)
      BY <1>1, <2>1, OthersKeepRuns
    <2>3. u = r
      BY <1>1, <2>1, <2>2, RunCommandIsLocal
    <2>4. PICK x \in Project, y \in Sha, g \in Goal : StartRun(r, x, y, g)
      BY <2>1, <2>2, <2>3
         DEF RunCommand, CheckpointRun, AttachRunEvidence, CompleteRun, FailRun,
             CancelRun, ResultValid, IsRunning
    <2>5. runs'[r].project = x /\ runs'[r].source = y
      BY <1>1, <2>4 DEF StartRun, TypeOK
    <2> QED
      BY <2>1, <2>4, <2>5 DEF StartRun
  <1>2. ASSUME TypeOK, [Next]_vars, NEW p \in Project, NEW s \in Sha,
               Proposed(p, s) \/ Coached(p, s)
        PROVE  ~IsRejected(p, s)
    <2>1. CASE UNCHANGED <<nodes, proposals>>
      BY <1>2, <2>1
    <2>2. ASSUME NEW r \in RunId, RunCommand(r) PROVE ~IsRejected(p, s)
      <3>1. /\ UNCHANGED proposals
            /\ \A n \in nodes' \ nodes : n.kind = "run_child"
        <4>1. ASSUME NEW y, NEW t, NEW plan, CompleteRun(r, y, t, plan)
              PROVE  /\ UNCHANGED proposals
                     /\ \A n \in nodes' \ nodes : n.kind = "run_child"
          BY <4>1 DEF CompleteRun, RunChild
        <4>2. \/ UNCHANGED <<nodes, proposals>>
              \/ \E y \in Sha, t \in Tree, plan \in Plan :
                   CompleteRun(r, y, t, plan)
          BY <2>2 DEF RunCommand, StartRun, CheckpointRun, AttachRunEvidence,
                      FailRun, CancelRun
        <4> QED
          BY <4>1, <4>2
      <3> QED
        BY <1>2, <3>1
    <2>3. ASSUME NEW actor, NEW x, ProjectCommand(actor, x)
          PROVE  ~IsRejected(p, s)
      <3>1. /\ UNCHANGED proposals
            /\ \A n \in nodes' \ nodes : n.kind = "root"
        BY <2>3 DEF ProjectCommand, CreateProject, RootNode, vars,
                    RebuildProjectMaterializations, RecordCoachReview
      <3> QED
        BY <1>2, <3>1
    <2>4. ASSUME NEW actor, NEW q \in ProposalId, NEW x \in Project,
                 NEW y \in Sha, NEW plan \in Plan,
                 RecordCoachingProposal(actor, q, x, y, plan)
          PROVE  ~IsRejected(p, s)
      <3>1. /\ nodes' = nodes
            /\ \A v \in ProposalId \ {q} : proposals'[v] = proposals[v]
            /\ proposals'[q].project = x /\ proposals'[q].source = y
        BY <1>2, <2>4 DEF RecordCoachingProposal, TypeOK
      <3> QED
        BY <1>2, <2>4, <3>1 DEF RecordCoachingProposal, ProposalValid
    <2>5. ASSUME NEW actor, NEW q \in ProposalId, NEW d \in DecisionId,
                 NEW y \in Sha, NEW t \in Tree, NEW plan \in Plan,
                 ConfirmCoachingProposal(actor, q, d, y, t, plan)
          PROVE  ~IsRejected(p, s)
      <3>1. /\ proposals' = proposals /\ ConfirmableProposal(q)
            /\ \A n \in nodes' \ nodes : /\ n.project = proposals[q].project
                                         /\ n.parent = proposals[q].source
        BY <2>5 DEF ConfirmCoachingProposal, CoachingChild
      <3> QED
        BY <1>2, <3>1 DEF ConfirmableProposal
    <2>6. \A actor, q, d : RejectCoachingProposal(actor, q, d) =>
            UNCHANGED <<nodes, proposals>>
      BY DEF RejectCoachingProposal
    <2>7. \A x, c : ComparisonCommand(x, c) => UNCHANGED <<nodes, proposals>>
      BY DEF ComparisonCommand, CompareSiblingRuns, CompareCoachedHow
    <2>8. \A actor, x, c : DecisionCommand(actor, x, c) =>
            UNCHANGED <<nodes, proposals>>
      BY DEF DecisionCommand, SelectAlternative, RejectAlternatives
    <2>9. ASSUME NEW actor, NEW q \in ProposalId, CoachingCommand(actor, q)
          PROVE  ~IsRejected(p, s)
      BY <2>1, <2>4, <2>5, <2>6, <2>9 DEF CoachingCommand
    <2> QED
      BY <1>2, <2>1, <2>2, <2>3, <2>7, <2>8, <2>9 DEF Next, vars
  <1> DEFINE Inert ==
        \A p \in Project, s \in Sha : IsRejected(p, s) =>
          /\ \A r \in RunId : runs[r] = None /\ runs'[r] # None =>
               ~(runs'[r].project = p /\ runs'[r].source = s)
          /\ \A q \in ProposalId : proposals[q] = None /\ proposals'[q] # None
               => ~(proposals'[q].project = p /\ proposals'[q].source = s)
          /\ \A n \in nodes' \ nodes :
               ~(n.kind = "coaching_child" /\ n.project = p /\ n.parent = s)
  <1>3. TypeOK /\ [Next]_vars => [Inert]_vars
    BY <1>1, <1>2
  <1> QED
    BY <1>3, ProjectStateTypes, PTL DEF Spec, RejectedNodesInert

-----------------------------------------------------------------------------
(***************************************************************************)
(* Whatever the decider accepts, replaying its events accepts: ProjectCore *)
(* implements ProjectReplay.  The decider checks a command against the     *)
(* state before it; the replayer checks each event against the state that  *)
(* the events before it left.  The two differ for CreateProject, which     *)
(* never validates its root Node as such, and for the commands of two      *)
(* events, whose second event meets the effect of the first.               *)
(***************************************************************************)

-----------------------------------------------------------------------------
(* The two sides look up the same things *)

LEMMA SameNodeAt ==
    ASSUME NEW p, NEW s
    PROVE  Replay!NodeAt(p, s) = NodeAt(p, s)
  BY DEF Replay!NodeAt, NodeAt

LEMMA SameLookups ==
    /\ \A p, s : Replay!HasNode(p, s) <=> HasNode(p, s)
    /\ \A p, s : Replay!IsRejected(p, s) <=> IsRejected(p, s)
    /\ \A p, s : Replay!IsSelected(p, s) <=> IsSelected(p, s)
    /\ \A r : Replay!IsRunning(r) <=> IsRunning(r)
    /\ \A d : Replay!FreshDecisionId(d) <=> FreshDecisionId(d)
    /\ \A c : Replay!FreshComparisonId(c) <=> FreshComparisonId(c)
    /\ \A q : Replay!OpenProposal(q) <=> OpenProposal(q)
    /\ Replay!Run = Run /\ Replay!Proposal = Proposal
  <1>1. \A p, s : Replay!HasNode(p, s) <=> HasNode(p, s)
    BY DEF Replay!HasNode, HasNode
  <1>2. \A p, s : Replay!IsRejected(p, s) <=> IsRejected(p, s)
    BY DEF Replay!IsRejected, IsRejected
  <1>3. \A p, s : Replay!IsSelected(p, s) <=> IsSelected(p, s)
    BY DEF Replay!IsSelected, IsSelected
  <1>4. \A r : Replay!IsRunning(r) <=> IsRunning(r)
    BY DEF Replay!IsRunning, IsRunning
  <1>5. \A d : Replay!FreshDecisionId(d) <=> FreshDecisionId(d)
    BY DEF Replay!FreshDecisionId, FreshDecisionId
  <1>6. \A c : Replay!FreshComparisonId(c) <=> FreshComparisonId(c)
    BY DEF Replay!FreshComparisonId, FreshComparisonId
  <1>7. \A q : Replay!OpenProposal(q) <=> OpenProposal(q)
    BY DEF Replay!OpenProposal, OpenProposal, Replay!HasDisposition,
           HasDisposition
  <1>8. Replay!Run = Run /\ Replay!Proposal = Proposal
    BY DEF Replay!Run, Run, Replay!Proposal, Proposal, Replay!Plan, Plan
  <1> QED
    BY <1>1, <1>2, <1>3, <1>4, <1>5, <1>6, <1>7, <1>8

LEMMA SameNewNodeValid ==
    ASSUME NEW root, NEW n
    PROVE  Replay!NewNodeValid(root, n) <=> NewNodeValid(root, n)
  BY SameLookups DEF Replay!NewNodeValid, NewNodeValid

LEMMA SameResultValid ==
    ASSUME NEW r, NEW s
    PROVE  Replay!ResultValid(r, s) <=> ResultValid(r, s)
  BY SameLookups DEF Replay!ResultValid, ResultValid, Replay!Covered, Covered

LEMMA SameRunChildValid ==
    ASSUME NEW r, NEW run, NEW n
    PROVE  Replay!RunChildValid(r, run, n) <=> RunChildValid(r, run, n)
  BY SameLookups, SameNodeAt, SameNewNodeValid
     DEF Replay!RunChildValid, RunChildValid, Replay!InheritedPlan,
         InheritedPlan

LEMMA SameCoachingChildValid ==
    ASSUME NEW q, NEW n
    PROVE  Replay!CoachingChildValid(q, n) <=> CoachingChildValid(q, n)
  BY SameLookups, SameNodeAt, SameNewNodeValid
     DEF Replay!CoachingChildValid, CoachingChildValid

LEMMA SameCardinality ==
    ASSUME NEW S
    PROVE  Replay!Cardinality(S) = Cardinality(S)
  BY DEF Replay!Cardinality, Cardinality, Replay!IsFiniteSet, IsFiniteSet

LEMMA SameCandidatesValid ==
    ASSUME NEW p, NEW S
    PROVE  Replay!CandidatesValid(p, S) <=> CandidatesValid(p, S)
  <1>1. ASSUME NEW s PROVE Replay!CandidateValid(p, s) <=> CandidateValid(p, s)
    BY SameLookups, SameNodeAt DEF Replay!CandidateValid, CandidateValid
  <1> QED
    BY <1>1, SameCardinality DEF Replay!CandidatesValid, CandidatesValid

LEMMA SameExperimentValid ==
    ASSUME NEW p, NEW anchor, NEW g, NEW S
    PROVE  Replay!ExperimentValid(p, anchor, g, S)
             <=> ExperimentValid(p, anchor, g, S)
  <1>1. ASSUME NEW s PROVE Replay!SourceOf(p, s) = SourceOf(p, s)
    BY SameNodeAt DEF Replay!SourceOf, SourceOf
  <1>2. ASSUME NEW source
        PROVE  Replay!ExperimentSourceValid(p, anchor, source)
                 <=> ExperimentSourceValid(p, anchor, source)
    BY SameNodeAt DEF Replay!ExperimentSourceValid, ExperimentSourceValid
  <1> QED
    BY <1>1, <1>2, SameLookups, SameNodeAt
       DEF Replay!ExperimentValid, ExperimentValid

LEMMA SameOverlapValid ==
    ASSUME NEW c
    PROVE  Replay!OverlapValid(c) <=> OverlapValid(c)
  BY DEF Replay!OverlapValid, OverlapValid, Replay!CohortKey, CohortKey

LEMMA SameDecisionsValid ==
    ASSUME NEW d
    PROVE  /\ Replay!SelectionValid(d) <=> SelectionValid(d)
           /\ Replay!RejectionValid(d) <=> RejectionValid(d)
  <1>1. Replay!SelectionValid(d) <=> SelectionValid(d)
    BY SameLookups DEF Replay!SelectionValid, SelectionValid,
                       Replay!CohortKey, CohortKey
  <1>2. Replay!RejectionValid(d) <=> RejectionValid(d)
    BY SameLookups DEF Replay!RejectionValid, RejectionValid
  <1> QED
    BY <1>1, <1>2

-----------------------------------------------------------------------------
(* Every command writes events that replay *)

\* A Node that validation calls new is none of the registered ones.
LEMMA NewNodeIsNew ==
    ASSUME NEW root, NEW n, NewNodeValid(root, n)
    PROVE  n \notin nodes
  BY DEF NewNodeValid, HasNode

LEMMA CreateProjectReplays ==
    ASSUME TreeInv, NEW actor \in Actor, NEW p \in Project, NEW s \in Sha,
           NEW t \in Tree, NEW plan \in Plan,
           CreateProject(actor, p, s, t, plan)
    PROVE  Replay!ProjectEvent(actor, p)
  <1> DEFINE n == RootNode(p, s, t, plan)
  <1>1. /\ n.project = p /\ n.sha = s /\ n.kind = "root"
    BY DEF RootNode
  <1>2. /\ actor = "user" /\ rootSha[p] = None
        /\ rootSha' = [rootSha EXCEPT ![p] = s] /\ nodes' = nodes \cup {n}
        /\ UNCHANGED <<runs, checkpoints, evidence, reviews, proposals,
                       dispositions, comparisons, decisions>>
    BY DEF CreateProject
  <1> HIDE DEF n
  <1>3. \A m \in nodes : m.project # p
    BY <1>2 DEF TreeInv, NodeGraphValid, RootsDeclared
  <1>4. rootSha'[p] = s /\ s # None
    BY <1>2, NoneIsFresh DEF TreeInv, TypeOK
  <1>5. NewNodeValid(rootSha', n)
    BY <1>1, <1>3, <1>4 DEF NewNodeValid, HasNode
  <1>6. Replay!ProjectCreatedBatch(actor, p, n)
    BY <1>1, <1>2, <1>4, <1>5, SameNewNodeValid DEF Replay!ProjectCreatedBatch
  <1> QED
    BY <1>2, <1>5, <1>6, NewNodeIsNew DEF Replay!ProjectEvent

LEMMA ProjectCommandReplays ==
    ASSUME TreeInv, NEW actor \in Actor, NEW p \in Project,
           ProjectCommand(actor, p)
    PROVE  Replay!ProjectEvent(actor, p)
  <1>1. CASE RebuildProjectMaterializations(actor, p)
    BY <1>1 DEF RebuildProjectMaterializations, Replay!ProjectEvent,
                Replay!MaterializationsRebuilt, vars, Replay!vars
  <1>2. ASSUME NEW w \in ReviewId, NEW target \in ReviewTarget,
               RecordCoachReview(actor, w, p, target)
        PROVE  Replay!ProjectEvent(actor, p)
    <2> DEFINE x == [id |-> w, project |-> p, target |-> target]
    <2>1. x.id = w /\ x.target = target /\ x \notin reviews
          /\ reviews' = reviews \cup {x}
      BY <1>2 DEF RecordCoachReview
    <2>2. Replay!ReviewRecorded(actor, x.id, p, x.target)
      BY <1>2, SameLookups DEF RecordCoachReview, Replay!ReviewRecorded
    <2> QED
      BY <2>1, <2>2 DEF Replay!ProjectEvent
  <1> QED
    BY <1>1, <1>2, CreateProjectReplays DEF ProjectCommand

LEMMA StartRunReplays ==
    ASSUME TypeOK, NEW r \in RunId, NEW p \in Project, NEW s \in Sha,
           NEW g \in Goal, StartRun(r, p, s, g)
    PROVE  Replay!RunStarted(r, runs'[r])
  <1> DEFINE run == [project |-> p, source |-> s, goal |-> g,
                     how |-> NodeAt(p, s).plan.how,
                     status |-> "running", result |-> None]
  <1>1. NodeAt(p, s) \in Node
    BY NodeFound DEF StartRun, TypeOK
  <1>2. run \in Run
    BY <1>1 DEF Run, Node, Plan
  <1>3. runs' = [runs EXCEPT ![r] = run] /\ runs'[r] = run
    BY DEF StartRun, TypeOK
  <1>4. /\ run.project = p /\ run.source = s /\ run.goal = g
        /\ run.how = NodeAt(p, s).plan.how
        /\ run.status = "running" /\ run.result = None
    OBVIOUS
  <1> HIDE DEF run
  <1> QED
    BY <1>2, <1>3, <1>4, SameLookups, SameNodeAt DEF StartRun, Replay!RunStarted

LEMMA CompleteRunReplays ==
    ASSUME TypeOK, NEW r \in RunId, NEW s \in Sha, NEW t \in Tree,
           NEW plan \in Plan, CompleteRun(r, s, t, plan)
    PROVE  Replay!RunEvent(r)
  <1> DEFINE n == RunChild(runs[r].project, s, t, plan, runs[r].source, r,
                           runs[r].goal)
             done == [runs[r] EXCEPT !.status = "completed", !.result = s]
  <1>1. /\ ResultValid(r, s) /\ RunChildValid(r, runs[r], n)
        /\ nodes' = nodes \cup {n} /\ runs' = [runs EXCEPT ![r] = done]
        /\ UNCHANGED <<rootSha, checkpoints, evidence, reviews, proposals,
                       dispositions, comparisons, decisions>>
    BY DEF CompleteRun
  <1>2. n.sha = s
    BY DEF RunChild
  <1>3. runs[r] \in Run
    BY <1>1, RunEnds DEF ResultValid
  <1>4. /\ done.status = "completed" /\ done.result = s
        /\ done.project = runs[r].project /\ done.source = runs[r].source
        /\ done.goal = runs[r].goal
    BY <1>3 DEF Run
  <1>5. runs'[r] = done
    BY <1>1 DEF TypeOK
  <1> HIDE DEF n, done
  <1>6. RunChildValid(r, runs'[r], n)
    BY <1>1, <1>2, <1>4, <1>5 DEF RunChildValid
  <1>7. n \notin nodes
    BY <1>6, NewNodeIsNew DEF RunChildValid
  <1>8. Replay!RunCompletedBatch(r, s, n)
    BY <1>1, <1>4, <1>5, <1>6, SameResultValid, SameRunChildValid
       DEF Replay!RunCompletedBatch, done
  <1> QED
    BY <1>1, <1>7, <1>8 DEF Replay!RunEvent

LEMMA RunCommandReplays ==
    ASSUME TypeOK, NEW r \in RunId, RunCommand(r)
    PROVE  Replay!RunEvent(r)
  <1>1. ASSUME NEW k \in CheckpointId, CheckpointRun(k, r)
        PROVE  Replay!RunEvent(r)
    <2> DEFINE x == [id |-> k, run |-> r]
    <2>1. x.id = k /\ x \in checkpoints' \ checkpoints
      BY <1>1 DEF CheckpointRun
    <2>2. Replay!RunCheckpointed(x.id, r)
      BY <1>1, SameLookups DEF CheckpointRun, Replay!RunCheckpointed
    <2> QED
      BY <2>1, <2>2 DEF Replay!RunEvent
  <1>2. ASSUME NEW e \in EvidenceId, NEW target \in Criterion \cup {None},
               AttachRunEvidence(e, r, target)
        PROVE  Replay!RunEvent(r)
    <2> DEFINE x == [id |-> e, run |-> r, criterion |-> target]
    <2>1. x.id = e /\ x.criterion = target /\ x \in evidence' \ evidence
      BY <1>2 DEF AttachRunEvidence
    <2>2. Replay!RunEvidenceAttached(x.id, r, x.criterion)
      BY <1>2, SameLookups DEF AttachRunEvidence, Replay!RunEvidenceAttached
    <2> QED
      BY <2>1, <2>2 DEF Replay!RunEvent
  <1>3. CASE FailRun(r)
    <2>1. Replay!RunEnded(r, "failed")
      BY <1>3, SameLookups DEF FailRun, Replay!RunEnded
    <2> QED
      BY <2>1 DEF Replay!RunEvent
  <1>4. CASE CancelRun(r)
    <2>1. Replay!RunEnded(r, "canceled")
      BY <1>4, SameLookups DEF CancelRun, Replay!RunEnded
    <2> QED
      BY <2>1 DEF Replay!RunEvent
  <1> QED
    BY <1>1, <1>2, <1>3, <1>4, StartRunReplays, CompleteRunReplays
       DEF RunCommand, Replay!RunEvent

LEMMA ConfirmReplays ==
    ASSUME TypeOK, NEW actor \in Actor, NEW q \in ProposalId,
           NEW d \in DecisionId, NEW s \in Sha, NEW t \in Tree,
           NEW plan \in Plan, ConfirmCoachingProposal(actor, q, d, s, t, plan)
    PROVE  Replay!CoachingEvent(actor, q)
  <1> DEFINE n == CoachingChild(proposals[q].project, s, t, plan,
                                proposals[q].source, q)
             x == [id |-> d, proposal |-> q, status |-> "confirmed",
                   child |-> s]
  <1>1. /\ actor = "user" /\ ConfirmableProposal(q) /\ FreshDecisionId(d)
        /\ CoachingChildValid(q, n) /\ nodes' = nodes \cup {n}
        /\ dispositions' = dispositions \cup {x}
        /\ UNCHANGED <<rootSha, runs, checkpoints, evidence, reviews,
                       proposals, comparisons, decisions>>
    BY DEF ConfirmCoachingProposal
  <1>2. n.origin = q /\ n.sha = s
    BY DEF CoachingChild
  <1>3. /\ x.id = d /\ x.proposal = q /\ x.status = "confirmed"
        /\ x.child = s
    OBVIOUS
  <1>4. n \notin nodes
    BY <1>1, NewNodeIsNew DEF CoachingChildValid
  <1>5. x \notin dispositions
    BY <1>1, <1>3 DEF FreshDecisionId
  <1>6. \A y \in dispositions' :
          y.proposal = n.origin => y.status = "confirmed" /\ y.child = n.sha
    <2>1. \A y \in dispositions : y.proposal # q
      BY <1>1 DEF ConfirmableProposal, OpenProposal, HasDisposition
    <2> QED
      BY <1>1, <1>2, <1>3, <2>1
  <1>7. Replay!ConfirmableProposal(q)
    BY <1>1, SameLookups DEF ConfirmableProposal, Replay!ConfirmableProposal
  <1>8. Replay!ProposalConfirmedBatch(actor, q, x.id, x.child, n)
    <2> HIDE DEF n
    <2> QED
      BY <1>1, <1>6, <1>7, SameLookups, SameCoachingChildValid
         DEF Replay!ProposalConfirmedBatch
  <1> HIDE DEF n, x
  <1> QED
    BY <1>1, <1>4, <1>5, <1>8 DEF Replay!CoachingEvent

LEMMA CoachingCommandReplays ==
    ASSUME TypeOK, NEW actor \in Actor, NEW q \in ProposalId,
           CoachingCommand(actor, q)
    PROVE  Replay!CoachingEvent(actor, q)
  <1>1. ASSUME NEW p \in Project, NEW s \in Sha, NEW plan \in Plan,
               RecordCoachingProposal(actor, q, p, s, plan)
        PROVE  Replay!CoachingEvent(actor, q)
    <2> DEFINE new == [project |-> p, source |-> s, plan |-> plan]
    <2>1. /\ proposals' = [proposals EXCEPT ![q] = new] /\ proposals'[q] = new
          /\ new \in Proposal
      BY <1>1 DEF RecordCoachingProposal, TypeOK, Proposal
    <2>2. /\ new.project = p /\ new.source = s /\ new.plan = plan
      OBVIOUS
    <2>3. Replay!ProposalValid(p, s, plan)
      BY <1>1, SameLookups, SameNodeAt
         DEF RecordCoachingProposal, ProposalValid, Replay!ProposalValid
    <2> HIDE DEF new
    <2>4. Replay!ProposalRecorded(actor, q, new)
      BY <1>1, <2>1, <2>2, <2>3, SameLookups
         DEF RecordCoachingProposal, Replay!ProposalRecorded
    <2> QED
      BY <2>1, <2>4 DEF Replay!CoachingEvent
  <1>2. ASSUME NEW d \in DecisionId, RejectCoachingProposal(actor, q, d)
        PROVE  Replay!CoachingEvent(actor, q)
    <2> DEFINE x == [id |-> d, proposal |-> q, status |-> "rejected",
                     child |-> None]
    <2>1. x.id = d /\ x \in dispositions' \ dispositions
      BY <1>2 DEF RejectCoachingProposal, FreshDecisionId
    <2>2. Replay!ProposalRejected(actor, q, x.id)
      BY <1>2, SameLookups DEF RejectCoachingProposal, Replay!ProposalRejected
    <2> QED
      BY <2>1, <2>2 DEF Replay!CoachingEvent
  <1> QED
    BY <1>1, <1>2, ConfirmReplays DEF CoachingCommand

LEMMA ComparisonCommandReplays ==
    ASSUME NEW p \in Project, NEW c \in ComparisonId, ComparisonCommand(p, c)
    PROVE  \A actor : Replay!AlternativesEvent(actor)
  <1>1. ASSUME NEW x, comparisons' = comparisons \cup {x},
               FreshComparisonId(x.id), Replay!AlternativesCompared(x)
        PROVE  \A actor : Replay!AlternativesEvent(actor)
    <2>1. x \in comparisons' \ comparisons
      BY <1>1 DEF FreshComparisonId
    <2> QED
      BY <1>1, <2>1 DEF Replay!AlternativesEvent
  <1>2. ASSUME NEW S \in SUBSET Sha, CompareSiblingRuns(c, p, S)
        PROVE  \A actor : Replay!AlternativesEvent(actor)
    <2>1. PICK parent \in Sha :
            /\ \A s \in S : NodeAt(p, s).parent = parent
            /\ RecordComparison(c, p, "sibling_runs", parent, None, S)
      BY <1>2 DEF CompareSiblingRuns
    <2> DEFINE x == [id |-> c, project |-> p, kind |-> "sibling_runs",
                     anchor |-> parent, goal |-> None, nodes |-> S]
    <2>2. comparisons' = comparisons \cup {x} /\ OverlapValid(x)
      BY <2>1 DEF RecordComparison
    <2>3. /\ x.id = c /\ x.project = p /\ x.kind = "sibling_runs"
          /\ x.anchor = parent /\ x.nodes = S
      OBVIOUS
    <2> HIDE DEF x
    <2>4. Replay!AlternativesCompared(x)
      BY <1>2, <2>1, <2>2, <2>3, SameLookups, SameNodeAt, SameCandidatesValid,
         SameOverlapValid
         DEF CompareSiblingRuns, Replay!AlternativesCompared
    <2> QED
      BY <1>1, <1>2, <2>2, <2>3, <2>4 DEF CompareSiblingRuns
  <1>3. ASSUME NEW S \in SUBSET Sha, NEW anchor \in Sha,
               CompareCoachedHow(c, p, anchor, S)
        PROVE  \A actor : Replay!AlternativesEvent(actor)
    <2>1. PICK g \in Goal :
            /\ ExperimentValid(p, anchor, g, S)
            /\ RecordComparison(c, p, "coached_how_experiment", anchor, g, S)
      BY <1>3 DEF CompareCoachedHow
    <2> DEFINE x == [id |-> c, project |-> p,
                     kind |-> "coached_how_experiment",
                     anchor |-> anchor, goal |-> g, nodes |-> S]
    <2>2. comparisons' = comparisons \cup {x} /\ OverlapValid(x)
      BY <2>1 DEF RecordComparison
    <2>3. /\ x.id = c /\ x.project = p /\ x.kind = "coached_how_experiment"
          /\ x.anchor = anchor /\ x.goal = g /\ x.nodes = S
      OBVIOUS
    <2> HIDE DEF x
    <2>4. Replay!AlternativesCompared(x)
      BY <1>3, <2>1, <2>2, <2>3, SameLookups, SameCandidatesValid,
         SameExperimentValid, SameOverlapValid
         DEF CompareCoachedHow, Replay!AlternativesCompared
    <2> QED
      BY <1>1, <1>3, <2>2, <2>3, <2>4 DEF CompareCoachedHow
  <1> QED
    BY <1>2, <1>3 DEF ComparisonCommand

LEMMA DecisionCommandReplays ==
    ASSUME NEW actor \in Actor, NEW p \in Project, NEW c \in ComparisonId,
           DecisionCommand(actor, p, c)
    PROVE  Replay!AlternativesEvent(actor)
  <1>1. PICK d : DecisionAdded(d)
    BY DecideAdds
  <1>2. actor = "user"
    BY DEF DecisionCommand, SelectAlternative, RejectAlternatives
  <1>3. d \in decisions' \ decisions
    BY <1>1 DEF DecisionAdded, SelectionValid, RejectionValid, FreshDecisionId
  <1>4. Replay!AlternativeDecided(actor, d)
    BY <1>1, <1>2, SameDecisionsValid
       DEF DecisionAdded, Replay!AlternativeDecided
  <1> QED
    BY <1>3, <1>4 DEF Replay!AlternativesEvent

LEMMA StepOfNextReplays ==
    ASSUME TreeInv, Next
    PROVE  Replay!Next
  <1>1. TypeOK /\ "user" \in Actor
    BY DEF TreeInv, Actor
  <1>2. ASSUME NEW r \in RunId, RunCommand(r) PROVE Replay!Next
    BY <1>1, <1>2, RunCommandReplays DEF Replay!Next
  <1>3. ASSUME NEW p \in Project, NEW c \in ComparisonId,
               ComparisonCommand(p, c)
        PROVE  Replay!Next
    BY <1>1, <1>3, ComparisonCommandReplays DEF Replay!Next, Replay!Actor, Actor
  <1>4. ASSUME NEW actor \in Actor, NEW p \in Project,
               ProjectCommand(actor, p)
        PROVE  Replay!Next
    BY <1>4, ProjectCommandReplays DEF Replay!Next, Replay!Actor, Actor
  <1>5. ASSUME NEW actor \in Actor, NEW q \in ProposalId,
               CoachingCommand(actor, q)
        PROVE  Replay!Next
    BY <1>1, <1>5, CoachingCommandReplays DEF Replay!Next, Replay!Actor, Actor
  <1>6. ASSUME NEW actor \in Actor, NEW p \in Project,
               NEW c \in ComparisonId, DecisionCommand(actor, p, c)
        PROVE  Replay!Next
    BY <1>6, DecisionCommandReplays DEF Replay!Next, Replay!Actor, Actor
  <1> QED
    BY <1>2, <1>3, <1>4, <1>5, <1>6 DEF Next

-----------------------------------------------------------------------------
(***************************************************************************)
(* The metadata.  The decider does not ask whether the id of a first event *)
(* was used, nor whether a root has the time of its event.  That replay,   *)
(* which does, refuses nothing follows from how requests make them: a      *)
(* second event has the id that a next command of its request would have,  *)
(* and there is none, as a command that registers a Node is the last.      *)
(***************************************************************************)

\* Every command is one of a request, with the ids that it gives, and a key is
\* that of one command.
CommandInv ==
    \A x \in processedCommands :
        /\ \E k \in Key, m \in Semantic, i \in Nat :
             /\ x.idempotencyKey = <<k, i>>
             /\ \/ x.eventIds = <<domainEventId(k, m, i)>>
                \/ x.eventIds = <<domainEventId(k, m, i),
                                  domainEventId(k, m, i + 1)>>
        /\ \A y \in processedCommands :
             x.idempotencyKey = y.idempotencyKey => x = y

\* The id of the event of a new command was not used.
LEMMA NewEventId ==
    ASSUME CommandInv, NEW k \in Key, NEW m \in Semantic, NEW i \in Nat, NEW at,
           NotProcessed(commandMetadata(k, m, i, at)),
           i # 0 => \E x \in processedCommands :
                        x.idempotencyKey = <<k, i - 1>> /\ Len(x.eventIds) = 1
    PROVE  ~IsProcessed(domainEventId(k, m, i))
  <1> SUFFICES ASSUME NEW x \in processedCommands, NEW j \in DOMAIN x.eventIds,
                      x.eventIds[j] = <<k, m, i>>
               PROVE  FALSE
    BY DEF IsProcessed, domainEventId
  <1>1. PICK l \in Key, n \in Semantic, h \in Nat :
          /\ x.idempotencyKey = <<l, h>>
          /\ \/ x.eventIds = <<<<l, n, h>>>>
             \/ x.eventIds = <<<<l, n, h>>, <<l, n, h + 1>>>>
    BY DEF CommandInv, domainEventId
  <1>2. x.idempotencyKey # <<k, i>>
    BY DEF NotProcessed, commandMetadata
  <1>3. l = k /\ i = h + 1 /\ x.eventIds = <<<<l, n, h>>, <<l, n, h + 1>>>>
    <2>1. CASE x.eventIds = <<<<l, n, h>>>>
      <3>1. j = 1
        BY <2>1
      <3>2. <<l, n, h>> = <<k, m, i>>
        BY <2>1, <3>1
      <3> QED
        BY <1>1, <1>2, <3>2
    <2>2. CASE x.eventIds = <<<<l, n, h>>, <<l, n, h + 1>>>>
      <3>1. j = 1 \/ j = 2
        BY <2>2
      <3>2. <<l, n, h>> = <<k, m, i>> \/ <<l, n, h + 1>> = <<k, m, i>>
        BY <2>2, <3>1
      <3> QED
        BY <1>1, <1>2, <2>2, <3>2
    <2> QED
      BY <1>1, <2>1, <2>2
  <1>4. PICK y \in processedCommands :
          y.idempotencyKey = <<k, i - 1>> /\ Len(y.eventIds) = 1
    BY <1>3
  <1>5. x.idempotencyKey = y.idempotencyKey
    BY <1>1, <1>3, <1>4
  <1>6. x = y
    BY <1>5 DEF CommandInv
  <1> QED
    BY <1>3, <1>4, <1>6

\* What is recorded of a command of a request.
Recorded(x, k, m, i, at) ==
    /\ processedCommands' = processedCommands \cup {x}
    /\ x.idempotencyKey = <<k, i>>
    /\ \A y \in processedCommands : y.idempotencyKey # <<k, i>>
    /\ \/ /\ x.eventIds = <<domainEventId(k, m, i)>>
          /\ nodes' = nodes /\ registrations' = registrations
       \/ /\ x.eventIds = <<domainEventId(k, m, i), domainEventId(k, m, i + 1)>>
          /\ nodes' # nodes
          /\ ~IsProcessed(domainEventId(k, m, i + 1))
          /\ registrations' = registrations \cup
               {[project |-> n.project, sha |-> n.sha,
                 registeredAt |-> at, recordedAt |-> at] : n \in nodes' \ nodes}

LEMMA RecordedCommand ==
    ASSUME NEW k \in Key, NEW m \in Semantic, NEW i \in Nat,
           NEW at \in Timestamp, Mutation(k, m, i, at)
    PROVE  \E x : Recorded(x, k, m, i, at)
  <1> DEFINE meta == commandMetadata(k, m, i, at)
             next == domainEventId(k, m, i + 1)
             one == [idempotencyKey |-> <<k, i>>, fingerprint |-> <<m, i>>,
                     eventIds |-> <<domainEventId(k, m, i)>>]
             two == [idempotencyKey |-> <<k, i>>, fingerprint |-> <<m, i>>,
                     eventIds |-> <<domainEventId(k, m, i), next>>]
  <1>1. /\ meta.eventId = domainEventId(k, m, i)
        /\ meta.idempotencyKey = <<k, i>> /\ meta.fingerprint = <<m, i>>
        /\ meta.requestedAt = at
    BY DEF commandMetadata
  <1>2. Accept(meta, next, at)
    BY DEF Mutation
  <1>3. \A y \in processedCommands : y.idempotencyKey # <<k, i>>
    BY <1>1, <1>2 DEF Accept, NotProcessed
  <1>4. CASE nodes' = nodes
    <2>1. processedCommands' = processedCommands \cup {one}
          /\ registrations' = registrations
      BY <1>1, <1>2, <1>4 DEF Accept, Process
    <2>2. one.idempotencyKey = <<k, i>>
          /\ one.eventIds = <<domainEventId(k, m, i)>>
      OBVIOUS
    <2> HIDE DEF one
    <2> QED
      BY <1>3, <1>4, <2>1, <2>2 DEF Recorded
  <1>5. CASE nodes' # nodes
    <2>1. /\ processedCommands' = processedCommands \cup {two}
          /\ ~IsProcessed(next)
          /\ registrations' = registrations \cup
               {[project |-> n.project, sha |-> n.sha,
                 registeredAt |-> at, recordedAt |-> at] : n \in nodes' \ nodes}
      BY <1>1, <1>2, <1>5 DEF Accept, Process
    <2>2. two.idempotencyKey = <<k, i>>
          /\ two.eventIds = <<domainEventId(k, m, i), next>>
      OBVIOUS
    <2> HIDE DEF two
    <2> QED
      BY <1>3, <1>5, <2>1, <2>2 DEF Recorded
  <1> QED
    BY <1>4, <1>5

LEMMA CommandKeepsInv ==
    CommandInv /\ [CommandNext]_commandVars => CommandInv'
  <1>1. ASSUME CommandInv, NEW k \in Key, NEW m \in Semantic, NEW i \in Nat,
               NEW at \in Timestamp, Mutation(k, m, i, at)
        PROVE  CommandInv'
    <2>1. PICK x : Recorded(x, k, m, i, at)
      BY <1>1, RecordedCommand
    <2> QED
      BY <1>1, <2>1 DEF CommandInv, Recorded
  <1>2. CommandInv /\ UNCHANGED commandVars => CommandInv'
    BY DEF CommandInv, commandVars
  <1> QED
    BY <1>1, <1>2 DEF CommandNext

LEMMA CommandReplays ==
    ASSUME TreeInv, CommandInv, CommandNext
    PROVE  Replay!EventNext
  <1>1. Next /\ \E k \in Key, m \in Semantic, i \in Nat, at \in Timestamp :
                    Mutation(k, m, i, at)
    BY DEF CommandNext
  <1>2. PICK k \in Key, m \in Semantic, i \in Nat, at \in Timestamp :
          Mutation(k, m, i, at)
    BY <1>1
  <1>3. Replay!Next
    BY <1>1, StepOfNextReplays
  <1>4. PICK x : Recorded(x, k, m, i, at)
    BY <1>2, RecordedCommand
  <1>5. ~IsProcessed(domainEventId(k, m, i))
    <2>1. NotProcessed(commandMetadata(k, m, i, at))
          /\ (i # 0 => \E y \in processedCommands :
                y.idempotencyKey = <<k, i - 1>> /\ Len(y.eventIds) = 1)
      BY <1>2 DEF Mutation, Accept
    <2> QED
      BY <2>1, NewEventId
  <1>6. Replay!CommandIsNew(x)
    <2>1. \A e : Replay!IsProcessed(e) <=> IsProcessed(e)
      BY DEF Replay!IsProcessed, IsProcessed
    <2>2. \A j \in DOMAIN x.eventIds : ~IsProcessed(x.eventIds[j])
      BY <1>4, <1>5 DEF Recorded
    <2>3. \A j, h \in DOMAIN x.eventIds : j # h => x.eventIds[j] # x.eventIds[h]
      BY <1>4 DEF Recorded, domainEventId
    <2> QED
      BY <1>4, <2>1, <2>2, <2>3 DEF Recorded, Replay!CommandIsNew
  <1>7. Replay!BatchIsWhole(x)
    BY <1>4 DEF Recorded, Replay!BatchIsWhole
  <1> QED
    BY <1>3, <1>4, <1>6, <1>7 DEF Recorded, Replay!EventNext

\* Whatever the decider accepts of a request can be replayed from its events,
\* with their ids and times: the log it writes always reconstructs the Project
\* (applyDomainEvent, validateDomainEventBatches).
THEOREM EveryCommandReplays == CommandSpec => EveryDecisionReplays
  <1>1. CommandInit => Replay!Init /\ processedCommands = {}
                       /\ registrations = {} /\ CommandInv
    BY DEF CommandInit, Init, Replay!Init, CommandInv
  <1>2. CommandInit => Init
    BY DEF CommandInit
  <1>3. [CommandNext]_commandVars => [Next]_vars
    BY DEF CommandNext, commandVars
  <1>4. TreeInv /\ CommandInv /\ [CommandNext]_commandVars
        => [Replay!EventNext]_<<Replay!vars, processedCommands, registrations>>
    BY CommandReplays DEF commandVars, vars, Replay!vars
  <1>5. Spec => []TreeInv
    BY TreeInvariant
  <1> QED
    BY <1>1, <1>2, <1>3, <1>4, <1>5, CommandKeepsInv, PTL
       DEF CommandSpec, Spec, EveryDecisionReplays, Replay!EventSpec

-----------------------------------------------------------------------------
(* Recursion *)

\* Every nonempty set of numbers has a least one.
LEMMA LeastNumber ==
    ASSUME NEW S \in SUBSET Nat, S # {}
    PROVE  \E m \in S : \A n \in S : m <= n
  <1>1. PICK m \in S : \A n \in S : ~ (<<n, m>> \in OpToRel(<, Nat))
    BY NatLessThanWellFounded, WFMin
  <1>2. ASSUME NEW n \in S
        PROVE  m <= n
    <2>1. m \in Nat /\ n \in Nat
      OBVIOUS
    <2>2. n < m => <<n, m>> \in OpToRel(<, Nat)
      BY <2>1 DEF OpToRel
    <2>3. ~ (n < m)
      BY <1>1, <2>2
    <2> QED
      BY <2>1, <2>3
  <1> QED
    BY <1>2

\* Induction over a rank: a set that has each element of D once it has those
\* of a smaller rank has all of D.
LEMMA RankInduction ==
    ASSUME NEW D, NEW rank \in [D -> Nat], NEW G,
           \A c \in D : (\A d \in D : rank[d] < rank[c] => d \in G) => c \in G
    PROVE  D \subseteq G
  <1> SUFFICES ASSUME D \ G # {} PROVE FALSE
    OBVIOUS
  <1> DEFINE ranks == {rank[c] : c \in D \ G}
  <1>1. ranks \in SUBSET Nat /\ ranks # {}
    OBVIOUS
  <1>2. PICK m \in ranks : \A n \in ranks : m <= n
    <2> HIDE DEF ranks
    <2> QED
      BY <1>1, LeastNumber
  <1>3. PICK c \in D \ G : rank[c] = m
    OBVIOUS
  <1>4. \A d \in D : rank[d] < rank[c] => d \in G
    <2> SUFFICES ASSUME NEW d \in D, rank[d] < rank[c], d \notin G
                 PROVE  FALSE
      OBVIOUS
    <2>1. rank[d] \in ranks
      OBVIOUS
    <2>2. rank[c] <= rank[d]
      BY <1>2, <1>3, <2>1
    <2>3. rank[c] \in Nat /\ rank[d] \in Nat
      OBVIOUS
    <2> QED
      BY <2>2, <2>3
  <1> QED
    BY <1>3, <1>4

\* f says of each element of D what ends there, or what it makes of the value
\* of the next one.
IsRecursive(f, D, ends, first, next, op) ==
    f = [c \in D |-> IF c \in ends THEN first[c] ELSE op[<<c, f[next[c]]>>]]

\* Where the next element has a smaller rank, and the ranks are bounded, there
\* is such a function.
LEMMA RecursionIsDefined ==
    ASSUME NEW D, NEW V, NEW ends, NEW first, NEW next,
           NEW op \in [D \X V -> V],
           NEW N \in Nat, NEW rank \in [D -> 0..N],
           \A c \in D : c \in ends => first[c] \in V,
           \A c \in D : c \notin ends =>
              next[c] \in D /\ rank[next[c]] < rank[c]
    PROVE  \E f \in [D -> V] : IsRecursive(f, D, ends, first, next, op)
  <1> DEFINE Below(n) == {c \in D : rank[c] < n}
             IsPart(f, n) ==
               /\ f \in [Below(n) -> V]
               /\ \A c \in Below(n) :
                    f[c] = IF c \in ends THEN first[c]
                           ELSE op[<<c, f[next[c]]>>]
             G == {n \in Nat : \E f : IsPart(f, n)}
  <1>1. \A n \in Nat : \A c \in Below(n + 1) :
           c \notin ends => next[c] \in Below(n)
    OBVIOUS
  <1>2. ASSUME NEW n \in Nat, NEW f, IsPart(f, n)
        PROVE  \E g : IsPart(g, n + 1)
    <2> DEFINE g == [c \in Below(n + 1) |->
                      IF c \in ends THEN first[c] ELSE op[<<c, f[next[c]]>>]]
    <2>1. \A c \in Below(n) : c \in Below(n + 1) /\ g[c] = f[c]
      BY <1>2
    <2>2. \A c \in Below(n + 1) :
             g[c] = IF c \in ends THEN first[c] ELSE op[<<c, g[next[c]]>>]
      <3> SUFFICES ASSUME NEW c \in Below(n + 1), c \notin ends
                   PROVE  g[next[c]] = f[next[c]]
        OBVIOUS
      <3> QED
        BY <1>1, <2>1, Zenon
    <2>3. g \in [Below(n + 1) -> V]
      <3> SUFFICES ASSUME NEW c \in Below(n + 1)
                   PROVE  (IF c \in ends THEN first[c]
                           ELSE op[<<c, f[next[c]]>>]) \in V
        OBVIOUS
      <3>1. CASE c \in ends
        BY <3>1
      <3>2. CASE c \notin ends
        <4>1. f[next[c]] \in V
          BY <1>1, <1>2, <3>2
        <4> QED
          BY <3>2, <4>1
      <3> QED
        BY <3>1, <3>2
    <2> QED
      BY <2>2, <2>3
  <1>3. Nat \subseteq G
    <2> DEFINE same == [n \in Nat |-> n]
    <2>1. 0 \in G
      <3>1. Below(0) = {}
        OBVIOUS
      <3>2. IsPart([c \in {} |-> 0], 0)
        BY <3>1
      <3> QED
        BY <3>2
    <2>2. ASSUME NEW n \in Nat, n \in G PROVE n + 1 \in G
      <3>1. PICK f : IsPart(f, n)
        BY <2>2
      <3> HIDE DEF IsPart
      <3>2. \E g : IsPart(g, n + 1)
        BY <1>2, <3>1
      <3>3. n + 1 \in Nat
        OBVIOUS
      <3> QED
        BY <3>2, <3>3, Zenon
    <2> HIDE DEF G
    <2>3. ASSUME NEW n \in Nat, \A m \in Nat : same[m] < same[n] => m \in G
          PROVE  n \in G
      <3>1. CASE n = 0
        BY <2>1, <3>1
      <3>2. CASE n # 0
        <4>1. PICK m \in Nat : n = m + 1
          <5>1. n - 1 \in Nat /\ n = (n - 1) + 1
            BY <3>2
          <5> QED
            BY <5>1
        <4>2. m \in G
          BY <2>3, <4>1
        <4> QED
          BY <2>2, <4>1, <4>2
      <3> QED
        BY <3>1, <3>2
    <2>4. same \in [Nat -> Nat]
      OBVIOUS
    <2> HIDE DEF same
    <2> QED
      BY <2>3, <2>4, RankInduction
  <1>4. PICK f : IsPart(f, N + 1)
    <2>1. N + 1 \in Nat
      OBVIOUS
    <2>2. N + 1 \in G
      <3> HIDE DEF G
      <3> QED
        BY <1>3, <2>1
    <2> QED
      BY <2>2, Zenon
  <1>5. Below(N + 1) = D
    OBVIOUS
  <1>6. f \in [D -> V] /\ \A c \in D :
           f[c] = IF c \in ends THEN first[c] ELSE op[<<c, f[next[c]]>>]
    <2> HIDE DEF Below
    <2> QED
      BY <1>4, <1>5
  <1> QED
    BY <1>6 DEF IsRecursive

\* A sequence of the elements of S, each at one place.
IsListingOf(s, S) ==
    /\ s \in Seq(S) /\ Len(s) = Cardinality(S)
    /\ \A x \in S : \E i \in 1..Len(s) : s[i] = x
    /\ \A i, j \in 1..Len(s) : s[i] = s[j] => i = j

LEMMA AppendLists ==
    ASSUME NEW S, IsFiniteSet(S), NEW x \in S, NEW s, IsListingOf(s, S \ {x})
    PROVE  IsListingOf(Append(s, x), S)
  <1> DEFINE t == Append(s, x)
  <1>1. /\ s \in Seq(S) /\ Len(s) \in Nat
        /\ Cardinality(S) = Len(s) + 1
    <2>1. s \in Seq(S \ {x}) /\ Len(s) = Cardinality(S \ {x})
      BY DEF IsListingOf
    <2>2. Cardinality(S) \in Nat /\ Cardinality(S \ {x}) = Cardinality(S) - 1
      BY FS_RemoveElement, FS_CardinalityType
    <2>3. s \in Seq(S)
      BY <2>1
    <2> QED
      BY <2>1, <2>2, <2>3
  <1>2. /\ t \in Seq(S) /\ Len(t) = Len(s) + 1
        /\ \A i \in 1..Len(s) : t[i] = s[i]
        /\ t[Len(s) + 1] = x
    BY <1>1
  <1>3. \A i \in 1..Len(s) : s[i] \in S \ {x}
    BY DEF IsListingOf
  <1> HIDE DEF t
  <1>4. \A y \in S : \E i \in 1..Len(t) : t[i] = y
    <2> TAKE y \in S
    <2>1. CASE y = x
      BY <1>1, <1>2, <2>1
    <2>2. CASE y # x
      <3>1. PICK i \in 1..Len(s) : s[i] = y
        BY <2>2 DEF IsListingOf
      <3> QED
        BY <1>1, <1>2, <3>1
    <2> QED
      BY <2>1, <2>2
  <1>5. \A i, j \in 1..Len(t) : t[i] = t[j] => i = j
    <2> SUFFICES ASSUME NEW i \in 1..Len(t), NEW j \in 1..Len(t), t[i] = t[j]
                 PROVE  i = j
      OBVIOUS
    <2>1. /\ i \in 1..Len(s) \/ i = Len(s) + 1
          /\ j \in 1..Len(s) \/ j = Len(s) + 1
      BY <1>1, <1>2
    <2>2. \A k, l \in 1..Len(s) : s[k] = s[l] => k = l
      BY DEF IsListingOf
    <2>3. \A k \in 1..Len(s) : t[k] # x
      BY <1>2, <1>3
    <2> QED
      BY <1>2, <2>1, <2>2, <2>3
  <1> QED
    BY <1>1, <1>2, <1>4, <1>5 DEF IsListingOf, t

\* The elements of a finite set in some order are a listing of it.
LEMMA ListingListsOnce ==
    ASSUME NEW S, IsFiniteSet(S)
    PROVE  IsListingOf(Listing(S), S)
  <1> DEFINE D == SUBSET S
             V == Seq(S)
             Pick(s) == CHOOSE x \in s : TRUE
             ends == {{}}
             first == [s \in D |-> <<>>]
             next == [s \in D |-> s \ {Pick(s)}]
             op == [a \in D \X V |-> IF a[1] = {} THEN <<>>
                                    ELSE Append(a[2], Pick(a[1]))]
             N == Cardinality(S)
             rank == [s \in D |-> Cardinality(s)]
             Equation(f) ==
               f = [s \in D |-> IF s = {} THEN <<>>
                               ELSE Append(f[s \ {Pick(s)}], Pick(s))]
             iter == CHOOSE f : Equation(f)
  <1>1. Listing(S) = iter[S]
    BY DEF Listing, FoldSet, MapThenFoldSet
  <1>2. \A s \in D : s # {} => Pick(s) \in s /\ Pick(s) \in S
    OBVIOUS
  <1> HIDE DEF Pick
  <1>3. op \in [D \X V -> V]
    <2>1. ASSUME NEW s \in D, NEW v \in V, s # {}
          PROVE  Append(v, Pick(s)) \in V
      BY <1>2, <2>1
    <2>2. <<>> \in V
      OBVIOUS
    <2> HIDE DEF V, D
    <2> QED
      BY <2>1, <2>2
  <1>4. N \in Nat /\ rank \in [D -> 0..N]
    <2>1. N \in Nat
      BY FS_CardinalityType
    <2>2. ASSUME NEW s \in D
          PROVE  Cardinality(s) \in 0..N
      BY <2>1, FS_Subset, FS_CardinalityType
    <2> QED
      BY <2>1, <2>2
  <1>5. \A s \in D : s \notin ends =>
           next[s] \in D /\ rank[next[s]] < rank[s]
    <2> SUFFICES ASSUME NEW s \in D, s # {}
                 PROVE  /\ s \ {Pick(s)} \in D
                        /\ Cardinality(s \ {Pick(s)}) < Cardinality(s)
      OBVIOUS
    <2>1. IsFiniteSet(s) /\ Cardinality(s) \in Nat
      BY FS_Subset, FS_CardinalityType
    <2>2. Cardinality(s \ {Pick(s)}) = Cardinality(s) - 1
      BY <1>2, <2>1, FS_RemoveElement
    <2> QED
      BY <2>1, <2>2
  <1>6. PICK g \in [D -> V] : IsRecursive(g, D, ends, first, next, op)
    <2>1. \A s \in D : s \in ends => first[s] \in V
      OBVIOUS
    <2> HIDE DEF D, V, ends, first, next, op, N, rank
    <2> QED
      BY <1>3, <1>4, <1>5, <2>1, RecursionIsDefined
  <1>7. Equation(g)
    <2>1. \A s \in D : g[s] = IF s = {} THEN <<>>
                             ELSE Append(g[s \ {Pick(s)}], Pick(s))
      BY <1>5, <1>6 DEF IsRecursive
    <2> QED
      BY <1>6, <2>1
  <1>8. Equation(iter)
    BY <1>7, Zenon
  <1> HIDE DEF iter
  <1>9. \A s \in D : iter[s] = IF s = {} THEN <<>>
                            ELSE Append(iter[s \ {Pick(s)}], Pick(s))
    BY <1>8
  <1> DEFINE G == {s \in D : IsListingOf(iter[s], s)}
  <1>10. ASSUME NEW s \in D, \A t \in D : rank[t] < rank[s] => t \in G
         PROVE  s \in G
    <2>1. CASE s = {}
      <3>1. iter[s] = <<>>
        BY <1>9, <2>1, Zenon
      <3>2. IsListingOf(<<>>, {})
        BY FS_EmptySet DEF IsListingOf
      <3> HIDE DEF D
      <3> QED
        BY <2>1, <3>1, <3>2, Zenon
    <2>2. CASE s # {}
      <3>1. s \ {Pick(s)} \in G
        BY <1>5, <1>10, <2>2
      <3>2. iter[s] = Append(iter[s \ {Pick(s)}], Pick(s))
        BY <1>9, <2>2, Zenon
      <3>3. IsListingOf(iter[s \ {Pick(s)}], s \ {Pick(s)})
        BY <3>1
      <3>4. IsFiniteSet(s) /\ Pick(s) \in s
        BY <1>2, <2>2, FS_Subset
      <3>5. IsListingOf(Append(iter[s \ {Pick(s)}], Pick(s)), s)
        BY <3>3, <3>4, AppendLists
      <3> QED
        BY <3>2, <3>5
    <2> QED
      BY <2>1, <2>2
  <1>11. D \subseteq G
    <2>1. rank \in [D -> Nat]
      BY <1>4
    <2> HIDE DEF D, rank, G
    <2> QED
      BY <1>10, <2>1, RankInduction
  <1> QED
    BY <1>1, <1>11

\* Putting sequences together goes one sequence at a time.
LEMMA FlattenBuilds ==
    ASSUME NEW E, NEW seqs \in Seq(Seq(E))
    PROVE  \E f \in [0..Len(seqs) -> Seq(E)] :
              /\ f[0] = <<>> /\ f[Len(seqs)] = FlattenSeq(seqs)
              /\ \A i \in 1..Len(seqs) : f[i] = f[i - 1] \o seqs[i]
  <1>1. CASE Len(seqs) = 0
    <2> DEFINE f == [i \in 0..Len(seqs) |-> <<>>]
    <2>1. FlattenSeq(seqs) = <<>>
      BY <1>1 DEF FlattenSeq
    <2>2. f \in [0..Len(seqs) -> Seq(E)] /\ f[0] = <<>>
      BY <1>1
    <2> HIDE DEF f
    <2>3. \A i \in 1..Len(seqs) : FALSE
      BY <1>1
    <2> QED
      BY <1>1, <2>1, <2>2, <2>3
  <1>2. CASE Len(seqs) # 0
    <2> DEFINE N == Len(seqs)
               D == 1..N
               V == Seq(E)
               ends == {1}
               next == [i \in D |-> i - 1]
               op == [a \in D \X V |-> a[2] \o seqs[a[1]]]
               rank == [i \in D |-> i]
               Equation(f) ==
                 f = [i \in D |-> IF i = 1 THEN seqs[i]
                                 ELSE f[i - 1] \o seqs[i]]
               flatten == CHOOSE f : Equation(f)
    <2>1. FlattenSeq(seqs) = flatten[N]
      BY <1>2 DEF FlattenSeq
    <2>2. /\ N \in Nat /\ N \in D
          /\ \A i \in D : seqs[i] \in V
      BY <1>2
    <2> HIDE DEF N
    <2>3. op \in [D \X V -> V] /\ rank \in [D -> 0..N]
      BY <2>2
    <2>4. \A i \in D : i \notin ends =>
             next[i] \in D /\ rank[next[i]] < rank[i]
      BY <2>2
    <2>5. PICK g \in [D -> V] : IsRecursive(g, D, ends, seqs, next, op)
      <3>1. \A i \in D : i \in ends => seqs[i] \in V
        BY <2>2
      <3> HIDE DEF D, V, ends, next, op, rank
      <3> QED
        BY <2>2, <2>3, <2>4, <3>1, RecursionIsDefined
    <2>6. Equation(g)
      <3>1. \A i \in D : g[i] = IF i = 1 THEN seqs[i] ELSE g[i - 1] \o seqs[i]
        BY <2>4, <2>5 DEF IsRecursive
      <3> QED
        BY <2>5, <3>1
    <2>7. Equation(flatten)
      BY <2>6, Zenon
    <2> HIDE DEF flatten
    <2>8. \A i \in D : flatten[i] = IF i = 1 THEN seqs[i]
                                   ELSE flatten[i - 1] \o seqs[i]
      BY <2>7
    <2> DEFINE G == {i \in D : flatten[i] \in V}
    <2>9. ASSUME NEW i \in D, \A j \in D : rank[j] < rank[i] => j \in G
          PROVE  i \in G
      <3>1. CASE i = 1
        BY <2>2, <2>8, <3>1
      <3>2. CASE i # 1
        <4>1. i - 1 \in G
          BY <2>4, <2>9, <3>2
        <4>2. flatten[i] = flatten[i - 1] \o seqs[i]
          BY <2>8, <3>2, Zenon
        <4>3. flatten[i - 1] \in V /\ seqs[i] \in V
          BY <2>2, <4>1
        <4>4. flatten[i - 1] \o seqs[i] \in V
          BY <4>3
        <4> QED
          BY <4>2, <4>4
      <3> QED
        BY <3>1, <3>2
    <2>10. D \subseteq G
      <3>1. rank \in [D -> Nat]
        BY <2>3
      <3> HIDE DEF D, rank, G
      <3> QED
        BY <2>9, <3>1, RankInduction
    <2> DEFINE f == [i \in 0..N |-> IF i = 0 THEN <<>> ELSE flatten[i]]
    <2>11. \A i \in D : flatten[i] \in V
      BY <2>10
    <2> HIDE DEF G
    <2>12. /\ f \in [0..N -> V] /\ f[0] = <<>> /\ f[N] = FlattenSeq(seqs)
      <3>1. <<>> \in V
        OBVIOUS
      <3> HIDE DEF V
      <3> QED
        BY <2>1, <2>2, <2>11, <3>1
    <2>13. \A i \in D : f[i] = f[i - 1] \o seqs[i]
      <3> SUFFICES ASSUME NEW i \in D PROVE f[i] = f[i - 1] \o seqs[i]
        OBVIOUS
      <3>1. CASE i = 1
        <4>1. f[i] = seqs[i] /\ f[i - 1] = <<>> /\ seqs[i] \in Seq(E)
          BY <2>2, <2>8, <3>1
        <4> QED
          BY <4>1, ConcatEmptySeq
      <3>2. CASE i # 1
        <4>1. f[i] = flatten[i] /\ f[i - 1] = flatten[i - 1]
          BY <2>2, <3>2
        <4>2. flatten[i] = flatten[i - 1] \o seqs[i]
          BY <2>8, <3>2, Zenon
        <4> QED
          BY <4>1, <4>2
      <3> QED
        BY <3>1, <3>2
    <2> QED
      BY <2>12, <2>13 DEF N
  <1> QED
    BY <1>1, <1>2

-----------------------------------------------------------------------------
(* What was recorded is finite, however many ids there are *)

\* What was recorded under an id, which the engine keeps in a map.
Started == {r \in RunId : runs[r] # None}
Proposed == {q \in ProposalId : proposals[q] # None}

\* The records that a log is put together from.
StateIsFinite ==
    /\ IsFiniteSet(Started) /\ IsFiniteSet(Proposed)
    /\ IsFiniteSet(checkpoints) /\ IsFiniteSet(evidence)
    /\ IsFiniteSet(reviews) /\ IsFiniteSet(dispositions)
    /\ IsFiniteSet(comparisons) /\ IsFiniteSet(decisions)

\* T has one element at most that S does not have.
OneMore(S, T) == \E x : T \subseteq S \cup {x}

\* A step records one thing of each kind at most.
OneMoreOfEach ==
    /\ OneMore(Started, Started') /\ OneMore(Proposed, Proposed')
    /\ OneMore(checkpoints, checkpoints') /\ OneMore(evidence, evidence')
    /\ OneMore(reviews, reviews') /\ OneMore(dispositions, dispositions')
    /\ OneMore(comparisons, comparisons') /\ OneMore(decisions, decisions')

\* What is left alone gets no new element.
LEMMA NoMore == \A S : OneMore(S, S)
  BY DEF OneMore

\* One more element leaves a finite set finite.
LEMMA OneMoreIsFinite ==
    ASSUME NEW S, NEW T, IsFiniteSet(S), OneMore(S, T)
    PROVE  IsFiniteSet(T)
  <1>1. PICK x : T \subseteq S \cup {x}
    BY DEF OneMore
  <1>2. IsFiniteSet(S \cup {x})
    BY FS_AddElement
  <1> QED
    BY <1>1, <1>2, FS_Subset

\* A command of a Run starts one Run, or records one thing about it.
LEMMA RunCommandAddsOne ==
    ASSUME TypeOK, NEW r \in RunId, RunCommand(r)
    PROVE  OneMoreOfEach
  <1>1. Started' \subseteq Started \cup {r}
    BY RunCommandIsLocal DEF Started
  <1>2. /\ UNCHANGED <<proposals, reviews, dispositions, comparisons,
                       decisions>>
        /\ \/ checkpoints' = checkpoints
           \/ \E x : checkpoints' = checkpoints \cup {x}
        /\ \/ evidence' = evidence
           \/ \E x : evidence' = evidence \cup {x}
    BY DEF RunCommand, StartRun, CheckpointRun, AttachRunEvidence,
           CompleteRun, FailRun, CancelRun
  <1>3. Proposed' = Proposed
    BY <1>2 DEF Proposed
  <1> QED
    BY <1>1, <1>2, <1>3 DEF OneMoreOfEach, OneMore

\* A command of a Project records one review at most.
LEMMA ProjectCommandAddsOne ==
    ASSUME NEW actor, NEW p \in Project, ProjectCommand(actor, p)
    PROVE  OneMoreOfEach
  <1>1. /\ UNCHANGED <<runs, checkpoints, evidence, proposals, dispositions,
                       comparisons, decisions>>
        /\ \/ reviews' = reviews
           \/ \E x : reviews' = reviews \cup {x}
    BY DEF ProjectCommand, CreateProject, RebuildProjectMaterializations,
           RecordCoachReview, vars
  <1>2. Started' = Started /\ Proposed' = Proposed
    BY <1>1 DEF Started, Proposed
  <1> QED
    BY <1>1, <1>2 DEF OneMoreOfEach, OneMore

\* A command of a proposal records it, or one decision on it.
LEMMA CoachingCommandAddsOne ==
    ASSUME TypeOK, NEW actor, NEW q \in ProposalId, CoachingCommand(actor, q)
    PROVE  OneMoreOfEach
  <1>1. /\ UNCHANGED <<runs, checkpoints, evidence, reviews, comparisons,
                       decisions>>
        /\ \/ dispositions' = dispositions
           \/ \E x : dispositions' = dispositions \cup {x}
        /\ \/ proposals' = proposals
           \/ \E x : proposals' = [proposals EXCEPT ![q] = x]
    BY DEF CoachingCommand, RecordCoachingProposal, ConfirmCoachingProposal,
           RejectCoachingProposal
  <1>2. Started' = Started
    BY <1>1 DEF Started
  <1>3. Proposed' \subseteq Proposed \cup {q}
    BY <1>1 DEF Proposed, TypeOK
  <1> QED
    BY <1>1, <1>2, <1>3 DEF OneMoreOfEach, OneMore

\* No step records more than one thing of a kind.
LEMMA EveryStepAddsOne ==
    ASSUME TypeOK, [Next]_vars
    PROVE  OneMoreOfEach
  <1>1. CASE \E r \in RunId : RunCommand(r)
    BY <1>1, RunCommandAddsOne
  <1>2. CASE \E p \in Project, c \in ComparisonId : ComparisonCommand(p, c)
    <2>1. PICK x : ComparisonAdded(x)
      BY <1>2, CompareAdds
    <2>2. Started' = Started /\ Proposed' = Proposed
      BY <2>1 DEF ComparisonAdded, Started, Proposed
    <2> QED
      BY <2>1, <2>2 DEF ComparisonAdded, OneMoreOfEach, OneMore
  <1>3. CASE \E actor \in Actor, p \in Project : ProjectCommand(actor, p)
    BY <1>3, ProjectCommandAddsOne
  <1>4. CASE \E actor \in Actor, q \in ProposalId : CoachingCommand(actor, q)
    BY <1>4, CoachingCommandAddsOne
  <1>5. CASE \E actor \in Actor, p \in Project, c \in ComparisonId :
                DecisionCommand(actor, p, c)
    <2>1. PICK x : DecisionAdded(x)
      BY <1>5, DecideAdds
    <2>2. Started' = Started /\ Proposed' = Proposed
      BY <2>1 DEF DecisionAdded, Started, Proposed
    <2> QED
      BY <2>1, <2>2 DEF DecisionAdded, OneMoreOfEach, OneMore
  <1>6. CASE UNCHANGED vars
    <2>1. Started' = Started /\ Proposed' = Proposed
      BY <1>6 DEF vars, Started, Proposed
    <2> QED
      BY <1>6, <2>1 DEF vars, OneMoreOfEach, OneMore
  <1> QED
    BY <1>1, <1>2, <1>3, <1>4, <1>5, <1>6 DEF Next

\* At any time a Project has but finitely many records.
THEOREM RecordsStayFinite == Spec => []StateIsFinite
  <1>1. Init => StateIsFinite
    <2> SUFFICES ASSUME Init PROVE StateIsFinite
      OBVIOUS
    <2>1. Started = {} /\ Proposed = {}
      BY DEF Init, Started, Proposed
    <2> QED
      BY <2>1, FS_EmptySet DEF Init, StateIsFinite
  <1>2. TypeOK /\ StateIsFinite /\ [Next]_vars => StateIsFinite'
    BY EveryStepAddsOne, OneMoreIsFinite DEF OneMoreOfEach, StateIsFinite
  <1> QED
    BY <1>1, <1>2, ProjectStateTypes, PTL DEF Spec

-----------------------------------------------------------------------------
(* The log is a sequence of batches *)

\* As many values as a finite set has elements, at most.
LEMMA ImageIsFinite ==
    ASSUME NEW S, IsFiniteSet(S), NEW f
    PROVE  IsFiniteSet({f[x] : x \in S})
  <1> DEFINE T == {f[x] : x \in S}
             g == [x \in S |-> f[x]]
  <1>1. g \in Surjection(S, T)
    BY DEF Surjection
  <1> QED
    BY <1>1, FS_Surjection

\* A batch whose events are numbered from 1 on, as those of a command are.
IsBatch(b) ==
    \E command, actor, bodies :
       /\ b = Batch(command, actor, bodies)
       /\ DOMAIN bodies \in {1..1, 1..2}

\* The batch of a command that makes one event.
LEMMA OneEventIsBatch ==
    ASSUME NEW command, NEW actor, NEW x
    PROVE  IsBatch(Batch(command, actor, <<x>>))
  <1>1. DOMAIN <<x>> = 1..1
    OBVIOUS
  <1> QED
    BY <1>1, Zenon DEF IsBatch

\* The batch of a command that also registers a Node.
LEMMA TwoEventsAreBatch ==
    ASSUME NEW command, NEW actor, NEW x, NEW y
    PROVE  IsBatch(Batch(command, actor, <<x, y>>))
  <1>1. DOMAIN <<x, y>> = 1..2
    OBVIOUS
  <1> QED
    BY <1>1, Zenon DEF IsBatch

\* A finite set of batches.
AreBatches(B) == IsFiniteSet(B) /\ \A b \in B : IsBatch(b)

\* Batches of two kinds are batches.
LEMMA TogetherAreBatches ==
    ASSUME NEW A, NEW B, AreBatches(A), AreBatches(B)
    PROVE  AreBatches(A \cup B)
  BY FS_Union DEF AreBatches

\* One batch is a finite set of batches.
LEMMA OneIsBatches ==
    ASSUME NEW b, IsBatch(b)
    PROVE  AreBatches({b})
  BY FS_Singleton DEF AreBatches

\* The batches of each of finitely many things.
LEMMA BatchesOfEach ==
    ASSUME NEW S, IsFiniteSet(S), NEW f, \A x \in S : AreBatches(f[x])
    PROVE  AreBatches(UNION {f[x] : x \in S})
  <1> DEFINE T == {f[x] : x \in S}
  <1>1. IsFiniteSet(T)
    BY ImageIsFinite
  <1>2. \A X \in T : IsFiniteSet(X)
    BY DEF AreBatches
  <1>3. IsFiniteSet(UNION T)
    <2> HIDE DEF T
    <2> QED
      BY <1>1, <1>2, FS_UNION
  <1> QED
    BY <1>3 DEF AreBatches

\* One batch for each of finitely many things.
LEMMA BatchForEach ==
    ASSUME NEW S, IsFiniteSet(S), NEW f, \A x \in S : IsBatch(f[x])
    PROVE  AreBatches({f[x] : x \in S})
  BY ImageIsFinite DEF AreBatches

\* What was recorded about a Run.
LEMMA RunBatchesAreBatches ==
    ASSUME TypeOK, StateIsFinite, NEW r \in Started
    PROVE  AreBatches(RunBatches(r))
  <1> DEFINE One(type, id, body) == Batch(<<type, id>>, Plugin, <<body>>)
             K == {x \in checkpoints : x.run = r}
             V == {x \in evidence : x.run = r}
             start == One("StartRun", r,
                          [type |-> "RunStarted", run |-> StartedRun(r)])
             check == [k \in K |->
                         One("CheckpointRun", k.id,
                             [type |-> "RunCheckpointed",
                              checkpoint |-> CheckpointValue(k)])]
             attach == [e \in V |->
                          One("AttachRunEvidence", e.id,
                              [type |-> "RunEvidenceAttached",
                               evidence |-> EvidenceValue(e)])]
             complete ==
               Batch(<<"CompleteRun", r>>, Plugin,
                     <<[type |-> "RunCompleted", result |-> ResultValue(r)],
                       Registered("RunChildNodeRegistered",
                                  NodeAt(runs[r].project, runs[r].result))>>)
             fail == One("FailRun", r, [type |-> "RunFailed", runId |-> r])
             cancel == One("CancelRun", r,
                           [type |-> "RunCanceled", runId |-> r])
             end == CASE runs[r].status = "running" -> {}
                      [] runs[r].status = "completed" -> {complete}
                      [] runs[r].status = "failed" -> {fail}
                      [] runs[r].status = "canceled" -> {cancel}
  <1>1. RunBatches(r) = {start} \cup {check[k] : k \in K}
                        \cup {attach[e] : e \in V} \cup end
    BY Zenon DEF RunBatches
  <1>2. AreBatches({start})
    BY OneEventIsBatch, OneIsBatches
  <1>3. AreBatches({check[k] : k \in K})
    <2>1. IsFiniteSet(K)
      BY FS_Subset DEF StateIsFinite
    <2>2. \A k \in K : IsBatch(check[k])
      BY OneEventIsBatch
    <2> HIDE DEF K, check
    <2> QED
      BY <2>1, <2>2, BatchForEach
  <1>4. AreBatches({attach[e] : e \in V})
    <2>1. IsFiniteSet(V)
      BY FS_Subset DEF StateIsFinite
    <2>2. \A e \in V : IsBatch(attach[e])
      BY OneEventIsBatch
    <2> HIDE DEF V, attach
    <2> QED
      BY <2>1, <2>2, BatchForEach
  <1>5. AreBatches(end)
    <2>1. IsBatch(complete) /\ IsBatch(fail) /\ IsBatch(cancel)
      BY OneEventIsBatch, TwoEventsAreBatch
    <2>2. AreBatches({complete}) /\ AreBatches({fail}) /\ AreBatches({cancel})
      BY <2>1, OneIsBatches
    <2>3. AreBatches({})
      BY FS_EmptySet DEF AreBatches
    <2>4. runs[r].status \in {"running", "completed", "failed", "canceled"}
      BY DEF TypeOK, Started, Run
    <2> HIDE DEF complete, fail, cancel
    <2> QED
      BY <2>2, <2>3, <2>4
  <1> HIDE DEF start, check, attach, end, K, V
  <1> QED
    BY <1>1, <1>2, <1>3, <1>4, <1>5, TogetherAreBatches

\* What was recorded of a Project's reviews.
LEMMA ReviewBatchesAreBatches ==
    ASSUME StateIsFinite, NEW p
    PROVE  AreBatches(ReviewBatches(p))
  <1> DEFINE W == {x \in reviews : x.project = p}
             review == [w \in W |->
                          Batch(<<"RecordCoachReview", w.id>>, Coach,
                                <<[type |-> "CoachReviewRecorded",
                                   review |-> ReviewValue(w)]>>)]
  <1>1. ReviewBatches(p) = {review[w] : w \in W}
    BY Zenon DEF ReviewBatches
  <1>2. IsFiniteSet(W)
    BY FS_Subset DEF StateIsFinite
  <1>3. \A w \in W : IsBatch(review[w])
    BY OneEventIsBatch
  <1> HIDE DEF W, review
  <1> QED
    BY <1>1, <1>2, <1>3, BatchForEach

\* What was recorded about a proposal.
LEMMA CoachingBatchesAreBatches ==
    ASSUME StateIsFinite, NEW q
    PROVE  AreBatches(CoachingBatches(q))
  <1> DEFINE C == {y \in dispositions : y.proposal = q
                                        /\ y.status = "confirmed"}
             R == {y \in dispositions : y.proposal = q
                                        /\ y.status = "rejected"}
             record == Batch(<<"RecordCoachingProposal", q>>, Coach,
                             <<[type |-> "CoachingProposalRecorded",
                                proposal |-> ProposalValue(q)]>>)
             confirm ==
               [x \in C |->
                  Batch(<<"ConfirmCoachingProposal", x.id>>, User,
                        <<[type |-> "CoachingProposalConfirmed",
                           decision |-> DispositionValue(x)],
                          Registered("CoachingChildNodeRegistered",
                                     NodeAt(proposals[q].project, x.child))>>)]
             reject ==
               [x \in R |->
                  Batch(<<"RejectCoachingProposal", x.id>>, User,
                        <<[type |-> "CoachingProposalRejected",
                           decision |-> DispositionValue(x)]>>)]
             confirmed == {confirm[x] : x \in C}
             rejected == {reject[x] : x \in R}
  <1>1. CoachingBatches(q) = {record} \cup confirmed \cup rejected
    BY Zenon DEF CoachingBatches
  <1>2. IsFiniteSet(C) /\ IsFiniteSet(R)
    BY FS_Subset DEF StateIsFinite
  <1>3. /\ IsBatch(record)
        /\ \A x \in C : IsBatch(confirm[x])
        /\ \A x \in R : IsBatch(reject[x])
    BY OneEventIsBatch, TwoEventsAreBatch
  <1> HIDE DEF C, R, record, confirm, reject
  <1>4. AreBatches({record}) /\ AreBatches(confirmed) /\ AreBatches(rejected)
    BY <1>2, <1>3, OneIsBatches, BatchForEach
  <1> HIDE DEF confirmed, rejected
  <1> QED
    BY <1>1, <1>4, TogetherAreBatches

\* What was recorded of comparisons and of decisions on them.
LEMMA AlternativeBatchesAreBatches ==
    ASSUME StateIsFinite, NEW p
    PROVE  AreBatches(AlternativeBatches(p))
  <1> DEFINE C == {x \in comparisons : x.project = p}
             S == {x \in decisions : x.project = p /\ x.kind = "selection"}
             R == {x \in decisions : x.project = p /\ x.kind = "rejection"}
             compare == [c \in C |->
                           Batch(<<"CompareAlternatives", c.id>>, Coach,
                                 <<[type |-> "AlternativesCompared",
                                    comparison |-> ComparisonValue(c)]>>)]
             select == [d \in S |->
                          Batch(<<"SelectAlternative", d.id>>, User,
                                <<[type |-> "AlternativeSelected",
                                   decision |-> DecisionValue(d)]>>)]
             reject == [d \in R |->
                          Batch(<<"RejectAlternatives", d.id>>, User,
                                <<[type |-> "AlternativesRejected",
                                   decision |-> DecisionValue(d)]>>)]
             compared == {compare[c] : c \in C}
             selected == {select[d] : d \in S}
             rejected == {reject[d] : d \in R}
  <1>1. AlternativeBatches(p) = compared \cup selected \cup rejected
    BY Zenon DEF AlternativeBatches
  <1>2. IsFiniteSet(C) /\ IsFiniteSet(S) /\ IsFiniteSet(R)
    BY FS_Subset DEF StateIsFinite
  <1>3. /\ \A c \in C : IsBatch(compare[c])
        /\ \A d \in S : IsBatch(select[d])
        /\ \A d \in R : IsBatch(reject[d])
    BY OneEventIsBatch
  <1> HIDE DEF C, S, R, compare, select, reject
  <1>4. AreBatches(compared) /\ AreBatches(selected) /\ AreBatches(rejected)
    BY <1>2, <1>3, BatchForEach
  <1> HIDE DEF compared, selected, rejected
  <1> QED
    BY <1>1, <1>4, TogetherAreBatches

\* All that was recorded in a Project.
LEMMA BatchesAreBatches ==
    ASSUME TypeOK, StateIsFinite, NEW p
    PROVE  AreBatches(BatchesOf(p))
  <1> DEFINE R == ProjectRuns(p)
             Q == ProjectProposals(p)
             ofRun == [r \in R |-> RunBatches(r)]
             ofProposal == [q \in Q |-> CoachingBatches(q)]
             run == UNION {ofRun[r] : r \in R}
             review == ReviewBatches(p)
             coaching == UNION {ofProposal[q] : q \in Q}
             alternative == AlternativeBatches(p)
  <1>1. BatchesOf(p) = run \cup review \cup coaching \cup alternative
    <2>1. /\ run = UNION {RunBatches(r) : r \in R}
          /\ coaching = UNION {CoachingBatches(q) : q \in Q}
      OBVIOUS
    <2> HIDE DEF run, coaching
    <2> QED
      BY <2>1, Zenon DEF BatchesOf
  <1>2. R \subseteq Started /\ Q \subseteq Proposed
    BY DEF ProjectRuns, ProjectProposals, Started, Proposed
  <1>3. IsFiniteSet(R) /\ IsFiniteSet(Q)
    BY <1>2, FS_Subset DEF StateIsFinite
  <1>4. /\ \A r \in R : AreBatches(ofRun[r])
        /\ \A q \in Q : AreBatches(ofProposal[q])
    BY <1>2, RunBatchesAreBatches, CoachingBatchesAreBatches
  <1> HIDE DEF R, Q, ofRun, ofProposal
  <1>5. /\ AreBatches(UNION {ofRun[r] : r \in R})
        /\ AreBatches(UNION {ofProposal[q] : q \in Q})
    BY <1>3, <1>4, BatchesOfEach
  <1>6. AreBatches(review) /\ AreBatches(alternative)
    BY ReviewBatchesAreBatches, AlternativeBatchesAreBatches
  <1> HIDE DEF run, coaching, review, alternative
  <1>7. AreBatches(run \cup review \cup coaching \cup alternative)
    BY <1>5, <1>6, TogetherAreBatches DEF run, coaching
  <1> QED
    BY <1>1, <1>7

\* A batch is a sequence of its events.
LEMMA BatchIsSequence ==
    ASSUME NEW b, IsBatch(b)
    PROVE  b \in Seq({b[i] : i \in DOMAIN b}) /\ Len(b) \in {1, 2}
  <1>1. PICK command, actor, bodies :
           /\ b = Batch(command, actor, bodies)
           /\ DOMAIN bodies \in {1..1, 1..2}
    BY DEF IsBatch
  <1>2. PICK n \in {1, 2} : DOMAIN bodies = 1..n
    BY <1>1
  <1> DEFINE event == [i \in 1..n |-> b[i]]
  <1>3. b = event
    BY <1>1, <1>2 DEF Batch
  <1> QED
    BY <1>2, <1>3

\* The log is a sequence of events that begins with the two of its creation.
LEMMA LogIsSequence ==
    ASSUME TypeOK, StateIsFinite, NEW p
    PROVE  /\ Len(LogOf(p)) \in Nat \ {0}
           /\ DOMAIN LogOf(p) = 1..Len(LogOf(p))
  <1> DEFINE B == BatchesOf(p)
             c == CreationBatch(p)
             E == UNION {{b[i] : i \in DOMAIN b} : b \in B \cup {c}}
  <1>1. IsFiniteSet(B) /\ \A b \in B : IsBatch(b)
    BY BatchesAreBatches DEF AreBatches
  <1>2. IsBatch(c)
    BY TwoEventsAreBatch DEF CreationBatch
  <1> HIDE DEF B, c
  <1>3. \A b \in B \cup {c} : b \in Seq(E) /\ Len(b) \in {1, 2}
    <2> TAKE b \in B \cup {c}
    <2>1. b \in Seq({b[i] : i \in DOMAIN b}) /\ Len(b) \in {1, 2}
      BY <1>1, <1>2, BatchIsSequence
    <2>2. {b[i] : i \in DOMAIN b} \subseteq E
      OBVIOUS
    <2> HIDE DEF E
    <2> QED
      BY <2>1, <2>2
  <1> HIDE DEF E
  <1>4. Listing(B) \in Seq(B)
    BY <1>1, ListingListsOnce DEF IsListingOf
  <1>5. Listing(B) \in Seq(Seq(E))
    <2>1. B \subseteq Seq(E)
      BY <1>3
    <2> QED
      BY <1>4, <2>1
  <1>6. FlattenSeq(Listing(B)) \in Seq(E)
    <2> DEFINE seqs == Listing(B)
               N == Len(seqs)
    <2>1. N \in Nat
      BY <1>5
    <2> HIDE DEF seqs
    <2>2. PICK f \in [0..N -> Seq(E)] : f[N] = FlattenSeq(seqs)
      BY <1>5, FlattenBuilds DEF seqs
    <2> HIDE DEF N
    <2>3. f[N] \in Seq(E)
      BY <2>1
    <2> QED
      BY <2>2, <2>3 DEF seqs
  <1>7. LogOf(p) = c \o FlattenSeq(Listing(B))
    BY DEF LogOf, B, c
  <1>8. c \in Seq(E) /\ Len(c) \in {1, 2}
    BY <1>3
  <1> DEFINE rest == FlattenSeq(Listing(B))
  <1> HIDE DEF rest
  <1>9. /\ Len(c \o rest) = Len(c) + Len(rest) /\ Len(rest) \in Nat
        /\ DOMAIN (c \o rest) = 1..Len(c \o rest)
    BY <1>6, <1>8 DEF rest
  <1> QED
    BY <1>7, <1>8, <1>9 DEF rest

-----------------------------------------------------------------------------
(* Records are known by their ids *)

\* Two records of S never have the same id.
IdsDiffer(S) == \A x, y \in S : x.id = y.id => x = y

\* S stays, or gets one element with an id that is new.
NewIdAtMost(S, T) ==
    T = S \/ \E x : T = S \cup {x} /\ \A y \in S : y.id # x.id

\* Records of a kind are known by their ids.
RecordsHaveIds ==
    /\ IdsDiffer(checkpoints) /\ IdsDiffer(evidence) /\ IdsDiffer(reviews)
    /\ IdsDiffer(dispositions) /\ IdsDiffer(comparisons)
    /\ IdsDiffer(decisions)

LEMMA NewIdDiffers ==
    ASSUME NEW S, NEW T, IdsDiffer(S), NewIdAtMost(S, T)
    PROVE  IdsDiffer(T)
  BY DEF IdsDiffer, NewIdAtMost

\* A record is added under an id that no other of its kind has.
LEMMA EveryIdIsNew ==
    ASSUME [Next]_vars
    PROVE  /\ NewIdAtMost(checkpoints, checkpoints')
           /\ NewIdAtMost(evidence, evidence')
           /\ NewIdAtMost(reviews, reviews')
           /\ NewIdAtMost(dispositions, dispositions')
           /\ NewIdAtMost(comparisons, comparisons')
           /\ NewIdAtMost(decisions, decisions')
  <1>1. ASSUME NEW r \in RunId, RunCommand(r)
        PROVE  /\ UNCHANGED <<reviews, dispositions, comparisons, decisions>>
               /\ NewIdAtMost(checkpoints, checkpoints')
               /\ NewIdAtMost(evidence, evidence')
    <2>1. ASSUME NEW e \in EvidenceId, NEW target \in Criterion \cup {None},
                 AttachRunEvidence(e, r, target)
          PROVE  NewIdAtMost(evidence, evidence')
      <3> DEFINE x == [id |-> e, run |-> r, criterion |-> target]
      <3>1. evidence' = evidence \cup {x} /\ \A y \in evidence : y.id # x.id
        BY <2>1 DEF AttachRunEvidence
      <3> HIDE DEF x
      <3> QED
        BY <3>1 DEF NewIdAtMost
    <2>2. UNCHANGED <<reviews, dispositions, comparisons, decisions>>
      BY <1>1 DEF RunCommand, StartRun, CheckpointRun, AttachRunEvidence,
                  CompleteRun, FailRun, CancelRun
    <2>3. \/ \E e \in EvidenceId, target \in Criterion \cup {None} :
               AttachRunEvidence(e, r, target)
          \/ evidence' = evidence
      BY <1>1 DEF RunCommand, StartRun, CheckpointRun, CompleteRun, FailRun,
                  CancelRun
    <2>4. ASSUME NEW k \in CheckpointId, CheckpointRun(k, r)
          PROVE  NewIdAtMost(checkpoints, checkpoints')
      <3> DEFINE x == [id |-> k, run |-> r]
      <3>1. /\ checkpoints' = checkpoints \cup {x}
            /\ \A y \in checkpoints : y.id # x.id
        BY <2>4 DEF CheckpointRun
      <3> HIDE DEF x
      <3> QED
        BY <3>1 DEF NewIdAtMost
    <2>5. \/ \E k \in CheckpointId : CheckpointRun(k, r)
          \/ checkpoints' = checkpoints
      BY <1>1 DEF RunCommand, StartRun, AttachRunEvidence, CompleteRun,
                  FailRun, CancelRun
    <2> QED
      BY <2>1, <2>2, <2>3, <2>4, <2>5 DEF NewIdAtMost
  <1>2. ASSUME NEW actor, NEW p \in Project, ProjectCommand(actor, p)
        PROVE  /\ UNCHANGED <<checkpoints, evidence, dispositions,
                               comparisons, decisions>>
               /\ NewIdAtMost(reviews, reviews')
    <2>1. ASSUME NEW w \in ReviewId, NEW target \in ReviewTarget,
                 RecordCoachReview(actor, w, p, target)
          PROVE  NewIdAtMost(reviews, reviews')
      <3> DEFINE x == [id |-> w, project |-> p, target |-> target]
      <3>1. reviews' = reviews \cup {x} /\ \A y \in reviews : y.id # x.id
        BY <2>1 DEF RecordCoachReview
      <3> HIDE DEF x
      <3> QED
        BY <3>1 DEF NewIdAtMost
    <2>2. UNCHANGED <<checkpoints, evidence, dispositions, comparisons,
                      decisions>>
      BY <1>2 DEF ProjectCommand, CreateProject,
                  RebuildProjectMaterializations, RecordCoachReview, vars
    <2>3. \/ \E w \in ReviewId, target \in ReviewTarget :
               RecordCoachReview(actor, w, p, target)
          \/ reviews' = reviews
      BY <1>2 DEF ProjectCommand, CreateProject,
                  RebuildProjectMaterializations, vars
    <2> QED
      BY <2>1, <2>2, <2>3 DEF NewIdAtMost
  <1>3. ASSUME NEW actor, NEW q \in ProposalId, CoachingCommand(actor, q)
        PROVE  /\ UNCHANGED <<checkpoints, evidence, reviews, comparisons,
                               decisions>>
               /\ NewIdAtMost(dispositions, dispositions')
    <2>1. UNCHANGED <<checkpoints, evidence, reviews, comparisons, decisions>>
      BY <1>3 DEF CoachingCommand, RecordCoachingProposal,
                  ConfirmCoachingProposal, RejectCoachingProposal
    <2>2. ASSUME NEW d, NEW status, NEW child, FreshDecisionId(d),
                 dispositions' = dispositions \cup
                   {[id |-> d, proposal |-> q, status |-> status,
                     child |-> child]}
          PROVE  NewIdAtMost(dispositions, dispositions')
      <3> DEFINE x == [id |-> d, proposal |-> q, status |-> status,
                       child |-> child]
      <3>1. /\ dispositions' = dispositions \cup {x}
            /\ \A y \in dispositions : y.id # x.id
        BY <2>2 DEF FreshDecisionId
      <3> HIDE DEF x
      <3> QED
        BY <3>1 DEF NewIdAtMost
    <2>3. CASE dispositions' = dispositions
      BY <2>1, <2>3 DEF NewIdAtMost
    <2>4. CASE \E d \in DecisionId, s \in Sha, t \in Tree, plan \in Plan :
                  ConfirmCoachingProposal(actor, q, d, s, t, plan)
      <3>1. PICK d, s : /\ FreshDecisionId(d)
                        /\ dispositions' = dispositions \cup
                             {[id |-> d, proposal |-> q,
                               status |-> "confirmed", child |-> s]}
        BY <2>4 DEF ConfirmCoachingProposal
      <3> QED
        BY <2>1, <2>2, <3>1
    <2>5. CASE \E d \in DecisionId : RejectCoachingProposal(actor, q, d)
      <3>1. PICK d : /\ FreshDecisionId(d)
                     /\ dispositions' = dispositions \cup
                          {[id |-> d, proposal |-> q,
                            status |-> "rejected", child |-> None]}
        BY <2>5 DEF RejectCoachingProposal
      <3> QED
        BY <2>1, <2>2, <3>1
    <2> QED
      BY <1>3, <2>1, <2>3, <2>4, <2>5
         DEF CoachingCommand, RecordCoachingProposal
  <1>4. ASSUME NEW c, ComparisonAdded(c)
        PROVE  /\ UNCHANGED <<checkpoints, evidence, reviews, dispositions,
                               decisions>>
               /\ NewIdAtMost(comparisons, comparisons')
    BY <1>4 DEF ComparisonAdded, FreshComparisonId, NewIdAtMost
  <1>5. ASSUME NEW d, DecisionAdded(d)
        PROVE  /\ UNCHANGED <<checkpoints, evidence, reviews, dispositions,
                               comparisons>>
               /\ NewIdAtMost(decisions, decisions')
    BY <1>5 DEF DecisionAdded, SelectionValid, RejectionValid,
                FreshDecisionId, NewIdAtMost
  <1>6. \A S : NewIdAtMost(S, S)
    BY DEF NewIdAtMost
  <1>7. CASE UNCHANGED vars
    BY <1>6, <1>7 DEF vars
  <1>8. CASE \E r \in RunId : RunCommand(r)
    BY <1>1, <1>6, <1>8
  <1>9. CASE \E actor \in Actor, p \in Project : ProjectCommand(actor, p)
    BY <1>2, <1>6, <1>9
  <1>10. CASE \E actor \in Actor, q \in ProposalId : CoachingCommand(actor, q)
    BY <1>3, <1>6, <1>10
  <1>11. CASE \E p \in Project, c \in ComparisonId : ComparisonCommand(p, c)
    BY <1>4, <1>6, <1>11, CompareAdds
  <1>12. CASE \E actor \in Actor, p \in Project, c \in ComparisonId :
                DecisionCommand(actor, p, c)
    BY <1>5, <1>6, <1>12, DecideAdds
  <1> QED
    BY <1>7, <1>8, <1>9, <1>10, <1>11, <1>12 DEF Next

\* No two records of a kind have the same id.
THEOREM IdsAreUnique == Spec => []RecordsHaveIds
  <1>1. Init => RecordsHaveIds
    BY DEF Init, RecordsHaveIds, IdsDiffer
  <1>2. RecordsHaveIds /\ [Next]_vars => RecordsHaveIds'
    <2> SUFFICES ASSUME RecordsHaveIds, [Next]_vars PROVE RecordsHaveIds'
      OBVIOUS
    <2>1. /\ NewIdAtMost(checkpoints, checkpoints')
          /\ NewIdAtMost(evidence, evidence')
          /\ NewIdAtMost(reviews, reviews')
          /\ NewIdAtMost(dispositions, dispositions')
          /\ NewIdAtMost(comparisons, comparisons')
          /\ NewIdAtMost(decisions, decisions')
      BY EveryIdIsNew
    <2>2. /\ IdsDiffer(checkpoints') /\ IdsDiffer(evidence')
          /\ IdsDiffer(reviews') /\ IdsDiffer(dispositions')
          /\ IdsDiffer(comparisons') /\ IdsDiffer(decisions')
      BY <2>1, NewIdDiffers DEF RecordsHaveIds
    <2> QED
      BY <2>2 DEF RecordsHaveIds, IdsDiffer
  <1> QED
    BY <1>1, <1>2, PTL DEF Spec

-----------------------------------------------------------------------------
(* Nodes and proposals *)

\* One Node at most is registered at a time, below one that is registered.
LEMMA OneMoreNode ==
    ASSUME Changes
    PROVE  \/ nodes' = nodes
           \/ \E n : /\ nodes' = nodes \cup {n}
                     /\ n.kind # "root" => HasNode(n.project, n.parent)
  <1>1. CASE \E n : RootAdded(n)
    BY <1>1 DEF RootAdded
  <1>2. CASE \E r, n : ResultAdded(r, n)
    <2>1. PICK r, n : ResultAdded(r, n)
      BY <1>2
    <2>2. nodes' = nodes \cup {n} /\ HasNode(n.project, n.parent)
      BY <2>1 DEF ResultAdded, NewNodeValid
    <2> QED
      BY <2>2
  <1>3. CASE \E q, n : ChildAdded(q, n)
    <2>1. PICK q, n : ChildAdded(q, n)
      BY <1>3
    <2>2. /\ nodes' = nodes \cup {n}
          /\ n.kind # "root" => HasNode(n.project, n.parent)
      BY <2>1 DEF ChildAdded, CoachingChildValid, NewNodeValid
    <2> QED
      BY <2>2
  <1>4. CASE NoNodeAdded
    BY <1>4 DEF NoNodeAdded
  <1> QED
    BY <1>1, <1>2, <1>3, <1>4 DEF Changes

\* The Project of a Coaching child is that of its proposal, and so is its plan.
ChildrenOfProposals ==
    \A n \in nodes : n.kind = "coaching_child" =>
       /\ n.origin \in ProposalId /\ proposals[n.origin] # None
       /\ proposals[n.origin].project = n.project
       /\ proposals[n.origin].plan = n.plan

LEMMA ChildrenStay ==
    ASSUME ChildrenOfProposals, Changes
    PROVE  ChildrenOfProposals'
  <1>1. \A n \in nodes' \ nodes : n.kind = "coaching_child" =>
           /\ n.origin \in ProposalId /\ proposals[n.origin] # None
           /\ proposals[n.origin].project = n.project
           /\ proposals[n.origin].plan = n.plan
    BY DEF Changes, RootAdded, ResultAdded, ChildAdded, NoNodeAdded,
           ConfirmableProposal, OpenProposal, CoachingChildValid
  <1>2. \A q \in ProposalId : proposals[q] # None =>
           proposals'[q] = proposals[q]
    BY DEF Changes, RootAdded, ResultAdded, ChildAdded, NoNodeAdded
  <1> QED
    BY <1>1, <1>2 DEF ChildrenOfProposals

LEMMA ChildrenInvariant == Spec => []ChildrenOfProposals
  <1>1. Init => ChildrenOfProposals
    BY DEF Init, ChildrenOfProposals
  <1>2. TreeInv /\ TreeInv' /\ ChildrenOfProposals /\ [Next]_vars
        => ChildrenOfProposals'
    BY EveryStepChanges, ChildrenStay DEF TreeInv
  <1> QED
    BY <1>1, <1>2, TreeInvariant, PTL DEF Spec

\* The sequence s is made of the parts 0 to N, of which number k comes after the
\* first b[k] elements.
IsMadeOf(s, part, b, N) ==
    /\ \A k \in 0..N : /\ b[k] + Len(part[k]) <= Len(s)
                       /\ \A i \in 1..Len(part[k]) : s[b[k] + i] = part[k][i]
    /\ \A n \in 1..Len(s) : \E k \in 0..N : n - b[k] \in 1..Len(part[k])
    /\ \A j, k \in 0..N : j < k => b[j] + Len(part[j]) <= b[k]

LEMMA PartIsAdded ==
    ASSUME NEW E, NEW N \in Nat, NEW part \in [0..N -> Seq(E)],
           NEW b \in [0..N -> Nat], NEW k \in 0..N, k + 1 \in 0..N,
           NEW s \in Seq(E), b[k + 1] = Len(s), IsMadeOf(s, part, b, k)
    PROVE  IsMadeOf(s \o part[k + 1], part, b, k + 1)
  <1> DEFINE new == part[k + 1]
             t == s \o new
  <1>1. /\ Len(s) \in Nat /\ Len(new) \in Nat /\ Len(t) = Len(s) + Len(new)
        /\ \A n \in 1..Len(s) : t[n] = s[n]
        /\ \A i \in 1..Len(new) : t[Len(s) + i] = new[i]
    <2>1. new \in Seq(E)
      OBVIOUS
    <2> HIDE DEF new
    <2> QED
      BY <2>1
  <1>2. \A j \in 0..k : b[j] \in Nat /\ Len(part[j]) \in Nat
    <2>1. \A j \in 0..k : b[j] \in Nat /\ part[j] \in Seq(E)
      OBVIOUS
    <2> QED
      BY <2>1
  <1>3. \A j \in 0..(k + 1) : j = k + 1 \/ j \in 0..k
    OBVIOUS
  <1> HIDE DEF t
  <1>4. ASSUME NEW j \in 0..(k + 1)
        PROVE  /\ b[j] + Len(part[j]) <= Len(t)
               /\ \A i \in 1..Len(part[j]) : t[b[j] + i] = part[j][i]
    <2>1. CASE j = k + 1
      <3>1. b[j] = Len(s) /\ part[j] = new
        BY <2>1
      <3> HIDE DEF new
      <3> QED
        BY <1>1, <3>1
    <2>2. CASE j \in 0..k
      <3>1. /\ b[j] + Len(part[j]) <= Len(s)
            /\ \A i \in 1..Len(part[j]) : s[b[j] + i] = part[j][i]
        BY <2>2, Zenon DEF IsMadeOf
      <3>2. b[j] \in Nat /\ Len(part[j]) \in Nat
        BY <1>2, <2>2
      <3>3. ASSUME NEW i \in 1..Len(part[j])
            PROVE  t[b[j] + i] = part[j][i]
        <4>1. b[j] + i \in 1..Len(s)
          <5>1. b[j] + Len(part[j]) <= Len(s) /\ Len(s) \in Nat
            BY <1>1, <3>1
          <5>2. i \in Nat /\ 1 <= i /\ i <= Len(part[j])
            BY <3>2
          <5>3. \A x, l, m, y \in Nat :
                   x + l <= m /\ 1 <= y /\ y <= l => x + y \in 1..m
            OBVIOUS
          <5> QED
            BY <3>2, <5>1, <5>2, <5>3
        <4>2. t[b[j] + i] = s[b[j] + i]
          BY <1>1, <4>1
        <4> QED
          BY <3>1, <4>2
      <3>4. b[j] + Len(part[j]) <= Len(t)
        <4>1. /\ Len(s) \in Nat /\ Len(new) \in Nat
              /\ Len(t) = Len(s) + Len(new) /\ b[j] + Len(part[j]) <= Len(s)
          BY <1>1, <3>1, Zenon
        <4>2. \A x, l, m, y \in Nat : x + l <= m => x + l <= m + y
          OBVIOUS
        <4> QED
          BY <3>2, <4>1, <4>2, Zenon
      <3> QED
        BY <3>3, <3>4
    <2> QED
      BY <1>3, <2>1, <2>2
  <1>5. ASSUME NEW n \in 1..Len(t)
        PROVE  \E j \in 0..(k + 1) : n - b[j] \in 1..Len(part[j])
    <2>1. CASE n <= Len(s)
      <3>1. PICK j \in 0..k : n - b[j] \in 1..Len(part[j])
        <4>1. n \in 1..Len(s)
          BY <1>1, <2>1
        <4> QED
          BY <4>1 DEF IsMadeOf
      <3> QED
        BY <3>1
    <2>2. CASE ~ (n <= Len(s))
      <3>1. n - b[k + 1] \in 1..Len(part[k + 1])
        BY <1>1, <2>2
      <3>2. k + 1 \in 0..(k + 1)
        OBVIOUS
      <3> QED
        BY <3>1, <3>2
    <2> QED
      BY <2>1, <2>2
  <1>6. ASSUME NEW i \in 0..(k + 1), NEW j \in 0..(k + 1), i < j
        PROVE  b[i] + Len(part[i]) <= b[j]
    <2>1. i \in 0..k
      BY <1>6
    <2>2. CASE j = k + 1
      BY <2>1, <2>2 DEF IsMadeOf
    <2>3. CASE j \in 0..k
      BY <1>6, <2>1, <2>3 DEF IsMadeOf
    <2> QED
      BY <1>3, <2>2, <2>3
  <1> QED
    BY <1>4, <1>5, <1>6 DEF IsMadeOf, t

\* What is put together of a first part and others is made of them.
LEMMA FlattenIsMadeOf ==
    ASSUME NEW E, NEW first \in Seq(E), NEW seqs \in Seq(Seq(E))
    PROVE  LET N == Len(seqs)
               part == [k \in 0..N |-> IF k = 0 THEN first ELSE seqs[k]]
           IN  /\ first \o FlattenSeq(seqs) \in Seq(E)
               /\ \E b \in [0..N -> Nat] :
                     b[0] = 0
                     /\ IsMadeOf(first \o FlattenSeq(seqs), part, b, N)
  <1> DEFINE N == Len(seqs)
             part == [k \in 0..N |-> IF k = 0 THEN first ELSE seqs[k]]
  <1>1. PICK f \in [0..N -> Seq(E)] :
           /\ f[0] = <<>> /\ f[N] = FlattenSeq(seqs)
           /\ \A i \in 1..N : f[i] = f[i - 1] \o seqs[i]
    BY FlattenBuilds
  <1> DEFINE h == [k \in 0..N |-> first \o f[k]]
             b == [k \in 0..N |-> IF k = 0 THEN 0 ELSE Len(h[k - 1])]
  <1>2. N \in Nat /\ \A k \in 1..N : seqs[k] \in Seq(E) /\ part[k] = seqs[k]
    OBVIOUS
  <1>3. part \in [0..N -> Seq(E)] /\ part[0] = first
    BY <1>2
  <1> HIDE DEF part, N
  <1>4. \A k \in 0..N : h[k] \in Seq(E)
    BY <1>1
  <1>5. h[0] = first /\ h[N] = first \o FlattenSeq(seqs)
    BY <1>1, <1>2, ConcatEmptySeq
  <1>6. \A k \in 1..N : h[k] = h[k - 1] \o part[k]
    <2> TAKE k \in 1..N
    <2>1. k - 1 \in 0..N /\ k \in 0..N
      BY <1>2
    <2>2. /\ f[k - 1] \in Seq(E) /\ seqs[k] \in Seq(E)
          /\ h[k] = first \o f[k] /\ h[k - 1] = first \o f[k - 1]
          /\ f[k] = f[k - 1] \o seqs[k] /\ part[k] = seqs[k]
      BY <1>1, <1>2, <2>1
    <2> HIDE DEF h
    <2>3. \A u, v \in Seq(E) : (first \o u) \o v = first \o (u \o v)
      BY ConcatAssociative
    <2> QED
      BY <2>2, <2>3
  <1> HIDE DEF h
  <1>7. b \in [0..N -> Nat] /\ b[0] = 0
        /\ \A k \in 0..(N - 1) : b[k + 1] = Len(h[k])
    <2>1. \A k \in 0..N : Len(h[k]) \in Nat
      BY <1>4
    <2> QED
      BY <1>2, <2>1
  <1> HIDE DEF b
  <1> DEFINE D == 0..N
             G == {k \in D : IsMadeOf(h[k], part, b, k)}
             rank == [k \in D |-> k]
  <1>8. ASSUME NEW k \in D, \A j \in D : rank[j] < rank[k] => j \in G
        PROVE  k \in G
    <2>1. CASE k = 0
      <3>1. /\ \A j \in 0..0 : j = 0
            /\ 0 \in 0..0
            /\ Len(first) \in Nat
        OBVIOUS
      <3>2. IsMadeOf(first, part, b, 0)
        <4>1. \A i, j \in 0..0 : ~ (i < j)
          BY <3>1
        <4>2. \A n \in 1..Len(first) : 0 + n = n /\ n - 0 = n
          OBVIOUS
        <4>3. 0 + Len(first) <= Len(first)
          BY <3>1
        <4> QED
          BY <1>3, <1>7, <3>1, <4>1, <4>2, <4>3 DEF IsMadeOf
      <3> QED
        BY <1>5, <2>1, <3>2
    <2>2. CASE k # 0
      <3> DEFINE j == k - 1
      <3>1. j \in D /\ j \in 0..(N - 1) /\ j + 1 = k /\ rank[j] < rank[k]
        BY <1>2, <2>2
      <3>2. IsMadeOf(h[j], part, b, j)
        BY <1>8, <3>1
      <3>3. h[k] = h[j] \o part[k]
        <4>1. k \in 1..N
          BY <1>2, <2>2
        <4> QED
          BY <1>6, <4>1
      <3> HIDE DEF j
      <3>4. h[j] \in Seq(E) /\ b[j + 1] = Len(h[j])
        BY <1>4, <1>7, <3>1
      <3>5. IsMadeOf(h[j] \o part[j + 1], part, b, j + 1)
        BY <1>2, <1>3, <1>7, <3>1, <3>2, <3>4, PartIsAdded
      <3> QED
        BY <3>1, <3>3, <3>5
    <2> QED
      BY <2>1, <2>2
  <1>9. D \subseteq G
    <2>1. rank \in [D -> Nat]
      BY <1>2
    <2> HIDE DEF D, rank, G
    <2> QED
      BY <1>8, <2>1, RankInduction
  <1>10. N \in D /\ h[N] \in Seq(E)
    BY <1>2, <1>4
  <1>11. IsMadeOf(h[N], part, b, N)
    BY <1>9, <1>10
  <1> QED
    BY <1>5, <1>7, <1>10, <1>11 DEF N, part

\* The batches of a log, by their commands.
OneEvent(type, id, actor, body) == Batch(<<type, id>>, actor, <<body>>)

StartBatch(r) ==
    OneEvent("StartRun", r, Plugin, [type |-> "RunStarted", run |-> StartedRun(r)])
CheckpointBatch(k) ==
    OneEvent("CheckpointRun", k.id, Plugin,
             [type |-> "RunCheckpointed", checkpoint |-> CheckpointValue(k)])
EvidenceBatch(e) ==
    OneEvent("AttachRunEvidence", e.id, Plugin,
             [type |-> "RunEvidenceAttached", evidence |-> EvidenceValue(e)])
CompleteBatch(r) ==
    Batch(<<"CompleteRun", r>>, Plugin,
          <<[type |-> "RunCompleted", result |-> ResultValue(r)],
            Registered("RunChildNodeRegistered",
                       NodeAt(runs[r].project, runs[r].result))>>)
FailBatch(r) ==
    OneEvent("FailRun", r, Plugin, [type |-> "RunFailed", runId |-> r])
CancelBatch(r) ==
    OneEvent("CancelRun", r, Plugin, [type |-> "RunCanceled", runId |-> r])
ReviewBatch(w) ==
    OneEvent("RecordCoachReview", w.id, Coach,
             [type |-> "CoachReviewRecorded", review |-> ReviewValue(w)])
ProposalBatch(q) ==
    OneEvent("RecordCoachingProposal", q, Coach,
             [type |-> "CoachingProposalRecorded", proposal |-> ProposalValue(q)])
ConfirmBatch(x) ==
    Batch(<<"ConfirmCoachingProposal", x.id>>, User,
          <<[type |-> "CoachingProposalConfirmed",
             decision |-> DispositionValue(x)],
            Registered("CoachingChildNodeRegistered",
                       NodeAt(proposals[x.proposal].project, x.child))>>)
RejectBatch(x) ==
    OneEvent("RejectCoachingProposal", x.id, User,
             [type |-> "CoachingProposalRejected",
              decision |-> DispositionValue(x)])
CompareBatch(c) ==
    OneEvent("CompareAlternatives", c.id, Coach,
             [type |-> "AlternativesCompared", comparison |-> ComparisonValue(c)])
SelectBatch(d) ==
    OneEvent("SelectAlternative", d.id, User,
             [type |-> "AlternativeSelected", decision |-> DecisionValue(d)])
DismissBatch(d) ==
    OneEvent("RejectAlternatives", d.id, User,
             [type |-> "AlternativesRejected", decision |-> DecisionValue(d)])

\* The batch b is that of the command with this key, on one of the Runs of p or
\* on another record of p.
IsRunCommand(p, key, b) ==
    \E r \in ProjectRuns(p) :
       \/ key = <<"StartRun", r>> /\ b = StartBatch(r)
       \/ \E k \in checkpoints :
            k.run = r /\ key = <<"CheckpointRun", k.id>> /\ b = CheckpointBatch(k)
       \/ \E e \in evidence :
            e.run = r /\ key = <<"AttachRunEvidence", e.id>> /\ b = EvidenceBatch(e)
       \/ /\ runs[r].status = "completed"
          /\ key = <<"CompleteRun", r>> /\ b = CompleteBatch(r)
       \/ /\ runs[r].status = "failed"
          /\ key = <<"FailRun", r>> /\ b = FailBatch(r)
       \/ /\ runs[r].status = "canceled"
          /\ key = <<"CancelRun", r>> /\ b = CancelBatch(r)

IsCommand(p, key, b) ==
    \/ key = <<"CreateProject", p>> /\ b = CreationBatch(p)
    \/ IsRunCommand(p, key, b)
    \/ \E w \in reviews :
         /\ w.project = p
         /\ key = <<"RecordCoachReview", w.id>> /\ b = ReviewBatch(w)
    \/ \E q \in ProjectProposals(p) :
         key = <<"RecordCoachingProposal", q>> /\ b = ProposalBatch(q)
    \/ \E x \in dispositions :
         /\ x.proposal \in ProjectProposals(p)
         /\ \/ /\ x.status = "confirmed" /\ b = ConfirmBatch(x)
               /\ key = <<"ConfirmCoachingProposal", x.id>>
            \/ /\ x.status = "rejected" /\ b = RejectBatch(x)
               /\ key = <<"RejectCoachingProposal", x.id>>
    \/ \E c \in comparisons :
         /\ c.project = p
         /\ key = <<"CompareAlternatives", c.id>> /\ b = CompareBatch(c)
    \/ \E d \in decisions :
         /\ d.project = p
         /\ \/ /\ d.kind = "selection" /\ b = SelectBatch(d)
               /\ key = <<"SelectAlternative", d.id>>
            \/ /\ d.kind = "rejection" /\ b = DismissBatch(d)
               /\ key = <<"RejectAlternatives", d.id>>

AllBatches(p) == BatchesOf(p) \cup {CreationBatch(p)}

\* Each batch of a Run is one of the commands that were given to it.
LEMMA RunBatchIsCommand ==
    ASSUME TypeOK, NEW p, NEW r \in ProjectRuns(p), NEW b \in RunBatches(r)
    PROVE  \E key : IsRunCommand(p, key, b)
  <1>1. runs[r].status \in {"running", "completed", "failed", "canceled"}
    BY DEF TypeOK, ProjectRuns, Run
  <1>2. CASE b = StartBatch(r)
    BY <1>2 DEF IsRunCommand
  <1>3. CASE \E k \in checkpoints : k.run = r /\ b = CheckpointBatch(k)
    BY <1>3 DEF IsRunCommand
  <1>4. CASE \E e \in evidence : e.run = r /\ b = EvidenceBatch(e)
    BY <1>4 DEF IsRunCommand
  <1>5. CASE runs[r].status = "completed" /\ b = CompleteBatch(r)
    BY <1>5 DEF IsRunCommand
  <1>6. CASE runs[r].status = "failed" /\ b = FailBatch(r)
    BY <1>6 DEF IsRunCommand
  <1>7. CASE runs[r].status = "canceled" /\ b = CancelBatch(r)
    BY <1>7 DEF IsRunCommand
  <1>8. \/ b = StartBatch(r)
        \/ \E k \in checkpoints : k.run = r /\ b = CheckpointBatch(k)
        \/ \E e \in evidence : e.run = r /\ b = EvidenceBatch(e)
        \/ runs[r].status = "completed" /\ b = CompleteBatch(r)
        \/ runs[r].status = "failed" /\ b = FailBatch(r)
        \/ runs[r].status = "canceled" /\ b = CancelBatch(r)
    <2> DEFINE end == CASE runs[r].status = "running" -> {}
                        [] runs[r].status = "completed" -> {CompleteBatch(r)}
                        [] runs[r].status = "failed" -> {FailBatch(r)}
                        [] runs[r].status = "canceled" -> {CancelBatch(r)}
    <2>1. RunBatches(r)
            = {StartBatch(r)}
              \cup {CheckpointBatch(k) : k \in {x \in checkpoints : x.run = r}}
              \cup {EvidenceBatch(e) : e \in {x \in evidence : x.run = r}}
              \cup end
      BY Zenon DEF RunBatches, StartBatch, CheckpointBatch, EvidenceBatch,
                   CompleteBatch, FailBatch, CancelBatch, OneEvent
    <2>2. b \in end =>
            \/ runs[r].status = "completed" /\ b = CompleteBatch(r)
            \/ runs[r].status = "failed" /\ b = FailBatch(r)
            \/ runs[r].status = "canceled" /\ b = CancelBatch(r)
      BY <1>1
    <2> HIDE DEF end
    <2> QED
      BY <2>1, <2>2
  <1> QED
    BY <1>2, <1>3, <1>4, <1>5, <1>6, <1>7, <1>8

\* Every later batch of a log is that of a command that creates no Project.
LEMMA EveryBatchIsCommand ==
    ASSUME TypeOK, NEW p, NEW b \in BatchesOf(p)
    PROVE  \E key : IsCommand(p, key, b) /\ key[1] # "CreateProject"
  <1> DEFINE Is(key) == IsCommand(p, key, b) /\ key[1] # "CreateProject"
  <1>1. CASE \E r \in ProjectRuns(p) : b \in RunBatches(r)
    <2>1. PICK key : IsRunCommand(p, key, b)
      BY <1>1, RunBatchIsCommand
    <2>2. key[1] # "CreateProject"
      BY <2>1 DEF IsRunCommand
    <2> QED
      BY <2>1, <2>2 DEF IsCommand
  <1>2. CASE b \in ReviewBatches(p)
    <2>1. PICK w \in reviews : w.project = p /\ b = ReviewBatch(w)
      <3>1. ReviewBatches(p)
              = {ReviewBatch(w) : w \in {x \in reviews : x.project = p}}
        BY Zenon DEF ReviewBatches, ReviewBatch, OneEvent
      <3> QED
        BY <1>2, <3>1
    <2>2. Is(<<"RecordCoachReview", w.id>>)
      BY <2>1 DEF IsCommand
    <2> QED
      BY <2>2
  <1>3. CASE \E q \in ProjectProposals(p) : b \in CoachingBatches(q)
    <2>1. PICK q \in ProjectProposals(p) : b \in CoachingBatches(q)
      BY <1>3
    <2> DEFINE Confirm(x) ==
                 Batch(<<"ConfirmCoachingProposal", x.id>>, User,
                       <<[type |-> "CoachingProposalConfirmed",
                          decision |-> DispositionValue(x)],
                         Registered("CoachingChildNodeRegistered",
                                    NodeAt(proposals[q].project, x.child))>>)
    <2>2. CoachingBatches(q)
            = {ProposalBatch(q)}
              \cup {Confirm(x) :
                      x \in {y \in dispositions : y.proposal = q
                                                  /\ y.status = "confirmed"}}
              \cup {RejectBatch(x) :
                      x \in {y \in dispositions : y.proposal = q
                                                  /\ y.status = "rejected"}}
      BY Zenon DEF CoachingBatches, ProposalBatch, RejectBatch, OneEvent
    <2>3. \A x : x.proposal = q => Confirm(x) = ConfirmBatch(x)
      BY Zenon DEF ConfirmBatch
    <2> HIDE DEF Confirm
    <2>4. \/ b = ProposalBatch(q)
          \/ \E x \in dispositions : x.proposal = q /\ x.status = "confirmed"
                                     /\ b = ConfirmBatch(x)
          \/ \E x \in dispositions : x.proposal = q /\ x.status = "rejected"
                                     /\ b = RejectBatch(x)
      BY <2>1, <2>2, <2>3
    <2>5. \/ Is(<<"RecordCoachingProposal", q>>)
          \/ \E x \in dispositions :
               \/ Is(<<"ConfirmCoachingProposal", x.id>>)
               \/ Is(<<"RejectCoachingProposal", x.id>>)
      BY <2>1, <2>4 DEF IsCommand
    <2> HIDE DEF Is
    <2>6. \E key : Is(key)
      BY <2>5
    <2> QED
      BY <2>6 DEF Is
  <1>4. CASE b \in AlternativeBatches(p)
    <2>1. AlternativeBatches(p)
            = {CompareBatch(c) : c \in {x \in comparisons : x.project = p}}
              \cup {SelectBatch(d) :
                      d \in {x \in decisions : x.project = p
                                               /\ x.kind = "selection"}}
              \cup {DismissBatch(d) :
                      d \in {x \in decisions : x.project = p
                                               /\ x.kind = "rejection"}}
      BY Zenon DEF AlternativeBatches, CompareBatch, SelectBatch, DismissBatch,
                   OneEvent
    <2>2. \/ \E c \in comparisons : c.project = p /\ b = CompareBatch(c)
          \/ \E d \in decisions : d.project = p /\ d.kind = "selection"
                                  /\ b = SelectBatch(d)
          \/ \E d \in decisions : d.project = p /\ d.kind = "rejection"
                                  /\ b = DismissBatch(d)
      BY <1>4, <2>1
    <2>3. \/ \E c \in comparisons : Is(<<"CompareAlternatives", c.id>>)
          \/ \E d \in decisions : \/ Is(<<"SelectAlternative", d.id>>)
                                  \/ Is(<<"RejectAlternatives", d.id>>)
      BY <2>2 DEF IsCommand
    <2> HIDE DEF Is
    <2>4. \E key : Is(key)
      BY <2>3
    <2> QED
      BY <2>4 DEF Is
  <1> QED
    BY <1>1, <1>2, <1>3, <1>4 DEF BatchesOf

\* The key of a command determines its batch.
LEMMA KeysDetermineBatches ==
    ASSUME RecordsHaveIds, NEW p, NEW key, NEW b, NEW c,
           IsCommand(p, key, b), IsCommand(p, key, c)
    PROVE  b = c
  <1>1. \A t, u, x, y : <<t, x>> = <<u, y>> => t = u /\ x = y
    OBVIOUS
  <1>2. CASE key[1] = "CreateProject"
    BY <1>2 DEF IsCommand, IsRunCommand
  <1>3. CASE key[1] = "StartRun"
    BY <1>3 DEF IsCommand, IsRunCommand
  <1>4. CASE key[1] = "CheckpointRun"
    BY <1>4 DEF IsCommand, IsRunCommand, RecordsHaveIds, IdsDiffer
  <1>5. CASE key[1] = "AttachRunEvidence"
    BY <1>5 DEF IsCommand, IsRunCommand, RecordsHaveIds,
                IdsDiffer
  <1>6. CASE key[1] \in {"CompleteRun", "FailRun", "CancelRun"}
    BY <1>6 DEF IsCommand, IsRunCommand
  <1>7. CASE key[1] = "RecordCoachReview"
    BY <1>7 DEF IsCommand, IsRunCommand, RecordsHaveIds,
                IdsDiffer
  <1>8. CASE key[1] = "RecordCoachingProposal"
    BY <1>8 DEF IsCommand, IsRunCommand
  <1>9. CASE key[1] \in {"ConfirmCoachingProposal", "RejectCoachingProposal"}
    BY <1>9 DEF IsCommand, IsRunCommand, RecordsHaveIds, IdsDiffer
  <1>10. CASE key[1] = "CompareAlternatives"
    BY <1>10 DEF IsCommand, IsRunCommand, RecordsHaveIds,
                 IdsDiffer
  <1>11. CASE key[1] \in {"SelectAlternative", "RejectAlternatives"}
    BY <1>11 DEF IsCommand, IsRunCommand, RecordsHaveIds,
                 IdsDiffer
  <1>12. key[1] \in {"CreateProject", "StartRun", "CheckpointRun",
                     "AttachRunEvidence", "CompleteRun", "FailRun", "CancelRun",
                     "RecordCoachReview", "RecordCoachingProposal",
                     "ConfirmCoachingProposal", "RejectCoachingProposal",
                     "CompareAlternatives", "SelectAlternative",
                     "RejectAlternatives"}
    BY DEF IsCommand, IsRunCommand
  <1> QED
    BY <1>2, <1>3, <1>4, <1>5, <1>6, <1>7, <1>8, <1>9, <1>10, <1>11, <1>12

-----------------------------------------------------------------------------
(* The values that events carry are decoded *)

\* The value decoders (decodeGoal ... decodeDecision) take what the engine's
\* records are written as, field by field: from here to DispositionDecodes.
LEMMA GoalDecodes ==
    ASSUME NEW g \in Goal
    PROVE  DecodesGoal(GoalValue(g))
  BY GoalsHaveCriteria DEF GoalValue, DecodesGoal, Exact

LEMMA RunnerDecodes ==
    ASSUME NEW h \in How
    PROVE  DecodesRunner(RunnerValue(h))
  BY DEF RunnerValue, DecodesRunner, Exact

LEMMA PlanDecodes ==
    ASSUME NEW plan \in Plan
    PROVE  DecodesPlan(PlanValue(plan))
  <1> DEFINE v == PlanValue(plan)
  <1>1. /\ Exact(v, {"nextGoals", "how"})
        /\ v.nextGoals = {GoalValue(g) : g \in plan.goals}
        /\ v.how = RunnerValue(plan.how)
    BY DEF PlanValue, Exact
  <1>2. plan.goals \subseteq Goal /\ plan.how \in How
    BY DEF Plan
  <1>3. \A g, h \in v.nextGoals : g.key = h.key => g = h
    BY <1>1 DEF GoalValue
  <1> HIDE DEF v
  <1> QED
    BY <1>1, <1>2, <1>3, GoalDecodes, RunnerDecodes DEF DecodesPlan, v

\* A Node whose references are of the kind that its own kind asks for.
NodeShape(n) ==
    /\ n \in Node
    /\ n.kind # "root" => n.parent \in Sha
    /\ n.kind = "run_child" => n.origin \in RunId
    /\ n.kind = "coaching_child" => n.origin \in ProposalId

\* What the value of a Node holds.
IsValueOf(v, n) ==
    /\ v.type = n.kind /\ v.projectId = n.project
    /\ v.commitSha = n.sha /\ v.treeSha = n.tree
    /\ v.plan = PlanValue(n.plan) /\ v.planDigest = PlanDigest(n.plan)
    /\ v.managedRef = ManagedRef(n.project, n.sha)
    /\ v.payloadDigest = Digest("payload", PayloadOf(v))
    /\ DOMAIN v = {"type", "projectId", "commitSha", "treeSha", "managedRef",
                   "plan", "planDigest", "payloadDigest"} \cup ChildKeys(n.kind)
    /\ n.kind # "root" => v.parentSha = n.parent
    /\ n.kind = "run_child" =>
         /\ v.runId = n.origin
         /\ v.consumedGoalDigest = Digest("goal", GoalValue(n.goal))
    /\ n.kind = "coaching_child" => v.proposalId = n.origin

\* The fields of a Node's value, whichever kind it is of.
LEMMA NodeValueIs ==
    ASSUME NEW n, n.kind \in {"root", "run_child", "coaching_child"}
    PROVE  IsValueOf(NodeValue(n), n)
  <1> DEFINE payload == [projectId |-> n.project, commitSha |-> n.sha,
                         treeSha |-> n.tree, plan |-> PlanValue(n.plan)]
             common == [type |-> n.kind,
                        managedRef |-> ManagedRef(n.project, n.sha),
                        planDigest |-> PlanDigest(n.plan),
                        payloadDigest |-> Digest("payload", payload)]
             own == CASE n.kind = "root" -> <<>>
                      [] n.kind = "run_child" ->
                           [parentSha |-> n.parent, runId |-> n.origin,
                            consumedGoalDigest |->
                              Digest("goal", GoalValue(n.goal))]
                      [] n.kind = "coaching_child" ->
                           [parentSha |-> n.parent, proposalId |-> n.origin]
             v == payload ++ common ++ own
  <1>1. NodeValue(n) = v
    BY Zenon DEF NodeValue
  <1>2. DOMAIN payload = {"projectId", "commitSha", "treeSha", "plan"}
    OBVIOUS
  <1>3. DOMAIN common = {"type", "managedRef", "planDigest", "payloadDigest"}
    OBVIOUS
  <1>4. /\ payload.projectId = n.project /\ payload.commitSha = n.sha
        /\ payload.treeSha = n.tree /\ payload.plan = PlanValue(n.plan)
    OBVIOUS
  <1>5. /\ common.type = n.kind /\ common.planDigest = PlanDigest(n.plan)
        /\ common.managedRef = ManagedRef(n.project, n.sha)
        /\ common.payloadDigest = Digest("payload", payload)
    OBVIOUS
  <1>6. DOMAIN own = ChildKeys(n.kind)
    BY DEF ChildKeys
  <1>7. /\ n.kind # "root" => own.parentSha = n.parent
        /\ n.kind = "run_child" =>
             /\ own.runId = n.origin
             /\ own.consumedGoalDigest = Digest("goal", GoalValue(n.goal))
        /\ n.kind = "coaching_child" => own.proposalId = n.origin
    OBVIOUS
  <1>8. PayloadOf(v) = payload
    <2>1. /\ v.projectId = n.project /\ v.commitSha = n.sha
          /\ v.treeSha = n.tree /\ v.plan = PlanValue(n.plan)
      <3> HIDE DEF payload, common, own
      <3> QED
        BY <1>2, <1>4 DEF ++
    <2> HIDE DEF v
    <2> QED
      BY <2>1 DEF PayloadOf
  <1> HIDE DEF payload, common, own
  <1>9. IsValueOf(v, n)
    <2>1. DOMAIN v = {"type", "projectId", "commitSha", "treeSha", "managedRef",
                      "plan", "planDigest", "payloadDigest"}
                     \cup ChildKeys(n.kind)
      BY <1>2, <1>3, <1>6 DEF ++
    <2>2. /\ v.projectId = n.project /\ v.commitSha = n.sha
          /\ v.treeSha = n.tree /\ v.plan = PlanValue(n.plan)
      BY <1>2, <1>4 DEF ++
    <2>3. /\ v.type = n.kind /\ v.planDigest = PlanDigest(n.plan)
          /\ v.managedRef = ManagedRef(n.project, n.sha)
          /\ v.payloadDigest = Digest("payload", payload)
      BY <1>2, <1>3, <1>5 DEF ++
    <2>4. \A key \in ChildKeys(n.kind) : v[key] = own[key]
      BY <1>2, <1>3, <1>6 DEF ++, ChildKeys
    <2> HIDE DEF v
    <2>5. /\ n.kind # "root" => v.parentSha = n.parent
          /\ n.kind = "run_child" =>
               /\ v.runId = n.origin
               /\ v.consumedGoalDigest = Digest("goal", GoalValue(n.goal))
          /\ n.kind = "coaching_child" => v.proposalId = n.origin
      BY <1>7, <2>4 DEF ChildKeys
    <2> QED
      BY <1>8, <2>1, <2>2, <2>3, <2>5 DEF IsValueOf
  <1> QED
    BY <1>1, <1>9

\* A Node of the state is decoded, and so is the payload it is registered with.
LEMMA NodeDecodes ==
    ASSUME NEW n, NodeShape(n)
    PROVE  /\ DecodesNode(NodeValue(n))
           /\ HoldsPayloadOf(NodeValue(n), Envelope(PayloadOf(NodeValue(n))))
  <1> DEFINE v == NodeValue(n)
             payload == PayloadOf(v)
             envelope == Envelope(payload)
  <1>1. /\ n.project \in Project /\ n.sha \in Sha /\ n.tree \in Tree
        /\ n.plan \in Plan /\ n.kind \in {"root", "run_child", "coaching_child"}
    BY DEF NodeShape, Node
  <1>2. IsValueOf(v, n)
    BY <1>1, NodeValueIs
  <1>3. DecodesPlan(PlanValue(n.plan))
    BY <1>1, PlanDecodes
  <1> HIDE DEF v
  <1>4. DecodesNode(v)
    <2>1. IsDigest("plan", v.planDigest) /\ IsDigest("payload", v.payloadDigest)
      BY <1>2 DEF IsValueOf, PlanDigest, Digest, IsDigest
    <2>2. n.kind = "run_child" => IsDigest("goal", v.consumedGoalDigest)
      BY <1>2 DEF IsValueOf, Digest, IsDigest
    <2> QED
      BY <1>1, <1>2, <1>3, <2>1, <2>2
         DEF DecodesNode, IsValueOf, NodeShape, Exact
  <1>5. DecodesPayload(payload)
    <2>1. /\ Exact(payload, {"projectId", "commitSha", "treeSha", "plan"})
          /\ payload.projectId = v.projectId /\ payload.commitSha = v.commitSha
          /\ payload.treeSha = v.treeSha /\ payload.plan = v.plan
      BY DEF PayloadOf, Exact
    <2> HIDE DEF payload
    <2> QED
      BY <1>1, <1>2, <1>3, <2>1 DEF DecodesPayload, IsValueOf
  <1>6. /\ DOMAIN envelope = {"digest", "data"}
        /\ envelope.digest = Digest("payload", payload)
        /\ envelope.data = payload
    BY DEF Envelope
  <1> HIDE DEF payload, envelope
  <1>7. HoldsPayloadOf(v, envelope)
    BY <1>5, <1>6 DEF HoldsPayloadOf, Opens, DecodesEnvelope, Exact, IsDigest,
                      Digest, payload
  <1> QED
    BY <1>4, <1>7 DEF v, payload, envelope

\* A Run as it starts.
LEMMA StartedRunDecodes ==
    ASSUME TypeOK, NEW r \in RunId, runs[r] # None
    PROVE  DecodesRun(StartedRun(r)) /\ StartedRun(r).status = "running"
  <1> DEFINE v == StartedRun(r)
  <1>1. /\ runs[r].project \in Project /\ runs[r].source \in Sha
        /\ runs[r].goal \in Goal /\ runs[r].how \in How
    BY DEF TypeOK, Run
  <1>2. /\ v.id = r /\ v.projectId = runs[r].project
        /\ v.sourceNodeSha = runs[r].source
        /\ v.goal = GoalValue(runs[r].goal)
        /\ v.goalDigest = Digest("goal", GoalValue(runs[r].goal))
        /\ v.runner = RunnerValue(runs[r].how)
        /\ v.runnerDigest = Digest("runner", RunnerValue(runs[r].how))
        /\ v.checkpoints = {} /\ v.evidenceIds = {} /\ v.status = "running"
        /\ DOMAIN v = {"id", "projectId", "sourceNodeSha", "goal", "goalDigest",
                       "runner", "runnerDigest", "branch", "checkpoints",
                       "evidenceIds", "status"}
    BY DEF StartedRun
  <1> HIDE DEF v
  <1>3. DecodesGoal(v.goal) /\ DecodesRunner(v.runner)
    BY <1>1, <1>2, GoalDecodes, RunnerDecodes
  <1>4. IsDigest("goal", v.goalDigest) /\ IsDigest("runner", v.runnerDigest)
    BY <1>2 DEF IsDigest, Digest
  <1>5. DecodesRun(v)
    BY <1>1, <1>2, <1>3, <1>4 DEF DecodesRun, Exact
  <1> QED
    BY <1>2, <1>5 DEF v

LEMMA CheckpointDecodes ==
    ASSUME TypeOK, NEW k \in checkpoints
    PROVE  DecodesCheckpoint(CheckpointValue(k))
  <1>1. k.id \in CheckpointId /\ k.run \in RunId
    BY DEF TypeOK
  <1> QED
    BY <1>1 DEF CheckpointValue, DecodesCheckpoint, Exact

\* A Run as it is by now.
LEMMA RunDecodes ==
    ASSUME TypeOK, ResultsMatchRuns, NEW r \in RunId, runs[r] # None
    PROVE  DecodesRun(RunValue(r))
  <1> DEFINE K == {CheckpointValue(k) : k \in {x \in checkpoints : x.run = r}}
             V == {e.id : e \in {x \in evidence : x.run = r}}
             s == StartedRun(r)
             w == [s EXCEPT !.checkpoints = K, !.evidenceIds = V,
                            !.status = runs[r].status]
             own == IF runs[r].status = "completed"
                    THEN [resultNodeSha |-> runs[r].result] ELSE <<>>
             v == w ++ own
  <1>1. RunValue(r) = v
    BY Zenon DEF RunValue
  <1>2. /\ runs[r].status \in {"running", "completed", "failed", "canceled"}
        /\ runs[r].project \in Project /\ runs[r].source \in Sha
    BY DEF TypeOK, Run
  <1>3. runs[r].status = "completed" => runs[r].result \in Sha
    <2>1. \A n \in nodes : n.sha \in Sha
      BY DEF TypeOK, Node
    <2> QED
      BY <2>1 DEF ResultsMatchRuns
  <1>4. \A k \in K : DecodesCheckpoint(k)
    BY CheckpointDecodes
  <1>5. V \subseteq EvidenceId
    BY DEF TypeOK
  <1>6. DecodesRun(s) /\ s.status = "running"
    BY StartedRunDecodes
  <1>7. DOMAIN s = {"id", "projectId", "sourceNodeSha", "goal", "goalDigest",
                    "runner", "runnerDigest", "branch", "checkpoints",
                    "evidenceIds", "status"}
    BY DEF StartedRun
  <1> HIDE DEF K, V
  <1>8. /\ DOMAIN w = DOMAIN s
        /\ w.checkpoints = K /\ w.evidenceIds = V /\ w.status = runs[r].status
        /\ \A key \in DOMAIN s \ {"checkpoints", "evidenceIds", "status"} :
             w[key] = s[key]
    <2>1. s = [key \in DOMAIN s |-> s[key]]
      BY DEF StartedRun
    <2> HIDE DEF s
    <2> QED
      BY <1>7, <2>1
  <1> HIDE DEF s, w
  <1>9. DOMAIN own = IF runs[r].status = "completed" THEN {"resultNodeSha"}
                     ELSE {}
    OBVIOUS
  <1>10. runs[r].status = "completed" => own.resultNodeSha = runs[r].result
    OBVIOUS
  <1> HIDE DEF own
  <1>11. /\ DOMAIN v = DOMAIN w \cup DOMAIN own
         /\ \A key \in DOMAIN w : v[key] = w[key]
         /\ runs[r].status = "completed" => v.resultNodeSha = runs[r].result
    BY <1>7, <1>8, <1>9, <1>10 DEF ++
  <1> HIDE DEF v
  <1>12. /\ v.id = s.id /\ v.projectId = s.projectId
         /\ v.sourceNodeSha = s.sourceNodeSha /\ v.goal = s.goal
         /\ v.goalDigest = s.goalDigest /\ v.runner = s.runner
         /\ v.runnerDigest = s.runnerDigest /\ v.checkpoints = K
         /\ v.evidenceIds = V /\ v.status = runs[r].status
    BY <1>7, <1>8, <1>11
  <1>13. Exact(v, {"id", "projectId", "sourceNodeSha", "goal", "goalDigest",
                   "runner", "runnerDigest", "branch", "checkpoints",
                   "evidenceIds", "status"}
                  \cup IF v.status = "completed" THEN {"resultNodeSha"} ELSE {})
    BY <1>7, <1>8, <1>9, <1>11, <1>12 DEF Exact
  <1>14. DecodesRun(v)
    BY <1>2, <1>3, <1>4, <1>5, <1>6, <1>11, <1>12, <1>13 DEF DecodesRun
  <1> QED
    BY <1>1, <1>14

LEMMA EvidenceDecodes ==
    ASSUME TypeOK, NEW e \in evidence, runs[e.run] # None
    PROVE  DecodesEvidence(EvidenceValue(e))
  <1> DEFINE shape == EvidenceShape[e.id]
             v == EvidenceValue(e)
  <1>1. /\ e.id \in EvidenceId /\ e.run \in RunId
        /\ e.criterion \in Criterion \cup {None}
    BY DEF TypeOK
  <1>2. runs[e.run].project \in Project /\ runs[e.run].source \in Sha
    BY <1>1 DEF TypeOK, Run
  <1>3. /\ shape.kind \in {"diff", "check", "screenshot", "report", "note"}
        /\ shape.location \in {"git", "url", "text"}
    BY <1>1, EvidenceHasShape
  <1> DEFINE target == IF e.criterion = None THEN [type |-> "run"]
                       ELSE [type |-> "criterion", criterion |-> e.criterion]
             location ==
               CASE shape.location = "git" ->
                      [type |-> "git", commitSha |-> runs[e.run].source,
                       path |-> Text]
                 [] shape.location = "url" -> [type |-> "url", url |-> Url]
                 [] shape.location = "text" -> [type |-> "text", text |-> Text]
  <1>4. /\ v.id = e.id /\ v.projectId = runs[e.run].project /\ v.runId = e.run
        /\ v.kind = shape.kind /\ v.target = target /\ v.location = location
        /\ DOMAIN v = {"id", "projectId", "runId", "target", "kind", "location"}
    BY DEF EvidenceValue
  <1> HIDE DEF v
  <1>5. \/ target = [type |-> "run"]
        \/ target \in [type : {"criterion"}, criterion : Criterion]
    BY <1>1
  <1>6. DecodesLocation(location)
    <2>1. CASE shape.location = "git"
      <3>1. location = [type |-> "git", commitSha |-> runs[e.run].source,
                        path |-> Text]
        BY <2>1
      <3> HIDE DEF location
      <3>2. location \in [type : {"git"}, commitSha : Sha, path : {Text}]
        BY <1>2, <3>1
      <3> QED
        BY <3>2, Zenon DEF DecodesLocation
    <2>2. CASE shape.location = "url"
      BY <2>2 DEF DecodesLocation, Exact
    <2>3. CASE shape.location = "text"
      <3>1. location = [type |-> "text", text |-> Text]
        BY <2>3
      <3> HIDE DEF location
      <3>2. location \in [type : {"text"}, text : {Text}]
        BY <3>1
      <3> QED
        BY <3>2, Zenon DEF DecodesLocation
    <2> QED
      BY <1>3, <2>1, <2>2, <2>3
  <1> HIDE DEF target, location, shape
  <1>7. DecodesEvidence(v)
    BY <1>1, <1>2, <1>3, <1>4, <1>5, <1>6 DEF DecodesEvidence, Exact
  <1> QED
    BY <1>7 DEF v

LEMMA ResultDecodes ==
    ASSUME NEW r \in RunId, runs[r].result \in Sha
    PROVE  DecodesResult(ResultValue(r))
  BY DEF ResultValue, DecodesResult, Exact

\* What a review is about has the type that its kind says.
ReviewFound(w) ==
    /\ w.target.kind = "node" => w.target.of \in Sha
    /\ w.target.kind = "run" => w.target.of \in RunId
    /\ w.target.kind = "comparison" => w.target.of \in ComparisonId

\* A review decodes if what it is about is in its Project.
LEMMA ReviewDecodes ==
    ASSUME TypeOK, NEW w \in reviews, ReviewFound(w)
    PROVE  DecodesReview(ReviewValue(w))
  <1> DEFINE target ==
               CASE w.target.kind = "node" ->
                      [type |-> "node", nodeSha |-> w.target.of]
                 [] w.target.kind = "run" ->
                      [type |-> "run", runId |-> w.target.of]
                 [] w.target.kind = "comparison" ->
                      [type |-> "comparison", comparisonId |-> w.target.of]
             v == ReviewValue(w)
  <1>1. /\ w.id \in ReviewId /\ w.project \in Project
        /\ w.target.kind \in {"node", "run", "comparison"}
    BY DEF TypeOK, ReviewTarget
  <1>2. /\ v.id = w.id /\ v.projectId = w.project /\ v.target = target
        /\ DOMAIN v = {"id", "projectId", "target"}
    BY DEF ReviewValue
  <1> HIDE DEF v
  <1>3. \/ target \in [type : {"node"}, nodeSha : Sha]
        \/ target \in [type : {"run"}, runId : RunId]
        \/ target \in [type : {"comparison"}, comparisonId : ComparisonId]
    BY <1>1 DEF ReviewFound
  <1> HIDE DEF target
  <1>4. DecodesReview(v)
    BY <1>1, <1>2, <1>3 DEF DecodesReview, Exact
  <1> QED
    BY <1>4 DEF v

\* A disposition decodes under its status; a confirmed one names its child.
LEMMA DispositionDecodes ==
    ASSUME TypeOK, NEW x \in dispositions,
           x.status = "confirmed" => x.child \in Sha
    PROVE  /\ DecodesCoachingDecision(DispositionValue(x))
           /\ DispositionValue(x).status = x.status
  <1> DEFINE common == [status |-> x.status, id |-> x.id,
                        proposalId |-> x.proposal]
             own == IF x.status = "confirmed" THEN [childNodeSha |-> x.child]
                    ELSE <<>>
             v == common ++ own
  <1>1. /\ x.status \in {"confirmed", "rejected"} /\ x.id \in DecisionId
        /\ x.proposal \in ProposalId
    BY DEF TypeOK, Disposition
  <1>2. DispositionValue(x) = v
    BY Zenon DEF DispositionValue
  <1>3. /\ DOMAIN common = {"status", "id", "proposalId"}
        /\ common.status = x.status /\ common.id = x.id
        /\ common.proposalId = x.proposal
    OBVIOUS
  <1>4. /\ DOMAIN own = IF x.status = "confirmed" THEN {"childNodeSha"} ELSE {}
        /\ x.status = "confirmed" => own.childNodeSha = x.child
    OBVIOUS
  <1> HIDE DEF common, own
  <1>5. /\ DOMAIN v = {"status", "id", "proposalId"} \cup DOMAIN own
        /\ v.status = x.status /\ v.id = x.id /\ v.proposalId = x.proposal
        /\ x.status = "confirmed" => v.childNodeSha = x.child
    BY <1>3, <1>4 DEF ++
  <1> HIDE DEF v
  <1>6. DecodesCoachingDecision(v)
    BY <1>1, <1>4, <1>5 DEF DecodesCoachingDecision, Exact
  <1> QED
    BY <1>2, <1>5, <1>6

\* A proposal and what it becomes of one from a v2 log.
LEMMA ProposalDecodes ==
    ASSUME TypeOK, NEW q \in ProposalId, proposals[q] # None,
           HasNode(proposals[q].project, proposals[q].source)
    PROVE  /\ DecodesProposal(ProposalValue(q))
           /\ DecodesProposal(UpgradedProposal(V2Proposal(ProposalValue(q))))
  <1> DEFINE p == proposals[q].project
             n == NodeAt(p, proposals[q].source)
             source == NodeValue(n)
             v == ProposalValue(q)
             w == UpgradedProposal(V2Proposal(v))
  <1>1. p \in Project /\ proposals[q].plan \in Plan
    BY DEF TypeOK, Proposal
  <1>2. n \in nodes
    BY DEF HasNode, NodeAt
  <1>3. /\ n.kind \in {"root", "run_child", "coaching_child"} /\ n.sha \in Sha
    BY <1>2 DEF TypeOK, Node
  <1> HIDE DEF n
  <1>4. IsValueOf(source, n)
    BY <1>3, NodeValueIs
  <1>5. /\ v.id = q /\ v.projectId = p /\ v.sourceNodeSha = source.commitSha
        /\ v.sourcePayloadDigest = source.payloadDigest
        /\ v.sourcePlanDigest = source.planDigest
        /\ v.proposedPlan = PlanValue(proposals[q].plan)
        /\ v.proposedPlanDigest = PlanDigest(proposals[q].plan)
        /\ v.summary = Text /\ v.rationale = Text
        /\ DOMAIN v = ProposalKeys \cup {"summary", "rationale"}
    BY DEF ProposalValue, ProposalKeys, n
  <1> HIDE DEF source, v
  <1>6. /\ v.sourceNodeSha \in Sha
        /\ IsDigest("payload", v.sourcePayloadDigest)
        /\ IsDigest("plan", v.sourcePlanDigest)
        /\ IsDigest("plan", v.proposedPlanDigest)
    BY <1>3, <1>4, <1>5 DEF IsValueOf, IsDigest, Digest, PlanDigest
  <1>7. DecodesPlan(v.proposedPlan)
    BY <1>1, <1>5, PlanDecodes
  <1>8. DecodesProposed(v)
    BY <1>1, <1>5, <1>6, <1>7 DEF DecodesProposed
  <1>9. /\ DOMAIN w = ProposalKeys \cup {"summary", "rationale"}
        /\ \A key \in ProposalKeys : w[key] = v[key]
        /\ w.summary = Text /\ w.rationale = Text
    BY <1>5 DEF UpgradedProposal, V2Proposal, ProposalKeys
  <1> HIDE DEF w
  <1>10. DecodesProposed(w)
    BY <1>8, <1>9 DEF DecodesProposed, ProposalKeys
  <1>11. DecodesProposal(v) /\ DecodesProposal(w)
    BY <1>5, <1>8, <1>9, <1>10 DEF DecodesProposal, Exact
  <1> QED
    BY <1>11 DEF v, w

\* A finding with a summary of each of the Nodes of a list.
LEMMA FindingDecodes ==
    ASSUME NEW shas \in Seq(Sha), shas # <<>>, IsInjective(shas),
           NEW listed \in Seq(Sha), Len(listed) = Len(shas),
           Range(listed) = Range(shas)
    PROVE  /\ DecodesFinding(Finding(shas))
           /\ SummarizesAll(Finding(shas), listed)
  <1> DEFINE v == Finding(shas)
             one(i) == [nodeSha |-> shas[i], summary |-> Text]
  <1>1. /\ DOMAIN v = {"subject", "summaries"}
        /\ v.summaries = [i \in DOMAIN shas |-> one(i)]
    BY DEF Finding
  <1>2. \A i \in DOMAIN shas : /\ one(i) \in [nodeSha : Sha, summary : {Text}]
                               /\ one(i).nodeSha = shas[i]
    OBVIOUS
  <1> HIDE DEF v, one
  <1>3. /\ DOMAIN v.summaries = DOMAIN shas
        /\ \A i \in DOMAIN shas : v.summaries[i] = one(i)
    BY <1>1
  <1>4. v.summaries # <<>> /\ Len(v.summaries) = Len(shas)
    <2>1. DOMAIN shas = 1..Len(shas) /\ Len(shas) \in Nat /\ Len(shas) # 0
      OBVIOUS
    <2>2. v.summaries = [i \in 1..Len(shas) |-> one(i)]
      BY <1>1, <2>1
    <2>3. \A i \in 1..Len(shas) : one(i) \in [nodeSha : Sha, summary : {Text}]
      BY <1>2, <2>1
    <2>4. /\ v.summaries \in Seq([nodeSha : Sha, summary : {Text}])
          /\ Len(v.summaries) = Len(shas)
      BY <2>1, <2>2, <2>3
    <2> QED
      BY <2>1, <2>4
  <1>5. DecodesFinding(v)
    BY <1>1, <1>2, <1>3, <1>4, Zenon DEF DecodesFinding, Exact
  <1>6. SummarizedNodes(v) = shas
    <2>1. SummarizedNodes(v) = [i \in DOMAIN shas |-> shas[i]]
      BY <1>2, <1>3 DEF SummarizedNodes
    <2> QED
      BY <2>1
  <1>7. SummarizesAll(v, listed)
    BY <1>4, <1>6 DEF SummarizesAll
  <1> QED
    BY <1>5, <1>7 DEF v

\* A list and its reverse have the same elements as often.
LEMMA ReverseLists ==
    ASSUME NEW S, NEW s, IsListingOf(s, S)
    PROVE  /\ s \in Seq(S) /\ IsInjective(s) /\ Range(s) = S
           /\ Reverse(s) \in Seq(S) /\ IsInjective(Reverse(s))
           /\ Range(Reverse(s)) = S /\ Len(Reverse(s)) = Len(s)
  <1> DEFINE t == Reverse(s)
             N == Len(s)
  <1>1. /\ s \in Seq(S) /\ N \in Nat /\ DOMAIN s = 1..N
        /\ \A i \in 1..N : s[i] \in S
    BY DEF IsListingOf
  <1>2. t = [i \in 1..N |-> s[(N - i) + 1]]
    BY Zenon DEF Reverse
  <1> HIDE DEF N, t
  <1>3. \A i \in 1..N : (N - i) + 1 \in 1..N /\ (N - ((N - i) + 1)) + 1 = i
    BY <1>1
  <1>4. \A i \in 1..N : t[i] = s[(N - i) + 1] /\ t[i] \in S
    BY <1>1, <1>2, <1>3
  <1>5. t \in Seq(S) /\ Len(t) = N /\ DOMAIN t = 1..N
    BY <1>1, <1>2, <1>4
  <1>6. /\ \A i, j \in 1..N : s[i] = s[j] => i = j
        /\ \A x \in S : \E i \in 1..N : s[i] = x
    BY DEF IsListingOf, N
  <1>7. \A i, j \in 1..N : t[i] = t[j] => i = j
    <2> SUFFICES ASSUME NEW i \in 1..N, NEW j \in 1..N, t[i] = t[j]
                 PROVE  i = j
      OBVIOUS
    <2>1. (N - i) + 1 = (N - j) + 1
      BY <1>3, <1>4, <1>6
    <2> QED
      BY <1>1, <2>1
  <1>8. \A x \in S : \E i \in 1..N : t[i] = x
    <2> TAKE x \in S
    <2>1. PICK i \in 1..N : s[i] = x
      BY <1>6
    <2>2. (N - i) + 1 \in 1..N /\ t[(N - i) + 1] = x
      BY <1>3, <1>4, <2>1
    <2> QED
      BY <2>2
  <1>9. Range(s) = S /\ Range(t) = S
    <2>1. Range(s) = {s[i] : i \in 1..N} /\ Range(t) = {t[i] : i \in 1..N}
      BY <1>1, <1>5 DEF Range
    <2>2. {s[i] : i \in 1..N} = S
      BY <1>1, <1>6
    <2>3. {t[i] : i \in 1..N} = S
      BY <1>4, <1>8
    <2> QED
      BY <2>1, <2>2, <2>3
  <1>10. IsInjective(s) /\ IsInjective(t)
    BY <1>1, <1>5, <1>6, <1>7 DEF IsInjective
  <1> QED
    BY <1>1, <1>5, <1>9, <1>10 DEF N, t

\* What the value of a comparison holds.
IsComparisonOf(v, c) ==
    /\ v.type = c.kind /\ v.id = c.id /\ v.projectId = c.project
    /\ v.nodeShas = Listing(c.nodes) /\ v.summary = Text
    /\ v.findings = <<Finding(Reverse(Listing(c.nodes)))>>
    /\ DOMAIN v = {"type", "id", "projectId", "nodeShas", "findings", "summary"}
                  \cup IF c.kind = "sibling_runs" THEN {"parentNodeSha"}
                       ELSE {"anchorNodeSha", "goalDigest"}
    /\ IF c.kind = "sibling_runs" THEN v.parentNodeSha = c.anchor
       ELSE /\ v.anchorNodeSha = c.anchor
            /\ v.goalDigest = Digest("goal", GoalValue(c.goal))

\* The fields of a comparison's value, whichever kind it is of.
LEMMA ComparisonValueIs ==
    ASSUME NEW c
    PROVE  IsComparisonOf(ComparisonValue(c), c)
  <1> DEFINE shas == Listing(c.nodes)
             common == [type |-> c.kind, id |-> c.id, projectId |-> c.project,
                        nodeShas |-> shas,
                        findings |-> <<Finding(Reverse(shas))>>,
                        summary |-> Text]
             own == IF c.kind = "sibling_runs" THEN [parentNodeSha |-> c.anchor]
                    ELSE [anchorNodeSha |-> c.anchor,
                          goalDigest |-> Digest("goal", GoalValue(c.goal))]
             v == common ++ own
  <1>1. ComparisonValue(c) = v
    BY Zenon DEF ComparisonValue
  <1>2. /\ DOMAIN common = {"type", "id", "projectId", "nodeShas", "findings",
                            "summary"}
        /\ common.type = c.kind /\ common.id = c.id
        /\ common.projectId = c.project /\ common.nodeShas = shas
        /\ common.findings = <<Finding(Reverse(shas))>>
        /\ common.summary = Text
    OBVIOUS
  <1>3. /\ DOMAIN own = IF c.kind = "sibling_runs" THEN {"parentNodeSha"}
                        ELSE {"anchorNodeSha", "goalDigest"}
        /\ IF c.kind = "sibling_runs" THEN own.parentNodeSha = c.anchor
           ELSE /\ own.anchorNodeSha = c.anchor
                /\ own.goalDigest = Digest("goal", GoalValue(c.goal))
    OBVIOUS
  <1> HIDE DEF common, own
  <1>4. /\ DOMAIN v = DOMAIN common \cup DOMAIN own
        /\ \A key \in DOMAIN common : v[key] = common[key]
        /\ \A key \in DOMAIN own : v[key] = own[key]
    BY <1>2, <1>3 DEF ++
  <1> HIDE DEF v
  <1>5. /\ v.type = c.kind /\ v.id = c.id /\ v.projectId = c.project
        /\ v.nodeShas = shas /\ v.summary = Text
        /\ v.findings = <<Finding(Reverse(shas))>>
    BY <1>2, <1>4
  <1>6. IF c.kind = "sibling_runs" THEN v.parentNodeSha = c.anchor
        ELSE /\ v.anchorNodeSha = c.anchor
             /\ v.goalDigest = Digest("goal", GoalValue(c.goal))
    BY <1>3, <1>4
  <1>7. DOMAIN v = {"type", "id", "projectId", "nodeShas", "findings", "summary"}
                   \cup IF c.kind = "sibling_runs" THEN {"parentNodeSha"}
                        ELSE {"anchorNodeSha", "goalDigest"}
    BY <1>2, <1>3, <1>4
  <1> HIDE DEF shas
  <1>8. IsComparisonOf(v, c)
    BY <1>5, <1>6, <1>7 DEF IsComparisonOf, shas
  <1> QED
    BY <1>1, <1>8

\* A comparison decodes: it names two Nodes at least, each once, and its
\* findings name the same ones.
LEMMA ComparisonDecodes ==
    ASSUME TypeOK, NEW c \in comparisons, IsFiniteSet(c.nodes),
           Cardinality(c.nodes) >= 2
    PROVE  DecodesComparison(ComparisonValue(c))
  <1> DEFINE v == ComparisonValue(c)
             shas == Listing(c.nodes)
             finding == Finding(Reverse(shas))
  <1>1. /\ c.id \in ComparisonId /\ c.project \in Project /\ c.anchor \in Sha
        /\ c.kind \in {"sibling_runs", "coached_how_experiment"}
        /\ c.nodes \subseteq Sha
    BY DEF TypeOK, Comparison
  <1>2. IsListingOf(shas, c.nodes)
    BY ListingListsOnce
  <1>3. IsComparisonOf(v, c)
    BY ComparisonValueIs
  <1> HIDE DEF v, shas
  <1>4. /\ shas \in Seq(c.nodes) /\ IsInjective(shas) /\ Range(shas) = c.nodes
        /\ Reverse(shas) \in Seq(c.nodes) /\ IsInjective(Reverse(shas))
        /\ Range(Reverse(shas)) = c.nodes /\ Len(Reverse(shas)) = Len(shas)
    BY <1>2, ReverseLists
  <1>5. Len(shas) >= 2 /\ Reverse(shas) # <<>>
    <2>1. Len(shas) >= 2
      BY <1>2 DEF IsListingOf
    <2> QED
      BY <1>4, <2>1
  <1>6. shas \in Seq(Sha) /\ Reverse(shas) \in Seq(Sha)
    BY <1>1, <1>4
  <1>7. DecodesFinding(finding) /\ SummarizesAll(finding, shas)
    BY <1>4, <1>5, <1>6, FindingDecodes
  <1> HIDE DEF finding
  <1>8. v.nodeShas = shas /\ v.findings = <<finding>>
    BY <1>3 DEF IsComparisonOf, shas, finding
  <1>9. \A i \in DOMAIN v.findings : v.findings[i] = finding
    BY <1>8
  <1>10. v.type = "coached_how_experiment" => IsDigest("goal", v.goalDigest)
    BY <1>3 DEF IsComparisonOf, IsDigest, Digest
  <1>11. DecodesComparison(v)
    BY <1>1, <1>3, <1>4, <1>5, <1>7, <1>8, <1>9, <1>10
       DEF DecodesComparison, IsComparisonOf, Exact
  <1> QED
    BY <1>11 DEF v

\* The value of a comparison from a v2 log, as it is upgraded.
LEMMA UpgradedComparisonDecodes ==
    ASSUME TypeOK, NEW c \in comparisons, IsFiniteSet(c.nodes),
           Cardinality(c.nodes) >= 2, c.kind = "sibling_runs",
           NEW S \in SUBSET c.nodes, S # {}
    PROVE  DecodesComparison(
             UpgradedComparison(V2Comparison(ComparisonValue(c), Listing(S))))
  <1> DEFINE v == ComparisonValue(c)
             shas == Listing(c.nodes)
             given == Finding(Listing(S))
             w == V2Comparison(v, Listing(S))
             filled == FilledFinding(given, w)
             findings == [i \in DOMAIN w.findings |->
                            FilledFinding(w.findings[i], w)]
             kept == [key \in DOMAIN w |->
                        IF key # "findings" THEN w[key] ELSE findings]
             type == [type |-> "sibling_runs"]
             u == type ++ kept
  <1>1. /\ c.id \in ComparisonId /\ c.project \in Project /\ c.anchor \in Sha
        /\ c.nodes \subseteq Sha
    BY DEF TypeOK, Comparison
  <1>2. IsListingOf(shas, c.nodes)
    BY ListingListsOnce
  <1>3. IsComparisonOf(v, c)
    BY ComparisonValueIs
  <1>4. UpgradedComparison(w) = u
    BY Zenon DEF UpgradedComparison
  <1> HIDE DEF v, shas, given
  <1>5. /\ shas \in Seq(c.nodes) /\ IsInjective(shas)
        /\ Range(shas) = c.nodes /\ Len(shas) >= 2
    BY <1>2, ReverseLists DEF IsListingOf
  <1>6. /\ DOMAIN w = {"id", "projectId", "nodeShas", "findings", "summary",
                       "parentNodeSha"}
        /\ w.id = c.id /\ w.projectId = c.project /\ w.nodeShas = shas
        /\ w.summary = Text /\ w.findings = <<given>>
        /\ w.parentNodeSha = c.anchor
    <2>1. DOMAIN v = {"type", "id", "projectId", "nodeShas", "findings",
                      "summary", "parentNodeSha"}
      BY <1>3 DEF IsComparisonOf
    <2>2. /\ DOMAIN w = DOMAIN v \ {"type"}
          /\ \A key \in DOMAIN v \ {"type"} :
               w[key] = IF key = "findings" THEN <<given>> ELSE v[key]
      BY DEF V2Comparison, given
    <2> HIDE DEF w
    <2>3. /\ v.id = c.id /\ v.projectId = c.project /\ v.nodeShas = shas
          /\ v.summary = Text /\ v.parentNodeSha = c.anchor
      BY <1>3 DEF IsComparisonOf, shas
    <2> QED
      BY <2>1, <2>2, <2>3
  <1> HIDE DEF w
  <1>7. findings = <<filled>>
    <2>1. /\ DOMAIN w.findings = {1} /\ w.findings[1] = given
      BY <1>6
    <2>2. findings = [i \in 1..1 |-> filled]
      <3>1. 1..1 = {1}
        OBVIOUS
      <3> QED
        BY <2>1, <3>1
    <2> HIDE DEF filled, findings
    <2> QED
      BY <2>2
  <1>8. /\ DOMAIN kept = DOMAIN w /\ kept.findings = <<filled>>
        /\ \A key \in DOMAIN w \ {"findings"} : kept[key] = w[key]
    BY <1>6, <1>7
  <1>9. DOMAIN type = {"type"} /\ type.type = "sibling_runs"
    OBVIOUS
  <1> HIDE DEF type, kept, findings
  <1>10. /\ DOMAIN u = DOMAIN w \cup {"type"} /\ u.type = "sibling_runs"
         /\ \A key \in DOMAIN w : u[key] = kept[key]
    BY <1>6, <1>8, <1>9 DEF ++
  <1> HIDE DEF u
  <1>11. /\ u.id = c.id /\ u.projectId = c.project /\ u.nodeShas = shas
         /\ u.findings = <<filled>> /\ u.parentNodeSha = c.anchor
    BY <1>6, <1>8, <1>10
  <1>12. DOMAIN u = {"type", "id", "projectId", "nodeShas", "findings",
                     "summary"} \cup {"parentNodeSha"}
    BY <1>6, <1>10
  <1>13. DecodesFinding(filled) /\ SummarizesAll(filled, shas)
    <2> DEFINE own(i) == {x \in Range(given.summaries) :
                            x.nodeSha = w.nodeShas[i]}
               one(i) == IF own(i) = {}
                         THEN [nodeSha |-> w.nodeShas[i],
                               summary |-> w.summary]
                         ELSE CHOOSE x \in own(i) : TRUE
               summaries == [i \in DOMAIN w.nodeShas |-> one(i)]
    <2>1. filled = [subject |-> given.subject, summaries |-> summaries]
      BY Zenon DEF FilledFinding
    <2>2. \A x \in Range(given.summaries) :
             x \in [nodeSha : Sha, summary : {Text}]
      <3>1. IsListingOf(Listing(S), S)
        BY FS_Subset, ListingListsOnce
      <3>2. \A i \in DOMAIN Listing(S) : Listing(S)[i] \in Sha
        BY <1>1, <3>1 DEF IsListingOf
      <3>3. given.summaries
              = [i \in DOMAIN Listing(S) |->
                   [nodeSha |-> Listing(S)[i], summary |-> Text]]
        BY DEF given, Finding
      <3> QED
        BY <3>2, <3>3 DEF Range
    <2>3. \A i \in DOMAIN shas : shas[i] \in Sha
      BY <1>1, <1>5
    <2>4. \A i \in DOMAIN shas :
             one(i) \in [nodeSha : Sha, summary : {Text}]
             /\ one(i).nodeSha = shas[i]
      <3> TAKE i \in DOMAIN shas
      <3>1. CASE own(i) = {}
        BY <1>6, <2>3, <3>1
      <3>2. CASE own(i) # {}
        <4>1. one(i) \in own(i)
          BY <3>2
        <4> HIDE DEF one
        <4> QED
          BY <1>6, <2>2, <4>1
      <3> QED
        BY <3>1, <3>2
    <2> HIDE DEF one, own
    <2>5. /\ DOMAIN filled = {"subject", "summaries"}
          /\ filled.summaries = summaries
      BY <2>1
    <2> HIDE DEF filled
    <2>6. summaries # <<>> /\ Len(summaries) = Len(shas)
          /\ DOMAIN summaries = DOMAIN shas
          /\ \A i \in DOMAIN shas : summaries[i] = one(i)
      <3>1. DOMAIN shas = 1..Len(shas) /\ Len(shas) \in Nat
        BY <1>5
      <3>2. summaries \in Seq([nodeSha : Sha, summary : {Text}])
            /\ Len(summaries) = Len(shas)
        BY <1>6, <2>4, <3>1
      <3> QED
        BY <1>5, <1>6, <3>1, <3>2
    <2> HIDE DEF summaries
    <2>7. DecodesFinding(filled)
      <3>1. /\ filled.summaries # <<>>
            /\ \A i \in DOMAIN filled.summaries :
                 filled.summaries[i] \in [nodeSha : Sha, summary : {Text}]
        BY <2>4, <2>5, <2>6
      <3> QED
        BY <2>5, <3>1, Zenon DEF DecodesFinding, Exact
    <2>8. SummarizedNodes(filled) = shas
      <3>1. SummarizedNodes(filled) = [i \in DOMAIN shas |-> shas[i]]
        BY <2>4, <2>5, <2>6 DEF SummarizedNodes
      <3> QED
        BY <1>5, <3>1
    <2> QED
      BY <1>5, <2>5, <2>6, <2>7, <2>8 DEF SummarizesAll
  <1> HIDE DEF filled
  <1>14. \A i \in DOMAIN u.findings : u.findings[i] = filled
    BY <1>11
  <1>15. DecodesComparison(u)
    BY <1>1, <1>5, <1>10, <1>11, <1>12, <1>13, <1>14
       DEF DecodesComparison, Exact
  <1> QED
    BY <1>4, <1>15 DEF v, w

\* A decision names one Node that it selects, or all that it rejects.
LEMMA DecisionDecodes ==
    ASSUME TypeOK, NEW d \in decisions, IsFiniteSet(d.nodes), d.nodes # {}
    PROVE  /\ DecodesDecision(DecisionValue(d))
           /\ DecisionValue(d).type = d.kind
  <1> DEFINE shas == Listing(d.nodes)
             one == CHOOSE s \in d.nodes : TRUE
             common == [type |-> d.kind, id |-> d.id, projectId |-> d.project,
                        comparisonId |-> d.comparison]
             own == IF d.kind = "selection" THEN [selectedNodeSha |-> one]
                    ELSE [rejectedNodeShas |-> shas]
             v == common ++ own
  <1>1. /\ d.id \in DecisionId /\ d.project \in Project
        /\ d.comparison \in ComparisonId /\ d.nodes \subseteq Sha
        /\ d.kind \in {"selection", "rejection"}
    BY DEF TypeOK, Decision
  <1>2. one \in Sha
    BY <1>1
  <1>3. /\ shas # <<>> /\ IsInjective(shas) /\ Range(shas) \subseteq Sha
    <2>1. IsListingOf(shas, d.nodes)
      BY ListingListsOnce
    <2> HIDE DEF shas
    <2>2. IsInjective(shas) /\ Range(shas) = d.nodes
      BY <2>1, ReverseLists
    <2>3. shas # <<>>
      <3>1. PICK s \in d.nodes : TRUE
        OBVIOUS
      <3>2. PICK i \in 1..Len(shas) : shas[i] = s
        BY <2>1 DEF IsListingOf
      <3>3. Len(<<>>) = 0
        OBVIOUS
      <3> QED
        BY <3>2, <3>3
    <2> QED
      BY <1>1, <2>2, <2>3
  <1> HIDE DEF shas, one
  <1>4. DecisionValue(d) = v
    BY Zenon DEF DecisionValue, shas, one
  <1>5. /\ DOMAIN common = {"type", "id", "projectId", "comparisonId"}
        /\ common.type = d.kind /\ common.id = d.id
        /\ common.projectId = d.project /\ common.comparisonId = d.comparison
    OBVIOUS
  <1>6. /\ DOMAIN own = {IF d.kind = "selection" THEN "selectedNodeSha"
                         ELSE "rejectedNodeShas"}
        /\ IF d.kind = "selection" THEN own.selectedNodeSha = one
           ELSE own.rejectedNodeShas = shas
    OBVIOUS
  <1> HIDE DEF common, own
  <1>7. /\ DOMAIN v = DOMAIN common \cup DOMAIN own
        /\ v.type = d.kind /\ v.id = d.id
        /\ v.projectId = d.project /\ v.comparisonId = d.comparison
        /\ IF d.kind = "selection" THEN v.selectedNodeSha = one
           ELSE v.rejectedNodeShas = shas
    BY <1>5, <1>6 DEF ++
  <1> HIDE DEF v
  <1>8. DecodesDecision(v)
    BY <1>1, <1>2, <1>3, <1>5, <1>6, <1>7 DEF DecodesDecision, Exact
  <1> QED
    BY <1>4, <1>7, <1>8

-----------------------------------------------------------------------------
(* The events are decoded *)

\* What the events of a command know of it.
Meta(key, i, actor) ==
    [eventId |-> <<key, i - 1>>, idempotencyKey |-> key,
     fingerprint |-> Digest("command", key), actor |-> actor]

EventOf(body, key, i, actor) == body ++ [meta |-> Meta(key, i, actor)]

\* An event of Project p that is decoded as it was written, from a v2 log, too,
\* and registers a Node of p if it has a payload.
Readable(p, e) ==
    /\ DecodesStored(e) /\ V2EventDecodes(e)
    /\ "payload" \in DOMAIN e =>
         \E n \in nodes : n.project = p /\ e.node = NodeValue(n)

\* The event e carries the body and metadata that are decoded.
Carries(e, body) ==
    /\ DecodesMeta(e.meta)
    /\ DOMAIN e = DOMAIN body \cup {"meta"}
    /\ Body(e) = DOMAIN body \ {"type"}
    /\ \A field \in DOMAIN body : e[field] = body[field]

\* Adding its meta to an event's body changes no other field.
LEMMA EventCarriesBody ==
    ASSUME NEW body, "meta" \notin DOMAIN body, NEW key, NEW i,
           NEW actor \in {User, Coach, Plugin}
    PROVE  /\ Carries(EventOf(body, key, i, actor), body)
           /\ EventOf(body, key, i, actor).meta = Meta(key, i, actor)
  <1> DEFINE m == Meta(key, i, actor)
             own == [meta |-> m]
             e == EventOf(body, key, i, actor)
  <1>1. DecodesMeta(m)
    <2>1. DecodesActor(actor)
      <3>1. actor \in [type : {"user", "coach", "plugin"}, id : {Text}]
        BY DEF User, Coach, Plugin
      <3> QED
        BY <3>1 DEF DecodesActor
    <2>2. /\ DOMAIN m = {"eventId", "idempotencyKey", "fingerprint", "actor"}
          /\ m.fingerprint = Digest("command", key) /\ m.actor = actor
      BY DEF Meta
    <2> HIDE DEF m
    <2> QED
      BY <2>1, <2>2 DEF DecodesMeta, Exact, IsDigest, Digest
  <1>2. DOMAIN own = {"meta"} /\ own.meta = m
    OBVIOUS
  <1>3. e = body ++ own
    BY Zenon DEF EventOf
  <1> HIDE DEF m, own, e
  <1>4. /\ DOMAIN e = DOMAIN body \cup {"meta"} /\ e.meta = m
        /\ \A field \in DOMAIN body : e[field] = body[field]
    BY <1>2, <1>3 DEF ++
  <1>5. Carries(e, body)
    BY <1>1, <1>4 DEF Carries, Body
  <1> QED
    BY <1>4, <1>5 DEF e, m

\* Each type of event, made of values that decode, decodes in v3 and as
\* upgraded from v2: from here to DecidedReads.
LEMMA CreatedReads ==
    ASSUME NEW p \in Project, rootSha[p] \in Sha, NEW e,
           Carries(e, [type |-> "ProjectCreated",
                       project |-> [id |-> p, rootNodeSha |-> rootSha[p]]])
    PROVE  Readable(p, e)
  <1> DEFINE v == [id |-> p, rootNodeSha |-> rootSha[p]]
  <1>1. /\ e.type = "ProjectCreated" /\ e.project = v
        /\ DOMAIN e = {"type", "project", "meta"} /\ Body(e) = {"project"}
        /\ DecodesMeta(e.meta)
    BY DEF Carries
  <1>2. DecodesProject(v)
    BY DEF DecodesProject, Exact
  <1> HIDE DEF v
  <1> QED
    BY <1>1, <1>2 DEF Readable, DecodesStored, DecodesEvent, V2EventDecodes

LEMMA StartedReads ==
    ASSUME NEW p, NEW v, DecodesRun(v), v.status = "running", NEW e,
           Carries(e, [type |-> "RunStarted", run |-> v])
    PROVE  Readable(p, e)
  <1>1. /\ e.type = "RunStarted" /\ e.run = v
        /\ DOMAIN e = {"type", "run", "meta"} /\ Body(e) = {"run"}
        /\ DecodesMeta(e.meta)
    BY DEF Carries
  <1> QED
    BY <1>1 DEF Readable, DecodesStored, DecodesEvent, V2EventDecodes

LEMMA CheckpointedReads ==
    ASSUME NEW p, NEW v, DecodesCheckpoint(v), NEW e,
           Carries(e, [type |-> "RunCheckpointed", checkpoint |-> v])
    PROVE  Readable(p, e)
  <1>1. /\ e.type = "RunCheckpointed" /\ e.checkpoint = v
        /\ DOMAIN e = {"type", "checkpoint", "meta"} /\ Body(e) = {"checkpoint"}
        /\ DecodesMeta(e.meta)
    BY DEF Carries
  <1> QED
    BY <1>1 DEF Readable, DecodesStored, DecodesEvent, V2EventDecodes

LEMMA AttachedReads ==
    ASSUME NEW p, NEW v, DecodesEvidence(v), NEW e,
           Carries(e, [type |-> "RunEvidenceAttached", evidence |-> v])
    PROVE  Readable(p, e)
  <1>1. /\ e.type = "RunEvidenceAttached" /\ e.evidence = v
        /\ DOMAIN e = {"type", "evidence", "meta"} /\ Body(e) = {"evidence"}
        /\ DecodesMeta(e.meta)
    BY DEF Carries
  <1> QED
    BY <1>1 DEF Readable, DecodesStored, DecodesEvent, V2EventDecodes

LEMMA CompletedReads ==
    ASSUME NEW p, NEW v, DecodesResult(v), NEW e,
           Carries(e, [type |-> "RunCompleted", result |-> v])
    PROVE  Readable(p, e)
  <1>1. /\ e.type = "RunCompleted" /\ e.result = v
        /\ DOMAIN e = {"type", "result", "meta"} /\ Body(e) = {"result"}
        /\ DecodesMeta(e.meta)
    BY DEF Carries
  <1> QED
    BY <1>1 DEF Readable, DecodesStored, DecodesEvent, V2EventDecodes

LEMMA EndedReads ==
    ASSUME NEW p, NEW r \in RunId, NEW type \in {"RunFailed", "RunCanceled"},
           NEW e, Carries(e, [type |-> type, runId |-> r])
    PROVE  Readable(p, e)
  <1>1. /\ e.type = type /\ e.runId = r
        /\ DOMAIN e = {"type", "runId", "meta"} /\ Body(e) = {"runId"}
        /\ DecodesMeta(e.meta)
    BY DEF Carries
  <1> QED
    BY <1>1 DEF Readable, DecodesStored, DecodesEvent, V2EventDecodes

LEMMA ReviewedReads ==
    ASSUME NEW p, NEW v, DecodesReview(v), NEW e,
           Carries(e, [type |-> "CoachReviewRecorded", review |-> v])
    PROVE  Readable(p, e)
  <1>1. /\ e.type = "CoachReviewRecorded" /\ e.review = v
        /\ DOMAIN e = {"type", "review", "meta"} /\ Body(e) = {"review"}
        /\ DecodesMeta(e.meta)
    BY DEF Carries
  <1> QED
    BY <1>1 DEF Readable, DecodesStored, DecodesEvent, V2EventDecodes

LEMMA ProposedReads ==
    ASSUME NEW p, NEW v, DecodesProposal(v),
           DecodesProposal(UpgradedProposal(V2Proposal(v))), NEW e,
           Carries(e, [type |-> "CoachingProposalRecorded", proposal |-> v])
    PROVE  Readable(p, e)
  <1>1. /\ e.type = "CoachingProposalRecorded" /\ e.proposal = v
        /\ DOMAIN e = {"type", "proposal", "meta"} /\ Body(e) = {"proposal"}
        /\ DecodesMeta(e.meta)
    BY DEF Carries
  <1>2. V2EventDecodes(e)
    BY <1>1 DEF V2EventDecodes
  <1> QED
    BY <1>1, <1>2 DEF Readable, DecodesStored, DecodesEvent

LEMMA DisposedReads ==
    ASSUME NEW p, NEW v, DecodesCoachingDecision(v), NEW type,
           \/ type = "CoachingProposalConfirmed" /\ v.status = "confirmed"
           \/ type = "CoachingProposalRejected" /\ v.status = "rejected",
           NEW e, Carries(e, [type |-> type, decision |-> v])
    PROVE  Readable(p, e)
  <1>1. /\ e.type = type /\ e.decision = v
        /\ DOMAIN e = {"type", "decision", "meta"} /\ Body(e) = {"decision"}
        /\ DecodesMeta(e.meta)
    BY DEF Carries
  <1> QED
    BY <1>1 DEF Readable, DecodesStored, DecodesEvent, V2EventDecodes

LEMMA ComparedReads ==
    ASSUME NEW p, NEW v, DecodesComparison(v),
           v.type = "sibling_runs" =>
             \A S \in (SUBSET Range(v.nodeShas)) \ {{}} :
               DecodesComparison(UpgradedComparison(V2Comparison(v, Listing(S)))),
           NEW e,
           Carries(e, [type |-> "AlternativesCompared", comparison |-> v])
    PROVE  Readable(p, e)
  <1>1. /\ e.type = "AlternativesCompared" /\ e.comparison = v
        /\ DOMAIN e = {"type", "comparison", "meta"} /\ Body(e) = {"comparison"}
        /\ DecodesMeta(e.meta)
    BY DEF Carries
  <1>2. V2EventDecodes(e)
    BY <1>1 DEF V2EventDecodes
  <1> QED
    BY <1>1, <1>2 DEF Readable, DecodesStored, DecodesEvent

LEMMA DecidedReads ==
    ASSUME NEW p, NEW v, DecodesDecision(v), NEW type,
           \/ type = "AlternativeSelected" /\ v.type = "selection"
           \/ type = "AlternativesRejected" /\ v.type = "rejection",
           NEW e, Carries(e, [type |-> type, decision |-> v])
    PROVE  Readable(p, e)
  <1>1. /\ e.type = type /\ e.decision = v
        /\ DOMAIN e = {"type", "decision", "meta"} /\ Body(e) = {"decision"}
        /\ DecodesMeta(e.meta)
    BY DEF Carries
  <1> QED
    BY <1>1 DEF Readable, DecodesStored, DecodesEvent, V2EventDecodes

\* The event with which a Node of p is registered.
LEMMA RegisteredReads ==
    ASSUME NEW p, NEW n \in nodes, n.project = p, NodeShape(n), NEW type,
           \/ type = "RootNodeRegistered" /\ n.kind = "root"
           \/ type = "RunChildNodeRegistered" /\ n.kind = "run_child"
           \/ type = "CoachingChildNodeRegistered" /\ n.kind = "coaching_child",
           NEW e, Carries(e, Registered(type, n))
    PROVE  Readable(p, e) /\ e.node = NodeValue(n) /\ "payload" \in DOMAIN e
  <1> DEFINE v == NodeValue(n)
             envelope == Envelope(PayloadOf(v))
  <1>1. /\ e.type = type /\ e.node = v /\ e.payload = envelope
        /\ DOMAIN e = {"type", "node", "payload", "meta"}
        /\ Body(e) = {"node", "payload"} /\ DecodesMeta(e.meta)
    BY DEF Carries, Registered
  <1>2. DecodesNode(v) /\ HoldsPayloadOf(v, envelope)
    BY NodeDecodes
  <1>3. v.type = n.kind
    <2>1. n.kind \in {"root", "run_child", "coaching_child"}
      BY DEF NodeShape, Node
    <2>2. IsValueOf(v, n)
      BY <2>1, NodeValueIs
    <2> HIDE DEF v
    <2> QED
      BY <2>2 DEF IsValueOf
  <1> HIDE DEF v, envelope
  <1>4. DecodesRegistration(e, n.kind)
    BY <1>1, <1>2, <1>3 DEF DecodesRegistration, HoldsPayloadOf, Opens
  <1>5. DecodesEvent(e)
    BY <1>1, <1>4 DEF DecodesEvent
  <1>6. V2EventDecodes(e)
    BY <1>1 DEF V2EventDecodes
  <1> QED
    BY <1>1, <1>2, <1>5, <1>6 DEF Readable, DecodesStored, v

-----------------------------------------------------------------------------
(* Every batch is decoded *)

\* What the records refer to is there.
RecordsFit ==
    /\ \A q \in Proposed : HasNode(proposals[q].project, proposals[q].source)
    /\ \A w \in reviews : ReviewFound(w)
    /\ \A c \in comparisons : IsFiniteSet(c.nodes) /\ Cardinality(c.nodes) >= 2
    /\ \A d \in decisions : IsFiniteSet(d.nodes) /\ d.nodes # {}

\* The batch of a command on Project p: its events are decoded and have the
\* metadata of the command.
IsBatchOf(p, key, b) ==
    /\ IsBatch(b)
    /\ \E actor : \A i \in DOMAIN b : b[i].meta = Meta(key, i, actor)
    /\ \A i \in DOMAIN b : Readable(p, b[i])

\* A command of one event, and of two, is a whole batch that can be read.
LEMMA OneEventReads ==
    ASSUME NEW p, NEW type, NEW id, NEW actor \in {User, Coach, Plugin},
           NEW body, "meta" \notin DOMAIN body,
           \A e : Carries(e, body) => Readable(p, e)
    PROVE  IsBatchOf(p, <<type, id>>, OneEvent(type, id, actor, body))
  <1> DEFINE key == <<type, id>>
             b == OneEvent(type, id, actor, body)
  <1>1. IsBatch(b)
    BY OneEventIsBatch DEF OneEvent
  <1>2. DOMAIN b = {1} /\ b[1] = EventOf(body, key, 1, actor)
    <2>1. DOMAIN <<body>> = {1} /\ <<body>>[1] = body
      OBVIOUS
    <2> QED
      BY <2>1, Zenon DEF OneEvent, Batch, EventOf, Meta
  <1> HIDE DEF b, key
  <1>3. Carries(b[1], body) /\ b[1].meta = Meta(key, 1, actor)
    BY <1>2, EventCarriesBody
  <1>4. Readable(p, b[1])
    BY <1>3
  <1> QED
    BY <1>1, <1>2, <1>3, <1>4 DEF IsBatchOf, b, key

LEMMA TwoEventsRead ==
    ASSUME NEW p, NEW key, NEW actor \in {User, Coach, Plugin},
           NEW x, "meta" \notin DOMAIN x, NEW y, "meta" \notin DOMAIN y,
           \A e : Carries(e, x) => Readable(p, e),
           \A e : Carries(e, y) => Readable(p, e)
    PROVE  IsBatchOf(p, key, Batch(key, actor, <<x, y>>))
  <1> DEFINE b == Batch(key, actor, <<x, y>>)
  <1>1. IsBatch(b)
    BY TwoEventsAreBatch
  <1>2. /\ DOMAIN b = {1, 2} /\ b[1] = EventOf(x, key, 1, actor)
        /\ b[2] = EventOf(y, key, 2, actor)
    <2>1. /\ DOMAIN <<x, y>> = {1, 2}
          /\ <<x, y>>[1] = x /\ <<x, y>>[2] = y
      OBVIOUS
    <2> QED
      BY <2>1, Zenon DEF Batch, EventOf, Meta
  <1> HIDE DEF b
  <1>3. /\ Carries(b[1], x) /\ b[1].meta = Meta(key, 1, actor)
        /\ Carries(b[2], y) /\ b[2].meta = Meta(key, 2, actor)
    BY <1>2, EventCarriesBody
  <1>4. Readable(p, b[1]) /\ Readable(p, b[2])
    BY <1>3
  <1> QED
    BY <1>1, <1>2, <1>3, <1>4 DEF IsBatchOf, b

\* The Nodes of a tree have the references that their kinds ask for.
LEMMA NodesHaveShape ==
    ASSUME TreeInv, NEW n \in nodes
    PROVE  NodeShape(n)
  <1>1. /\ n \in Node
        /\ \A m \in nodes : m.sha \in Sha
    BY DEF TreeInv, TypeOK, Node
  <1>2. n.kind # "root" => n.parent \in Sha
    BY <1>1 DEF TreeInv, NodeGraphValid, ParentsRegistered, HasNode
  <1>3. /\ n.kind = "run_child" => n.origin \in RunId
        /\ n.kind = "coaching_child" => n.origin \in ProposalId
    BY DEF TreeInv, ResultsMatchRuns, CoachingMatchesDispositions
  <1> QED
    BY <1>1, <1>2, <1>3 DEF NodeShape

\* The Node that a Project's commit is registered as.
LEMMA NodeIsAt ==
    ASSUME TreeInv, NEW n \in nodes
    PROVE  NodeAt(n.project, n.sha) = n
  <1>1. HasNode(n.project, n.sha)
    BY DEF HasNode
  <1>2. /\ NodeAt(n.project, n.sha) \in nodes
        /\ NodeAt(n.project, n.sha).project = n.project
        /\ NodeAt(n.project, n.sha).sha = n.sha
    BY <1>1, NodeFound
  <1> QED
    BY <1>2 DEF TreeInv, NodeGraphValid, NodesUnique

\* Registering a Node of the tree is an event that can be read.
LEMMA RegisteredCarries ==
    ASSUME TreeInv, NEW p, NEW n \in nodes, n.project = p, NEW type,
           \/ type = "RootNodeRegistered" /\ n.kind = "root"
           \/ type = "RunChildNodeRegistered" /\ n.kind = "run_child"
           \/ type = "CoachingChildNodeRegistered" /\ n.kind = "coaching_child"
    PROVE  /\ "meta" \notin DOMAIN Registered(type, n)
           /\ \A e : Carries(e, Registered(type, n)) => Readable(p, e)
  <1>1. "meta" \notin DOMAIN Registered(type, n)
    BY DEF Registered
  <1> QED
    BY <1>1, NodesHaveShape, RegisteredReads

\* The batch of every command can be read, given what the invariants say of
\* its records: from here to DismissalBatchReads.
LEMMA CreationReads ==
    ASSUME TreeInv, NEW p \in Project, rootSha[p] # None
    PROVE  IsBatchOf(p, <<"CreateProject", p>>, CreationBatch(p))
  <1> DEFINE n == NodeAt(p, rootSha[p])
             x == [type |-> "ProjectCreated",
                   project |-> [id |-> p, rootNodeSha |-> rootSha[p]]]
             y == Registered("RootNodeRegistered", n)
  <1>1. n \in nodes /\ n.project = p /\ n.kind = "root"
    <2>1. PICK m \in nodes : m.project = p /\ m.kind = "root"
      BY DEF TreeInv, NodeGraphValid, RootsDeclared
    <2>2. m.sha = rootSha[p]
      BY <2>1 DEF TreeInv, NodeGraphValid, RootsDeclared
    <2>3. n = m
      BY <2>1, <2>2, NodeIsAt
    <2> QED
      BY <2>1, <2>3
  <1>2. rootSha[p] \in Sha
    BY DEF TreeInv, TypeOK
  <1>3. CreationBatch(p) = Batch(<<"CreateProject", p>>, User, <<x, y>>)
    BY Zenon DEF CreationBatch
  <1> HIDE DEF n
  <1>4. "meta" \notin DOMAIN x
    OBVIOUS
  <1>5. \A e : Carries(e, x) => Readable(p, e)
    BY <1>2, CreatedReads
  <1>6. "meta" \notin DOMAIN y /\ \A e : Carries(e, y) => Readable(p, e)
    BY <1>1, RegisteredCarries
  <1> HIDE DEF x, y
  <1> QED
    BY <1>3, <1>4, <1>5, <1>6, TwoEventsRead

LEMMA RunCommandReads ==
    ASSUME TreeInv, NEW p, NEW key, NEW b, IsRunCommand(p, key, b)
    PROVE  IsBatchOf(p, key, b)
  <1>1. PICK r \in ProjectRuns(p) :
           \/ key = <<"StartRun", r>> /\ b = StartBatch(r)
           \/ \E k \in checkpoints :
                key = <<"CheckpointRun", k.id>> /\ b = CheckpointBatch(k)
           \/ \E e \in evidence :
                /\ e.run = r /\ key = <<"AttachRunEvidence", e.id>>
                /\ b = EvidenceBatch(e)
           \/ /\ runs[r].status = "completed"
              /\ key = <<"CompleteRun", r>> /\ b = CompleteBatch(r)
           \/ key = <<"FailRun", r>> /\ b = FailBatch(r)
           \/ key = <<"CancelRun", r>> /\ b = CancelBatch(r)
    BY DEF IsRunCommand
  <1>2. r \in RunId /\ runs[r] # None /\ runs[r].project = p /\ TypeOK
    BY DEF ProjectRuns, TreeInv
  <1>3. CASE key = <<"StartRun", r>> /\ b = StartBatch(r)
    <2> DEFINE body == [type |-> "RunStarted", run |-> StartedRun(r)]
    <2>1. "meta" \notin DOMAIN body
      OBVIOUS
    <2>2. \A e : Carries(e, body) => Readable(p, e)
      BY <1>2, StartedRunDecodes, StartedReads
    <2>3. StartBatch(r) = OneEvent("StartRun", r, Plugin, body)
      BY Zenon DEF StartBatch
    <2> HIDE DEF body
    <2> QED
      BY <1>3, <2>1, <2>2, <2>3, OneEventReads
  <1>4. CASE \E k \in checkpoints :
               key = <<"CheckpointRun", k.id>> /\ b = CheckpointBatch(k)
    <2>1. PICK k \in checkpoints :
             key = <<"CheckpointRun", k.id>> /\ b = CheckpointBatch(k)
      BY <1>4
    <2> DEFINE body == [type |-> "RunCheckpointed",
                        checkpoint |-> CheckpointValue(k)]
    <2>2. "meta" \notin DOMAIN body
      OBVIOUS
    <2>3. \A e : Carries(e, body) => Readable(p, e)
      BY <1>2, CheckpointDecodes, CheckpointedReads
    <2>4. CheckpointBatch(k) = OneEvent("CheckpointRun", k.id, Plugin, body)
      BY Zenon DEF CheckpointBatch
    <2> HIDE DEF body
    <2> QED
      BY <2>1, <2>2, <2>3, <2>4, OneEventReads
  <1>5. CASE \E e \in evidence : /\ e.run = r
                                 /\ key = <<"AttachRunEvidence", e.id>>
                                 /\ b = EvidenceBatch(e)
    <2>1. PICK x \in evidence : /\ x.run = r
                                /\ key = <<"AttachRunEvidence", x.id>>
                                /\ b = EvidenceBatch(x)
      BY <1>5
    <2> DEFINE body == [type |-> "RunEvidenceAttached",
                        evidence |-> EvidenceValue(x)]
    <2>2. "meta" \notin DOMAIN body
      OBVIOUS
    <2>3. \A e : Carries(e, body) => Readable(p, e)
      BY <1>2, <2>1, EvidenceDecodes, AttachedReads
    <2>4. EvidenceBatch(x) = OneEvent("AttachRunEvidence", x.id, Plugin, body)
      BY Zenon DEF EvidenceBatch
    <2> HIDE DEF body
    <2> QED
      BY <2>1, <2>2, <2>3, <2>4, OneEventReads
  <1>6. CASE /\ runs[r].status = "completed"
             /\ key = <<"CompleteRun", r>> /\ b = CompleteBatch(r)
    <2>1. PICK n \in nodes : /\ n.kind = "run_child" /\ n.project = p
                             /\ n.sha = runs[r].result
      BY <1>2, <1>6 DEF TreeInv, ResultsMatchRuns
    <2>2. NodeAt(runs[r].project, runs[r].result) = n /\ n.sha \in Sha
      BY <1>2, <2>1, NodeIsAt DEF TypeOK, Node
    <2> DEFINE x == [type |-> "RunCompleted", result |-> ResultValue(r)]
               y == Registered("RunChildNodeRegistered", n)
    <2>3. "meta" \notin DOMAIN x
      OBVIOUS
    <2>4. \A e : Carries(e, x) => Readable(p, e)
      BY <1>2, <2>1, <2>2, ResultDecodes, CompletedReads
    <2>5. "meta" \notin DOMAIN y /\ \A e : Carries(e, y) => Readable(p, e)
      BY <2>1, RegisteredCarries
    <2>6. CompleteBatch(r) = Batch(key, Plugin, <<x, y>>)
      BY <1>6, <2>2, Zenon DEF CompleteBatch
    <2> HIDE DEF x, y
    <2> QED
      BY <1>6, <2>3, <2>4, <2>5, <2>6, TwoEventsRead
  <1>7. CASE key = <<"FailRun", r>> /\ b = FailBatch(r)
    <2> DEFINE body == [type |-> "RunFailed", runId |-> r]
    <2>1. "meta" \notin DOMAIN body
      OBVIOUS
    <2>2. \A e : Carries(e, body) => Readable(p, e)
      BY <1>2, EndedReads
    <2>3. FailBatch(r) = OneEvent("FailRun", r, Plugin, body)
      BY Zenon DEF FailBatch
    <2> HIDE DEF body
    <2> QED
      BY <1>7, <2>1, <2>2, <2>3, OneEventReads
  <1>8. CASE key = <<"CancelRun", r>> /\ b = CancelBatch(r)
    <2> DEFINE body == [type |-> "RunCanceled", runId |-> r]
    <2>1. "meta" \notin DOMAIN body
      OBVIOUS
    <2>2. \A e : Carries(e, body) => Readable(p, e)
      BY <1>2, EndedReads
    <2>3. CancelBatch(r) = OneEvent("CancelRun", r, Plugin, body)
      BY Zenon DEF CancelBatch
    <2> HIDE DEF body
    <2> QED
      BY <1>8, <2>1, <2>2, <2>3, OneEventReads
  <1> QED
    BY <1>1, <1>3, <1>4, <1>5, <1>6, <1>7, <1>8

LEMMA ReviewBatchReads ==
    ASSUME TypeOK, NEW p, NEW w \in reviews, ReviewFound(w)
    PROVE  IsBatchOf(p, <<"RecordCoachReview", w.id>>, ReviewBatch(w))
  <1> DEFINE body == [type |-> "CoachReviewRecorded", review |-> ReviewValue(w)]
  <1>1. "meta" \notin DOMAIN body
    OBVIOUS
  <1>2. \A e : Carries(e, body) => Readable(p, e)
    BY ReviewDecodes, ReviewedReads
  <1>3. ReviewBatch(w) = OneEvent("RecordCoachReview", w.id, Coach, body)
    BY Zenon DEF ReviewBatch
  <1> HIDE DEF body
  <1> QED
    BY <1>1, <1>2, <1>3, OneEventReads

LEMMA ProposalBatchReads ==
    ASSUME TypeOK, NEW p, NEW q \in Proposed,
           HasNode(proposals[q].project, proposals[q].source)
    PROVE  IsBatchOf(p, <<"RecordCoachingProposal", q>>, ProposalBatch(q))
  <1> DEFINE body == [type |-> "CoachingProposalRecorded",
                      proposal |-> ProposalValue(q)]
  <1>1. "meta" \notin DOMAIN body
    OBVIOUS
  <1>2. \A e : Carries(e, body) => Readable(p, e)
    BY ProposalDecodes, ProposedReads DEF Proposed
  <1>3. ProposalBatch(q) = OneEvent("RecordCoachingProposal", q, Coach, body)
    BY Zenon DEF ProposalBatch
  <1> HIDE DEF body
  <1> QED
    BY <1>1, <1>2, <1>3, OneEventReads

LEMMA ConfirmationBatchReads ==
    ASSUME TreeInv, NEW p, NEW x \in dispositions, x.status = "confirmed",
           proposals[x.proposal].project = p
    PROVE  IsBatchOf(p, <<"ConfirmCoachingProposal", x.id>>, ConfirmBatch(x))
  <1>1. PICK n \in nodes : /\ n.kind = "coaching_child" /\ n.project = p
                           /\ n.sha = x.child
    BY DEF TreeInv, CoachingMatchesDispositions
  <1>2. NodeAt(proposals[x.proposal].project, x.child) = n
    BY <1>1, NodeIsAt
  <1>3. TypeOK /\ x.child \in Sha
    BY <1>1 DEF TreeInv, TypeOK, Node
  <1> DEFINE y == [type |-> "CoachingProposalConfirmed",
                   decision |-> DispositionValue(x)]
             z == Registered("CoachingChildNodeRegistered", n)
  <1>4. "meta" \notin DOMAIN y
    OBVIOUS
  <1>5. \A e : Carries(e, y) => Readable(p, e)
    BY <1>3, DispositionDecodes, DisposedReads
  <1>6. "meta" \notin DOMAIN z /\ \A e : Carries(e, z) => Readable(p, e)
    BY <1>1, RegisteredCarries
  <1>7. ConfirmBatch(x)
          = Batch(<<"ConfirmCoachingProposal", x.id>>, User, <<y, z>>)
    BY <1>2, Zenon DEF ConfirmBatch
  <1> HIDE DEF y, z
  <1> QED
    BY <1>4, <1>5, <1>6, <1>7, TwoEventsRead

LEMMA RejectionBatchReads ==
    ASSUME TypeOK, NEW p, NEW x \in dispositions, x.status = "rejected"
    PROVE  IsBatchOf(p, <<"RejectCoachingProposal", x.id>>, RejectBatch(x))
  <1> DEFINE body == [type |-> "CoachingProposalRejected",
                      decision |-> DispositionValue(x)]
  <1>1. "meta" \notin DOMAIN body
    OBVIOUS
  <1>2. \A e : Carries(e, body) => Readable(p, e)
    BY DispositionDecodes, DisposedReads
  <1>3. RejectBatch(x) = OneEvent("RejectCoachingProposal", x.id, User, body)
    BY Zenon DEF RejectBatch
  <1> HIDE DEF body
  <1> QED
    BY <1>1, <1>2, <1>3, OneEventReads

LEMMA ComparisonBatchReads ==
    ASSUME TypeOK, NEW p, NEW c \in comparisons, IsFiniteSet(c.nodes),
           Cardinality(c.nodes) >= 2
    PROVE  IsBatchOf(p, <<"CompareAlternatives", c.id>>, CompareBatch(c))
  <1> DEFINE v == ComparisonValue(c)
             body == [type |-> "AlternativesCompared", comparison |-> v]
  <1>1. "meta" \notin DOMAIN body
    OBVIOUS
  <1>2. DecodesComparison(v)
    BY ComparisonDecodes
  <1>3. v.type = c.kind /\ Range(v.nodeShas) = c.nodes
    <2>1. IsComparisonOf(v, c)
      BY ComparisonValueIs
    <2> HIDE DEF v
    <2>2. v.type = c.kind /\ v.nodeShas = Listing(c.nodes)
      BY <2>1 DEF IsComparisonOf
    <2>3. Range(Listing(c.nodes)) = c.nodes
      BY ListingListsOnce, ReverseLists
    <2> QED
      BY <2>2, <2>3
  <1>4. v.type = "sibling_runs" =>
          \A S \in (SUBSET Range(v.nodeShas)) \ {{}} :
            DecodesComparison(UpgradedComparison(V2Comparison(v, Listing(S))))
    BY <1>3, UpgradedComparisonDecodes
  <1>5. CompareBatch(c) = OneEvent("CompareAlternatives", c.id, Coach, body)
    BY Zenon DEF CompareBatch
  <1> HIDE DEF v
  <1>6. \A e : Carries(e, body) => Readable(p, e)
    BY <1>2, <1>4, ComparedReads
  <1> HIDE DEF body
  <1> QED
    BY <1>1, <1>5, <1>6, OneEventReads

LEMMA SelectionBatchReads ==
    ASSUME TypeOK, NEW p, NEW d \in decisions, IsFiniteSet(d.nodes),
           d.nodes # {}, d.kind = "selection"
    PROVE  IsBatchOf(p, <<"SelectAlternative", d.id>>, SelectBatch(d))
  <1> DEFINE body == [type |-> "AlternativeSelected",
                      decision |-> DecisionValue(d)]
  <1>1. "meta" \notin DOMAIN body
    OBVIOUS
  <1>2. \A e : Carries(e, body) => Readable(p, e)
    BY DecisionDecodes, DecidedReads
  <1>3. SelectBatch(d) = OneEvent("SelectAlternative", d.id, User, body)
    BY Zenon DEF SelectBatch
  <1> HIDE DEF body
  <1> QED
    BY <1>1, <1>2, <1>3, OneEventReads

LEMMA DismissalBatchReads ==
    ASSUME TypeOK, NEW p, NEW d \in decisions, IsFiniteSet(d.nodes),
           d.nodes # {}, d.kind = "rejection"
    PROVE  IsBatchOf(p, <<"RejectAlternatives", d.id>>, DismissBatch(d))
  <1> DEFINE body == [type |-> "AlternativesRejected",
                      decision |-> DecisionValue(d)]
  <1>1. "meta" \notin DOMAIN body
    OBVIOUS
  <1>2. \A e : Carries(e, body) => Readable(p, e)
    BY DecisionDecodes, DecidedReads
  <1>3. DismissBatch(d) = OneEvent("RejectAlternatives", d.id, User, body)
    BY Zenon DEF DismissBatch
  <1> HIDE DEF body
  <1> QED
    BY <1>1, <1>2, <1>3, OneEventReads

\* Every batch of a log is decoded.
LEMMA CommandReads ==
    ASSUME TreeInv, RecordsFit, NEW p \in Project, rootSha[p] # None,
           NEW key, NEW b, IsCommand(p, key, b)
    PROVE  IsBatchOf(p, key, b)
  <1>1. TypeOK
    BY DEF TreeInv
  <1>2. CASE key = <<"CreateProject", p>> /\ b = CreationBatch(p)
    BY <1>2, CreationReads
  <1>3. CASE IsRunCommand(p, key, b)
    BY <1>3, RunCommandReads
  <1>4. CASE \E w \in reviews :
               key = <<"RecordCoachReview", w.id>> /\ b = ReviewBatch(w)
    BY <1>1, <1>4, ReviewBatchReads DEF RecordsFit
  <1>5. CASE \E q \in ProjectProposals(p) :
               key = <<"RecordCoachingProposal", q>> /\ b = ProposalBatch(q)
    <2>1. ProjectProposals(p) \subseteq Proposed
      BY DEF ProjectProposals, Proposed
    <2> QED
      BY <1>1, <1>5, <2>1, ProposalBatchReads DEF RecordsFit
  <1>6. CASE \E x \in dispositions :
               /\ x.proposal \in ProjectProposals(p)
               /\ x.status = "confirmed" /\ b = ConfirmBatch(x)
               /\ key = <<"ConfirmCoachingProposal", x.id>>
    BY <1>6, ConfirmationBatchReads DEF ProjectProposals
  <1>7. CASE \E x \in dispositions :
               /\ x.status = "rejected" /\ b = RejectBatch(x)
               /\ key = <<"RejectCoachingProposal", x.id>>
    BY <1>1, <1>7, RejectionBatchReads
  <1>8. CASE \E c \in comparisons :
               key = <<"CompareAlternatives", c.id>> /\ b = CompareBatch(c)
    BY <1>1, <1>8, ComparisonBatchReads DEF RecordsFit
  <1>9. CASE \E d \in decisions :
               /\ d.kind = "selection" /\ b = SelectBatch(d)
               /\ key = <<"SelectAlternative", d.id>>
    BY <1>1, <1>9, SelectionBatchReads DEF RecordsFit
  <1>10. CASE \E d \in decisions :
                /\ d.kind = "rejection" /\ b = DismissBatch(d)
                /\ key = <<"RejectAlternatives", d.id>>
    BY <1>1, <1>10, DismissalBatchReads DEF RecordsFit
  <1> QED
    BY <1>2, <1>3, <1>4, <1>5, <1>6, <1>7, <1>8, <1>9, <1>10 DEF IsCommand

\* The batches of a log that register a Node: those of the creation, of a Run's
\* completion and of a confirmed proposal.
LEMMA RegistrationIsBatch ==
    ASSUME NEW p, NEW type, NEW n, NEW key, NEW actor, NEW x,
           NEW b \in AllBatches(p),
           b = Batch(key, actor, <<x, Registered(type, n)>>)
    PROVE  \E c \in AllBatches(p) : \E i \in DOMAIN c :
              "payload" \in DOMAIN c[i] /\ c[i].node = NodeValue(n)
  <1> DEFINE y == Registered(type, n)
  <1>1. "payload" \in DOMAIN y /\ "node" \in DOMAIN y /\ y.node = NodeValue(n)
    BY DEF Registered
  <1>2. \E m : DOMAIN b = {1, 2} /\ b[2] = y ++ m
    <2>1. DOMAIN <<x, y>> = {1, 2} /\ <<x, y>>[2] = y
      OBVIOUS
    <2> QED
      BY <2>1, Zenon DEF Batch
  <1> HIDE DEF y
  <1>3. "payload" \in DOMAIN b[2] /\ b[2].node = y.node
    BY <1>1, <1>2 DEF ++
  <1> QED
    BY <1>1, <1>2, <1>3

\* The batches that register a child are among those of the Project.
LEMMA CompletionIsBatch ==
    ASSUME NEW p, NEW r \in ProjectRuns(p), runs[r].status = "completed"
    PROVE  CompleteBatch(r) \in AllBatches(p)
  <1> DEFINE end == CASE runs[r].status = "running" -> {}
                      [] runs[r].status = "completed" -> {CompleteBatch(r)}
                      [] runs[r].status = "failed" -> {FailBatch(r)}
                      [] runs[r].status = "canceled" -> {CancelBatch(r)}
  <1>1. \E S : RunBatches(r) = S \cup end
    BY Zenon DEF RunBatches, CompleteBatch, FailBatch, CancelBatch, OneEvent
  <1>2. CompleteBatch(r) \in end
    OBVIOUS
  <1> HIDE DEF end
  <1>3. CompleteBatch(r) \in RunBatches(r)
    BY <1>1, <1>2
  <1> QED
    BY <1>3 DEF AllBatches, BatchesOf

LEMMA ConfirmationIsBatch ==
    ASSUME NEW p, NEW x \in dispositions, x.status = "confirmed",
           x.proposal \in ProjectProposals(p)
    PROVE  ConfirmBatch(x) \in AllBatches(p)
  <1> DEFINE q == x.proposal
             S == {y \in dispositions : y.proposal = q /\ y.status = "confirmed"}
             Confirm(y) ==
               Batch(<<"ConfirmCoachingProposal", y.id>>, User,
                     <<[type |-> "CoachingProposalConfirmed",
                        decision |-> DispositionValue(y)],
                       Registered("CoachingChildNodeRegistered",
                                  NodeAt(proposals[q].project, y.child))>>)
  <1>1. \E A, B : CoachingBatches(q) = A \cup {Confirm(y) : y \in S} \cup B
    BY Zenon DEF CoachingBatches
  <1>2. Confirm(x) = ConfirmBatch(x)
    BY Zenon DEF ConfirmBatch
  <1> HIDE DEF Confirm
  <1>3. ConfirmBatch(x) \in CoachingBatches(q)
    BY <1>1, <1>2
  <1> QED
    BY <1>3 DEF AllBatches, BatchesOf

\* Every Node of a Project is registered by one of its batches.
LEMMA NodesAreRegistered ==
    ASSUME TreeInv, ChildrenOfProposals, NEW p, NEW n \in nodes, n.project = p
    PROVE  \E b \in AllBatches(p) : \E i \in DOMAIN b :
              "payload" \in DOMAIN b[i] /\ b[i].node = NodeValue(n)
  <1>1. n.kind \in {"root", "run_child", "coaching_child"}
    BY DEF TreeInv, TypeOK, Node
  <1>2. NodeAt(p, n.sha) = n
    BY NodeIsAt
  <1>3. CASE n.kind = "root"
    <2>1. n.sha = rootSha[p]
      BY <1>3 DEF TreeInv, NodeGraphValid, RootsDeclared
    <2>2. CreationBatch(p) \in AllBatches(p)
      BY DEF AllBatches
    <2>3. \E x : CreationBatch(p)
                   = Batch(<<"CreateProject", p>>, User,
                           <<x, Registered("RootNodeRegistered", n)>>)
      BY <1>2, <2>1, Zenon DEF CreationBatch
    <2> QED
      BY <2>2, <2>3, RegistrationIsBatch
  <1>4. CASE n.kind = "run_child"
    <2> DEFINE r == n.origin
    <2>1. /\ r \in ProjectRuns(p) /\ runs[r].status = "completed"
          /\ runs[r].result = n.sha /\ runs[r].project = p
      BY <1>4 DEF TreeInv, ResultsMatchRuns, ProjectRuns
    <2>2. \E x : CompleteBatch(r)
                   = Batch(<<"CompleteRun", r>>, Plugin,
                           <<x, Registered("RunChildNodeRegistered", n)>>)
      BY <1>2, <2>1, Zenon DEF CompleteBatch
    <2> QED
      BY <2>1, <2>2, CompletionIsBatch, RegistrationIsBatch
  <1>5. CASE n.kind = "coaching_child"
    <2>1. PICK x \in dispositions : /\ x.proposal = n.origin
                                    /\ x.status = "confirmed"
                                    /\ x.child = n.sha
      BY <1>5 DEF TreeInv, CoachingMatchesDispositions
    <2>2. x.proposal \in ProjectProposals(p) /\ proposals[x.proposal].project = p
      BY <1>5, <2>1 DEF ChildrenOfProposals, ProjectProposals, TreeInv,
                       CoachingMatchesDispositions
    <2>3. \E y : ConfirmBatch(x)
                   = Batch(<<"ConfirmCoachingProposal", x.id>>, User,
                           <<y, Registered("CoachingChildNodeRegistered", n)>>)
      BY <1>2, <2>1, <2>2, Zenon DEF ConfirmBatch
    <2> QED
      BY <2>1, <2>2, <2>3, ConfirmationIsBatch, RegistrationIsBatch
  <1> QED
    BY <1>1, <1>3, <1>4, <1>5

-----------------------------------------------------------------------------
(* The log is made of whole batches *)

\* Event n of the log is in the batch of the l events after number b, which are
\* all that the command with this key has in the log.
BatchAt(log, n, b, l, key, actor) ==
    /\ b \in Nat /\ l \in {1, 2} /\ b + l <= Len(log)
    /\ n \in (b + 1)..(b + l)
    /\ \A m \in DOMAIN log :
         log[m].meta.idempotencyKey = key <=> m \in (b + 1)..(b + l)
    /\ \A m \in (b + 1)..(b + l) : log[m].meta = Meta(key, m - b, actor)

\* A log of whole batches, whose events are decoded and register the Nodes of p.
IsLogOf(p, log) ==
    /\ \E E : log \in Seq(E)
    /\ Len(log) \in Nat \ {0} /\ DOMAIN log = 1..Len(log)
    /\ \A n \in DOMAIN log : Readable(p, log[n])
    /\ \A n \in DOMAIN log :
         \E b, l, key, actor : BatchAt(log, n, b, l, key, actor)
    /\ \A n \in nodes : n.project = p =>
         \E m \in DOMAIN log : /\ "payload" \in DOMAIN log[m]
                               /\ log[m].node = NodeValue(n)

\* The log is made of the batches of different commands, which register the
\* Nodes of p.
IsMadeOfBatches(p, E, log, N, part, off, key) ==
    /\ log \in Seq(E) /\ N \in Nat
    /\ part \in [0..N -> Seq(E)] /\ off \in [0..N -> Nat]
    /\ IsMadeOf(log, part, off, N)
    /\ \A k \in 0..N : IsBatchOf(p, key[k], part[k])
    /\ \A j, k \in 0..N : key[j] = key[k] => j = k
    /\ \A n \in nodes : n.project = p =>
         \E k \in 0..N : \E i \in DOMAIN part[k] :
            "payload" \in DOMAIN part[k][i] /\ part[k][i].node = NodeValue(n)

\* What is made of the batches of different commands is a log of them.
LEMMA BatchesMakeLog ==
    ASSUME NEW p, NEW E, NEW log, NEW N, NEW part, NEW off, NEW key,
           IsMadeOfBatches(p, E, log, N, part, off, key)
    PROVE  IsLogOf(p, log)
  <1> USE DEF IsMadeOfBatches
  <1>1. Len(log) \in Nat /\ DOMAIN log = 1..Len(log)
    OBVIOUS
  <1>2. ASSUME NEW k \in 0..N
        PROVE  /\ off[k] \in Nat /\ Len(part[k]) \in {1, 2}
               /\ DOMAIN part[k] = 1..Len(part[k])
               /\ off[k] + Len(part[k]) <= Len(log)
               /\ \A i \in 1..Len(part[k]) : log[off[k] + i] = part[k][i]
    <2>1. part[k] \in Seq(E) /\ off[k] \in Nat
      OBVIOUS
    <2>2. Len(part[k]) \in {1, 2}
      BY BatchIsSequence DEF IsBatchOf
    <2>3. DOMAIN part[k] = 1..Len(part[k])
      BY <2>1
    <2> QED
      BY <2>1, <2>2, <2>3, Zenon DEF IsMadeOf
  <1>3. ASSUME NEW k \in 0..N, NEW m \in (off[k] + 1)..(off[k] + Len(part[k]))
        PROVE  /\ m \in DOMAIN log /\ m - off[k] \in 1..Len(part[k])
               /\ log[m] = part[k][m - off[k]]
    <2>1. /\ off[k] \in Nat /\ Len(part[k]) \in Nat
          /\ off[k] + Len(part[k]) <= Len(log) /\ Len(log) \in Nat
      BY <1>1, <1>2
    <2>2. \A b, l, L \in Nat : \A x \in (b + 1)..(b + l) : b + l <= L =>
             x \in 1..L /\ x - b \in 1..l /\ b + (x - b) = x
      OBVIOUS
    <2>3. /\ m \in 1..Len(log) /\ m - off[k] \in 1..Len(part[k])
          /\ off[k] + (m - off[k]) = m
      BY <2>1, <2>2
    <2>4. log[off[k] + (m - off[k])] = part[k][m - off[k]]
      BY <1>2, <2>3, Zenon
    <2> QED
      BY <1>1, <2>3, <2>4
  <1>4. ASSUME NEW n \in DOMAIN log
        PROVE  \E k \in 0..N : n \in (off[k] + 1)..(off[k] + Len(part[k]))
    <2>1. PICK k \in 0..N : n - off[k] \in 1..Len(part[k])
      BY <1>1 DEF IsMadeOf
    <2>2. off[k] \in Nat /\ Len(part[k]) \in Nat /\ n \in Nat
      BY <1>1, <1>2
    <2>3. \A x, b, l \in Nat : x - b \in 1..l => x \in (b + 1)..(b + l)
      OBVIOUS
    <2> QED
      BY <2>1, <2>2, <2>3
  <1>5. ASSUME NEW k \in 0..N
        PROVE  \E actor : \A i \in 1..Len(part[k]) :
                  part[k][i].meta = Meta(key[k], i, actor)
    <2>1. \E actor : \A i \in DOMAIN part[k] :
             part[k][i].meta = Meta(key[k], i, actor)
      BY Zenon DEF IsBatchOf
    <2>2. DOMAIN part[k] = 1..Len(part[k])
      BY <1>2
    <2> QED
      BY <2>1, <2>2, Zenon
  <1>6. ASSUME NEW k \in 0..N, NEW m \in (off[k] + 1)..(off[k] + Len(part[k]))
        PROVE  log[m].meta.idempotencyKey = key[k]
    <2>1. PICK actor : \A i \in 1..Len(part[k]) :
             part[k][i].meta = Meta(key[k], i, actor)
      BY <1>5
    <2>2. log[m].meta = Meta(key[k], m - off[k], actor)
      BY <1>3, <2>1
    <2> QED
      BY <2>2 DEF Meta
  <1>7. ASSUME NEW n \in DOMAIN log
        PROVE  \E b, l, id, actor : BatchAt(log, n, b, l, id, actor)
    <2>1. PICK k \in 0..N : n \in (off[k] + 1)..(off[k] + Len(part[k]))
      BY <1>4
    <2> DEFINE b == off[k]
               l == Len(part[k])
    <2>2. PICK actor : \A i \in 1..l : part[k][i].meta = Meta(key[k], i, actor)
      BY <1>5
    <2>3. \A m \in (b + 1)..(b + l) : log[m].meta = Meta(key[k], m - b, actor)
      BY <1>3, <2>2
    <2>4. ASSUME NEW m \in DOMAIN log
          PROVE  log[m].meta.idempotencyKey = key[k] <=> m \in (b + 1)..(b + l)
      <3>1. PICK j \in 0..N : m \in (off[j] + 1)..(off[j] + Len(part[j]))
        BY <1>4
      <3>2. log[m].meta.idempotencyKey = key[j]
        BY <1>6, <3>1
      <3>3. m \in (b + 1)..(b + l) => log[m].meta.idempotencyKey = key[k]
        BY <1>6
      <3> QED
        BY <3>1, <3>2, <3>3
    <2>5. b \in Nat /\ l \in {1, 2} /\ b + l <= Len(log)
      BY <1>2
    <2> HIDE DEF b, l
    <2>6. BatchAt(log, n, b, l, key[k], actor)
      BY <2>1, <2>3, <2>4, <2>5 DEF BatchAt, b, l
    <2> QED
      BY <2>6
  <1>8. \A n \in DOMAIN log : Readable(p, log[n])
    <2> TAKE n \in DOMAIN log
    <2>1. PICK k \in 0..N : n \in (off[k] + 1)..(off[k] + Len(part[k]))
      BY <1>4
    <2>2. n - off[k] \in DOMAIN part[k] /\ log[n] = part[k][n - off[k]]
      <3>1. /\ n - off[k] \in 1..Len(part[k])
            /\ log[n] = part[k][n - off[k]]
        BY <1>3, <2>1
      <3>2. DOMAIN part[k] = 1..Len(part[k])
        BY <1>2
      <3> QED
        BY <3>1, <3>2
    <2>3. IsBatchOf(p, key[k], part[k])
      BY Zenon
    <2>4. \A i \in DOMAIN part[k] : Readable(p, part[k][i])
      BY <2>3, Zenon DEF IsBatchOf
    <2> QED
      BY <2>2, <2>4, Zenon
  <1>9. ASSUME NEW n \in nodes, n.project = p
        PROVE  \E m \in DOMAIN log : /\ "payload" \in DOMAIN log[m]
                                     /\ log[m].node = NodeValue(n)
    <2>1. PICK k \in 0..N : \E i \in DOMAIN part[k] :
             "payload" \in DOMAIN part[k][i] /\ part[k][i].node = NodeValue(n)
      BY <1>9
    <2>2. PICK i \in 1..Len(part[k]) :
             "payload" \in DOMAIN part[k][i] /\ part[k][i].node = NodeValue(n)
      BY <1>2, <2>1
    <2>3. log[off[k] + i] = part[k][i]
      BY <1>2
    <2>4. off[k] + i \in DOMAIN log
      <3>1. /\ off[k] \in Nat /\ Len(part[k]) \in Nat /\ i \in 1..Len(part[k])
            /\ off[k] + Len(part[k]) <= Len(log)
        BY <1>2
      <3>2. \A b, l, L \in Nat : \A x \in 1..l : b + l <= L => b + x \in 1..L
        OBVIOUS
      <3> QED
        BY <1>1, <3>1, <3>2
    <2> QED
      BY <2>2, <2>3, <2>4
  <1>10. Len(log) # 0
    <2>1. 0 \in 0..N
      OBVIOUS
    <2>2. \A x, l, L \in Nat : l \in {1, 2} /\ x + l <= L => L # 0
      OBVIOUS
    <2>3. /\ off[0] \in Nat /\ Len(part[0]) \in {1, 2}
          /\ off[0] + Len(part[0]) <= Len(log)
      BY <1>2, <2>1
    <2> QED
      BY <1>1, <2>2, <2>3
  <1> QED
    BY <1>1, <1>7, <1>8, <1>9, <1>10 DEF IsLogOf

\* Every event of the log is one of a command's, and every event of a command
\* is in the log.
LogTells(p, log) ==
    /\ \A n \in DOMAIN log : \E key, b : \E i \in DOMAIN b :
          IsCommand(p, key, b) /\ log[n] = b[i]
    /\ \A b \in AllBatches(p) : \A i \in DOMAIN b :
          \E n \in DOMAIN log : log[n] = b[i]

\* So it is with what is made of all the batches of a Project.
LEMMA PartsTell ==
    ASSUME NEW p, NEW E, NEW log, NEW N, NEW part, NEW off, NEW key,
           IsMadeOfBatches(p, E, log, N, part, off, key),
           \A k \in 0..N : IsCommand(p, key[k], part[k]),
           \A b \in AllBatches(p) : \E k \in 0..N : part[k] = b
    PROVE  LogTells(p, log)
  <1> USE DEF IsMadeOfBatches
  <1>1. Len(log) \in Nat /\ DOMAIN log = 1..Len(log)
    OBVIOUS
  <1>2. \A k \in 0..N : DOMAIN part[k] = 1..Len(part[k])
    OBVIOUS
  <1>3. ASSUME NEW n \in DOMAIN log
        PROVE  \E id, b : \E i \in DOMAIN b :
                  IsCommand(p, id, b) /\ log[n] = b[i]
    <2>1. PICK k \in 0..N : n - off[k] \in 1..Len(part[k])
      BY <1>1 DEF IsMadeOf
    <2>2. log[off[k] + (n - off[k])] = part[k][n - off[k]]
      BY <2>1 DEF IsMadeOf
    <2>3. off[k] + (n - off[k]) = n
      <3>1. off[k] \in Nat /\ n \in Nat
        BY <1>1
      <3> QED
        BY <3>1
    <2>4. n - off[k] \in DOMAIN part[k] /\ log[n] = part[k][n - off[k]]
      BY <1>2, <2>1, <2>2, <2>3
    <2> QED
      BY <2>4
  <1>4. ASSUME NEW b \in AllBatches(p), NEW i \in DOMAIN b
        PROVE  \E n \in DOMAIN log : log[n] = b[i]
    <2>1. PICK k \in 0..N : part[k] = b
      OBVIOUS
    <2>2. i \in 1..Len(part[k])
      BY <1>2, <2>1
    <2>3. /\ log[off[k] + i] = b[i]
          /\ off[k] + Len(part[k]) <= Len(log)
      BY <2>1, <2>2 DEF IsMadeOf
    <2>4. off[k] + i \in DOMAIN log
      <3>1. part[k] \in Seq(E)
        OBVIOUS
      <3>2. off[k] \in Nat /\ Len(part[k]) \in Nat
        BY <3>1
      <3>3. \A o, l, L \in Nat : \A x \in 1..l : o + l <= L => o + x \in 1..L
        OBVIOUS
      <3> QED
        BY <1>1, <2>2, <2>3, <3>2, <3>3
    <2> QED
      BY <2>3, <2>4
  <1> QED
    BY <1>3, <1>4 DEF LogTells

\* The log of a Project is its creation, followed by one readable batch per
\* command in some order, of which no two share a key.
LEMMA LogShape ==
    ASSUME TreeInv, StateIsFinite, RecordsHaveIds, RecordsFit,
           ChildrenOfProposals, NEW p \in Project, rootSha[p] # None
    PROVE  IsLogOf(p, LogOf(p)) /\ LogTells(p, LogOf(p))
  <1> DEFINE B == BatchesOf(p)
             c == CreationBatch(p)
             E == UNION {{b[i] : i \in DOMAIN b} : b \in B \cup {c}}
             seqs == Listing(B)
             N == Len(seqs)
             part == [k \in 0..N |-> IF k = 0 THEN c ELSE seqs[k]]
             create == <<"CreateProject", p>>
             key == [k \in 0..N |->
                       IF k = 0 THEN create
                       ELSE CHOOSE id : IsCommand(p, id, part[k])
                                        /\ id[1] # "CreateProject"]
  <1>1. TypeOK
    BY DEF TreeInv
  <1>2. IsFiniteSet(B) /\ \A b \in B : IsBatch(b)
    BY <1>1, BatchesAreBatches DEF AreBatches
  <1>3. IsBatch(c)
    BY TwoEventsAreBatch DEF CreationBatch
  <1>4. \A b \in B \cup {c} : b \in Seq(E) /\ Len(b) \in {1, 2}
    <2> HIDE DEF B, c
    <2> TAKE b \in B \cup {c}
    <2>1. b \in Seq({b[i] : i \in DOMAIN b}) /\ Len(b) \in {1, 2}
      BY <1>2, <1>3, BatchIsSequence
    <2>2. {b[i] : i \in DOMAIN b} \subseteq E
      OBVIOUS
    <2> HIDE DEF E
    <2> QED
      BY <2>1, <2>2
  <1>5. \A b \in B : \E id : IsCommand(p, id, b) /\ id[1] # "CreateProject"
    BY <1>1, EveryBatchIsCommand
  <1>6. IsCommand(p, create, c)
    BY DEF IsCommand
  <1>7. \A x \in AllBatches(p) : x \in B \/ x = c
    BY DEF AllBatches
  <1> HIDE DEF E, B, c
  <1>8. IsListingOf(seqs, B)
    BY <1>2, ListingListsOnce
  <1>9. /\ N \in Nat /\ seqs \in Seq(Seq(E))
        /\ \A k \in 1..N : seqs[k] \in B
        /\ \A j, k \in 1..N : seqs[j] = seqs[k] => j = k
        /\ \A b \in B : \E k \in 1..N : seqs[k] = b
    <2>1. seqs \in Seq(B)
      BY <1>8 DEF IsListingOf
    <2>2. B \subseteq Seq(E)
      BY <1>4
    <2> HIDE DEF seqs
    <2>3. N \in Nat /\ seqs \in Seq(Seq(E)) /\ \A k \in 1..N : seqs[k] \in B
      BY <2>1, <2>2
    <2> QED
      BY <1>8, <2>3 DEF IsListingOf
  <1>10. c \in Seq(E)
    BY <1>4
  <1>11. LogOf(p) = c \o FlattenSeq(seqs)
    BY DEF LogOf, B, c
  <1> HIDE DEF seqs
  <1>12. /\ LogOf(p) \in Seq(E)
         /\ \E b \in [0..N -> Nat] : IsMadeOf(LogOf(p), part, b, N)
    <2>1. /\ c \o FlattenSeq(seqs) \in Seq(E)
          /\ \E b \in [0..N -> Nat] :
                b[0] = 0 /\ IsMadeOf(c \o FlattenSeq(seqs), part, b, N)
      BY <1>9, <1>10, FlattenIsMadeOf
    <2> HIDE DEF part, N
    <2> QED
      BY <1>11, <2>1, Zenon
  <1>13. PICK off \in [0..N -> Nat] : IsMadeOf(LogOf(p), part, off, N)
    BY <1>12
  <1>14. /\ part \in [0..N -> Seq(E)] /\ part[0] = c
         /\ \A k \in 1..N : part[k] = seqs[k]
    BY <1>9, <1>10
  <1>15. /\ 0 \in 0..N
         /\ \A k \in 0..N : k = 0 \/ k \in 1..N
         /\ \A k \in 1..N : k \in 0..N /\ k # 0
    BY <1>9
  <1> HIDE DEF part, N
  <1>16. key[0] = create
    BY <1>15
  <1>17. \A k \in 1..N : IsCommand(p, key[k], part[k])
                         /\ key[k][1] # "CreateProject"
    <2> TAKE k \in 1..N
    <2>1. part[k] \in B
      BY <1>9, <1>14
    <2>2. key[k] = CHOOSE id : IsCommand(p, id, part[k])
                               /\ id[1] # "CreateProject"
      BY <1>15
    <2> HIDE DEF key
    <2> QED
      BY <1>5, <2>1, <2>2
  <1> HIDE DEF key
  <1>27. \A k \in 0..N : IsCommand(p, key[k], part[k])
    BY <1>6, <1>14, <1>15, <1>16, <1>17
  <1>18. \A k \in 0..N : IsBatchOf(p, key[k], part[k])
    BY <1>27, CommandReads
  <1>19. \A j, k \in 0..N : key[j] = key[k] => j = k
    <2> SUFFICES ASSUME NEW j \in 0..N, NEW k \in 0..N, key[j] = key[k]
                 PROVE  j = k
      OBVIOUS
    <2>1. create[1] = "CreateProject"
      OBVIOUS
    <2>2. CASE j \in 1..N /\ k \in 1..N
      <3>1. part[j] = part[k]
        BY <1>17, <2>2, KeysDetermineBatches
      <3> QED
        BY <1>9, <1>14, <2>2, <3>1
    <2> HIDE DEF create
    <2> QED
      BY <1>15, <1>16, <1>17, <2>1, <2>2
  <1>20. \A n \in nodes : n.project = p =>
            \E k \in 0..N : \E i \in DOMAIN part[k] :
               "payload" \in DOMAIN part[k][i] /\ part[k][i].node = NodeValue(n)
    <2> SUFFICES ASSUME NEW n \in nodes, n.project = p
                 PROVE  \E k \in 0..N : \E i \in DOMAIN part[k] :
                           "payload" \in DOMAIN part[k][i]
                           /\ part[k][i].node = NodeValue(n)
      OBVIOUS
    <2>1. PICK b \in AllBatches(p) : \E i \in DOMAIN b :
             "payload" \in DOMAIN b[i] /\ b[i].node = NodeValue(n)
      BY NodesAreRegistered
    <2>2. \E k \in 0..N : part[k] = b
      BY <1>7, <1>9, <1>14, <1>15
    <2> QED
      BY <2>1, <2>2
  <1>21. LogOf(p) \in Seq(E)
    BY <1>12
  <1> DEFINE log == LogOf(p)
  <1> HIDE DEF log
  <1>22. N \in Nat /\ log \in Seq(E) /\ IsMadeOf(log, part, off, N)
    BY <1>9, <1>13, <1>21 DEF N, log
  <1>23. IsMadeOfBatches(p, E, log, N, part, off, key)
    BY <1>13, <1>14, <1>18, <1>19, <1>20, <1>22, Zenon DEF IsMadeOfBatches
  <1>24. IsLogOf(p, log)
    BY <1>23, BatchesMakeLog
  <1>25. \A b \in AllBatches(p) : \E k \in 0..N : part[k] = b
    BY <1>7, <1>9, <1>14, <1>15
  <1>26. LogTells(p, log)
    BY <1>27, <1>23, <1>25, PartsTell
  <1> QED
    BY <1>24, <1>26 DEF log

-----------------------------------------------------------------------------
(* The stored log decodes *)

\* What is stored of event n, the (n - b)-th of a command of l events.
StoredAt(s, p, log, n, b, l, key, actor) ==
    /\ s.eventId = <<p, key, n - (b + 1)>> /\ s.projectId = p
    /\ s.idempotencyKeyHash = key /\ s.commandHash = Digest("command", key)
    /\ s.previousStateSha = b + 1 /\ s.commandEventCount = l
    /\ s.sequence = n /\ s.actor = actor /\ s.event = log[n]

\* What StoredEvent says of an event's batch is where the event stands in it.
LEMMA EventIsStored ==
    ASSUME NEW p, NEW log, NEW n \in DOMAIN log, DOMAIN log = 1..Len(log),
           Len(log) \in Nat,
           NEW b, NEW l, NEW key, NEW actor, BatchAt(log, n, b, l, key, actor)
    PROVE  StoredAt(StoredEvent(p, log, n), p, log, n, b, l, key, actor)
  <1> DEFINE of(i) == log[i].meta.idempotencyKey
             batch == {i \in DOMAIN log : of(i) = of(n)}
             first == CHOOSE i \in batch : \A j \in batch : i <= j
  <1>1. /\ b \in Nat /\ l \in {1, 2} /\ n \in (b + 1)..(b + l)
        /\ b + l <= Len(log)
    BY DEF BatchAt
  <1>2. log[n].meta = Meta(key, n - b, actor)
    BY <1>1 DEF BatchAt
  <1>3. /\ of(n) = key /\ log[n].meta.fingerprint = Digest("command", key)
        /\ log[n].meta.actor = actor
    BY <1>2 DEF Meta
  <1>4. \A i \in (b + 1)..(b + l) : i \in DOMAIN log
    BY <1>1
  <1>5. batch = (b + 1)..(b + l)
    BY <1>3, <1>4 DEF BatchAt
  <1> HIDE DEF batch
  <1>6. first = b + 1
    <2>1. b + 1 \in batch /\ \A j \in batch : b + 1 <= j
      BY <1>1, <1>5
    <2>2. \A i \in batch : i \in Nat
      BY <1>1, <1>5
    <2>3. first \in batch /\ \A j \in batch : first <= j
      BY <2>1
    <2> HIDE DEF first
    <2>4. first <= b + 1 /\ b + 1 <= first /\ first \in Nat
      BY <2>1, <2>2, <2>3
    <2> QED
      BY <1>1, <2>4
  <1>7. Cardinality(batch) = l
    <2>1. b + 1 \in Int /\ b + l \in Int /\ ~(b + 1 > b + l)
          /\ (b + l) - (b + 1) + 1 = l
      BY <1>1
    <2> QED
      BY <1>5, <2>1, FS_Interval
  <1>8. StoredEvent(p, log, n) =
          [eventId |-> <<p, of(n), n - first>>, projectId |-> p,
           idempotencyKeyHash |-> of(n),
           commandHash |-> log[n].meta.fingerprint,
           previousStateSha |-> first,
           commandEventCount |-> Cardinality(batch),
           sequence |-> n, actor |-> log[n].meta.actor, event |-> log[n]]
    BY Zenon DEF StoredEvent, batch
  <1> HIDE DEF first, of
  <1> QED
    BY <1>3, <1>6, <1>7, <1>8 DEF StoredAt

\* The events of a command are stored as a whole, each once.
LEMMA BatchesAreValid ==
    ASSUME NEW p, NEW log, IsLogOf(p, log), NEW stored,
           DOMAIN stored = DOMAIN log,
           \A n \in DOMAIN log : stored[n] = StoredEvent(p, log, n)
    PROVE  BatchesValid(p, stored)
  <1>1. Len(log) \in Nat /\ DOMAIN log = 1..Len(log)
    BY DEF IsLogOf
  <1>2. ASSUME NEW i \in DOMAIN log
        PROVE  \E b, l, key, actor :
                  /\ BatchAt(log, i, b, l, key, actor)
                  /\ \A j \in DOMAIN log :
                       stored[j].idempotencyKeyHash = key
                         <=> j \in (b + 1)..(b + l)
                  /\ \A j \in (b + 1)..(b + l) :
                       /\ j \in DOMAIN log
                       /\ StoredAt(stored[j], p, log, j, b, l, key, actor)
    <2>1. PICK b, l, key, actor : BatchAt(log, i, b, l, key, actor)
      BY DEF IsLogOf
    <2>2. b \in Nat /\ l \in {1, 2} /\ b + l <= Len(log)
      BY <2>1 DEF BatchAt
    <2>3. ASSUME NEW j \in (b + 1)..(b + l)
          PROVE  /\ j \in DOMAIN log
                 /\ StoredAt(stored[j], p, log, j, b, l, key, actor)
      <3>1. j \in DOMAIN log
        BY <1>1, <2>2
      <3>2. BatchAt(log, j, b, l, key, actor)
        BY <2>1, <2>3 DEF BatchAt
      <3>3. StoredAt(StoredEvent(p, log, j), p, log, j, b, l, key, actor)
        BY <1>1, <3>1, <3>2, EventIsStored
      <3> QED
        BY <3>1, <3>3
    <2>4. ASSUME NEW j \in DOMAIN log
          PROVE  stored[j].idempotencyKeyHash = key <=> j \in (b + 1)..(b + l)
      <3>1. PICK c, k, id, who : BatchAt(log, j, c, k, id, who)
        BY DEF IsLogOf
      <3>2. StoredAt(stored[j], p, log, j, c, k, id, who)
        BY <1>1, <3>1, EventIsStored
      <3>3. stored[j].idempotencyKeyHash = id
        BY <3>2 DEF StoredAt
      <3>4. log[j].meta.idempotencyKey = id
        BY <3>1 DEF BatchAt
      <3>5. log[j].meta.idempotencyKey = key <=> j \in (b + 1)..(b + l)
        BY <2>1 DEF BatchAt
      <3> QED
        BY <3>3, <3>4, <3>5
    <2> QED
      BY <2>1, <2>3, <2>4
  <1>3. ASSUME NEW i \in DOMAIN log, NEW j \in DOMAIN log,
               stored[i].eventId = stored[j].eventId
        PROVE  i = j
    <2>1. PICK b, l, key, actor :
             /\ BatchAt(log, i, b, l, key, actor)
             /\ \A m \in DOMAIN log :
                  stored[m].idempotencyKeyHash = key
                    <=> m \in (b + 1)..(b + l)
             /\ \A m \in (b + 1)..(b + l) :
                  /\ m \in DOMAIN log
                  /\ StoredAt(stored[m], p, log, m, b, l, key, actor)
      BY <1>2
    <2>2. PICK c, k, id, who :
             /\ BatchAt(log, j, c, k, id, who)
             /\ \A m \in (c + 1)..(c + k) :
                  /\ m \in DOMAIN log
                  /\ StoredAt(stored[m], p, log, m, c, k, id, who)
      BY <1>2
    <2>3. i \in (b + 1)..(b + l) /\ j \in (c + 1)..(c + k)
      BY <2>1, <2>2 DEF BatchAt
    <2>4. /\ stored[i].eventId = <<p, key, i - (b + 1)>>
          /\ stored[j].eventId = <<p, id, j - (c + 1)>>
          /\ stored[j].idempotencyKeyHash = id
      BY <2>1, <2>2, <2>3 DEF StoredAt
    <2>0. \A a, x, y, u, v :
             <<a, x, y>> = <<a, u, v>> => x = u /\ y = v
      OBVIOUS
    <2>5. key = id
      <3>1. <<p, key, i - (b + 1)>> = <<p, id, j - (c + 1)>>
        BY <1>3, <2>4
      <3> QED
        BY <2>0, <3>1
    <2>6. j \in (b + 1)..(b + l)
      BY <2>1, <2>4, <2>5
    <2>7. stored[j].eventId = <<p, key, j - (b + 1)>>
      BY <2>1, <2>6 DEF StoredAt
    <2>8. i - (b + 1) = j - (b + 1)
      <3>1. <<p, key, i - (b + 1)>> = <<p, key, j - (b + 1)>>
        BY <1>3, <2>4, <2>7
      <3> QED
        BY <2>0, <3>1
    <2>9. b \in Nat /\ i \in Int /\ j \in Int
      BY <1>1, <2>1 DEF BatchAt
    <2> QED
      BY <2>8, <2>9
  <1>4. ASSUME NEW i \in DOMAIN log, NEW batch,
               batch = {j \in DOMAIN stored : stored[j].idempotencyKeyHash
                                              = stored[i].idempotencyKeyHash},
               NEW index, index = Cardinality({j \in batch : j < i})
        PROVE  /\ stored[i].eventId
                    = <<p, stored[i].idempotencyKeyHash, index>>
               /\ index > 0 => i - 1 \in batch
               /\ \A j \in batch :
                    /\ stored[j].commandHash = stored[i].commandHash
                    /\ stored[j].previousStateSha = stored[i].previousStateSha
                    /\ stored[j].actor = stored[i].actor
               /\ stored[i].commandEventCount = Cardinality(batch)
    <2>1. PICK b, l, key, actor :
             /\ BatchAt(log, i, b, l, key, actor)
             /\ \A m \in DOMAIN log :
                  stored[m].idempotencyKeyHash = key
                    <=> m \in (b + 1)..(b + l)
             /\ \A m \in (b + 1)..(b + l) :
                  /\ m \in DOMAIN log
                  /\ StoredAt(stored[m], p, log, m, b, l, key, actor)
      BY <1>2
    <2>2. /\ b \in Nat /\ l \in {1, 2} /\ i \in (b + 1)..(b + l) /\ i \in Nat
      BY <1>1, <2>1 DEF BatchAt
    <2>3. StoredAt(stored[i], p, log, i, b, l, key, actor)
      BY <2>1, <2>2
    <2>4. batch = (b + 1)..(b + l)
      <3>1. stored[i].idempotencyKeyHash = key
        BY <2>3 DEF StoredAt
      <3> QED
        BY <1>4, <2>1, <3>1
    <2>5. index = i - (b + 1) /\ index \in Nat
      <3>1. {j \in batch : j < i} = (b + 1)..(i - 1)
        BY <2>2, <2>4
      <3>2. Cardinality((b + 1)..(i - 1)) = i - (b + 1)
        <4>1. /\ b + 1 \in Int /\ i - 1 \in Int
              /\ (b + 1 > i - 1) => i - (b + 1) = 0
              /\ (i - 1) - (b + 1) + 1 = i - (b + 1)
          BY <2>2
        <4> QED
          BY <4>1, FS_Interval
      <3> QED
        <4>1. index = i - (b + 1)
          BY <1>4, <3>1, <3>2
        <4>2. i - (b + 1) \in Nat
          BY <2>2
        <4> QED
          BY <4>1, <4>2
    <2>6. Cardinality(batch) = l
      <3>1. b + 1 \in Int /\ b + l \in Int /\ ~(b + 1 > b + l)
            /\ (b + l) - (b + 1) + 1 = l
        BY <2>2
      <3> QED
        BY <2>4, <3>1, FS_Interval
    <2>7. index > 0 => i - 1 \in batch
      BY <2>2, <2>4, <2>5
    <2>8. /\ stored[i].eventId = <<p, key, i - (b + 1)>>
          /\ stored[i].idempotencyKeyHash = key
          /\ stored[i].commandEventCount = l
      BY <2>3 DEF StoredAt
    <2>9. ASSUME NEW j \in batch
          PROVE  /\ stored[j].commandHash = stored[i].commandHash
                 /\ stored[j].previousStateSha = stored[i].previousStateSha
                 /\ stored[j].actor = stored[i].actor
      <3>1. StoredAt(stored[j], p, log, j, b, l, key, actor)
        BY <2>1, <2>4
      <3> QED
        BY <2>3, <3>1 DEF StoredAt
    <2> QED
      BY <2>5, <2>6, <2>7, <2>8, <2>9
  <1> DEFINE key(i) == stored[i].idempotencyKeyHash
             batch(i) == {j \in DOMAIN stored : key(j) = key(i)}
             index(i) == Cardinality({j \in batch(i) : j < i})
  <1>5. ASSUME NEW i \in DOMAIN stored
        PROVE  /\ stored[i].eventId = <<p, key(i), index(i)>>
               /\ index(i) > 0 => i - 1 \in batch(i)
               /\ \A j \in batch(i) :
                    /\ stored[j].commandHash = stored[i].commandHash
                    /\ stored[j].previousStateSha = stored[i].previousStateSha
                    /\ stored[j].actor = stored[i].actor
               /\ stored[i].commandEventCount = Cardinality(batch(i))
    BY <1>4
  <1>6. \A i, j \in DOMAIN stored :
           stored[i].eventId = stored[j].eventId => i = j
    BY <1>3
  <1> QED
    BY <1>5, <1>6, Zenon DEF BatchesValid

\* A log that was written is read as it was written.
LEMMA LogReads ==
    ASSUME NEW p, NEW log, IsLogOf(p, log)
    PROVE  LET stored == SubSeq([n \in DOMAIN log |-> StoredEvent(p, log, n)],
                                1, Len(log))
           IN  /\ stored # <<>> /\ StoredLogDecodes(p, stored)
               /\ \A n \in DOMAIN stored : V2EventDecodes(stored[n].event)
  <1> DEFINE f == [n \in DOMAIN log |-> StoredEvent(p, log, n)]
             stored == SubSeq(f, 1, Len(log))
  <1>1. Len(log) \in Nat \ {0} /\ DOMAIN log = 1..Len(log)
    BY DEF IsLogOf
  <1>2. stored = f
    BY <1>1, SubSeqFull
  <1>3. DOMAIN stored = DOMAIN log
        /\ \A n \in DOMAIN log : stored[n] = StoredEvent(p, log, n)
    BY <1>2
  <1> HIDE DEF stored, f
  <1>4. stored # <<>>
    BY <1>1, <1>3
  <1>5. BatchesValid(p, stored)
    BY <1>3, BatchesAreValid
  <1>6. ASSUME NEW n \in DOMAIN stored
        PROVE  /\ stored[n].projectId = p /\ stored[n].sequence = n
               /\ stored[n].commandEventCount > 0
               /\ DecodesStored(stored[n].event)
               /\ V2EventDecodes(stored[n].event)
    <2>1. PICK b, l, key, actor : BatchAt(log, n, b, l, key, actor)
      BY <1>3 DEF IsLogOf
    <2>2. StoredAt(stored[n], p, log, n, b, l, key, actor)
      BY <1>1, <1>3, <2>1, EventIsStored
    <2>3. l > 0
      BY <2>1 DEF BatchAt
    <2>4. Readable(p, log[n])
      BY <1>3 DEF IsLogOf
    <2> QED
      BY <2>2, <2>3, <2>4 DEF StoredAt, Readable
  <1>7. StoredLogDecodes(p, stored)
    BY <1>5, <1>6, Zenon DEF StoredLogDecodes
  <1> QED
    BY <1>4, <1>6, <1>7 DEF stored, f

-----------------------------------------------------------------------------
(* The tags are found *)

TagOf(p, n) ==
    [managedRef |-> ManagedRef(p, n.sha), nodeSha |-> n.sha, treeSha |-> n.tree]

\* Every Node of a Project has the anchor tag that verifyNodeAnchors asks for,
\* because an event of the log registers it.
LEMMA TagsAreFound ==
    ASSUME TreeInv, NEW p, NEW log, IsLogOf(p, log)
    PROVE  AnchorsVerified(p, NodeAnchors(p), TagsOf(p, log))
  <1> DEFINE own == {m \in nodes : m.project = p}
             tags == TagsOf(p, log)
             anchors == NodeAnchors(p)
  <1>1. \A n \in own : /\ NodeValue(n).managedRef = ManagedRef(p, n.sha)
                       /\ NodeValue(n).commitSha = n.sha
                       /\ NodeValue(n).treeSha = n.tree
    <2> TAKE n \in own
    <2>1. IsValueOf(NodeValue(n), n)
      BY NodesHaveShape, NodeValueIs DEF NodeShape, Node
    <2> QED
      BY <2>1 DEF IsValueOf
  <1>2. anchors = {TagOf(p, n) : n \in own}
    BY <1>1 DEF NodeAnchors, TagOf
  <1>3. \A t \in tags : \E n \in own : t = TagOf(p, n)
    <2> TAKE t \in tags
    <2>1. PICK i \in DOMAIN log :
             /\ "payload" \in DOMAIN log[i]
             /\ t = [managedRef |-> ManagedRef(p, log[i].node.commitSha),
                     nodeSha |-> log[i].node.commitSha,
                     treeSha |-> log[i].node.treeSha]
      BY DEF TagsOf
    <2>2. PICK n \in own : log[i].node = NodeValue(n)
      BY <2>1 DEF IsLogOf, Readable
    <2> QED
      BY <1>1, <2>1, <2>2 DEF TagOf
  <1>4. \A n \in own : TagOf(p, n) \in tags
    <2> TAKE n \in own
    <2>1. PICK i \in DOMAIN log : /\ "payload" \in DOMAIN log[i]
                                  /\ log[i].node = NodeValue(n)
      BY DEF IsLogOf
    <2> QED
      BY <1>1, <2>1 DEF TagOf, TagsOf
  <1>5. \A m, n \in own : m.sha = n.sha => m = n
    BY DEF TreeInv, NodeGraphValid, NodesUnique
  <1>6. \A m, n : TagOf(p, m).managedRef = TagOf(p, n).managedRef
                  \/ TagOf(p, m).nodeSha = TagOf(p, n).nodeSha
                    => m.sha = n.sha
    BY DEF TagOf, ManagedRef
  <1>7. \A n : TagOf(p, n).managedRef = ManagedRef(p, TagOf(p, n).nodeSha)
    BY DEF TagOf
  <1> HIDE DEF own, tags, anchors
  <1> QED
    BY <1>2, <1>3, <1>4, <1>5, <1>6, <1>7
       DEF AnchorsVerified, tags, anchors

\* The values of a state decode, the ones no event carries as well.
LEMMA StateReads ==
    ASSUME TreeInv, NEW p
    PROVE  StateDecodes(p)
  <1>1. \A n \in {m \in nodes : m.project = p} : DecodesNode(NodeValue(n))
    BY NodesHaveShape, NodeDecodes
  <1>2. \A r \in ProjectRuns(p) : DecodesRun(RunValue(r))
    BY RunDecodes DEF ProjectRuns, TreeInv
  <1> QED
    BY <1>1, <1>2 DEF StateDecodes

\* What the invariants say of a state is enough for its log to be read.
LEMMA LogIsRead ==
    ASSUME TreeInv, StateIsFinite, RecordsHaveIds, RecordsFit,
           ChildrenOfProposals
    PROVE  LogIsReadable
  <1> SUFFICES ASSUME NEW p \in {q \in Project : rootSha[q] # None}
               PROVE  /\ Reconstructs(p, StoredLog(p))
                      /\ \A n \in DOMAIN StoredLog(p) :
                           V2EventDecodes(StoredLog(p)[n].event)
                      /\ StateDecodes(p)
    BY DEF LogIsReadable
  <1>1. IsLogOf(p, LogOf(p))
    BY LogShape
  <1>2. StoredLog(p) = SubSeq([n \in DOMAIN LogOf(p) |->
                                 StoredEvent(p, LogOf(p), n)], 1, Len(LogOf(p)))
    BY Zenon DEF StoredLog
  <1>3. /\ StoredLog(p) # <<>> /\ StoredLogDecodes(p, StoredLog(p))
        /\ \A n \in DOMAIN StoredLog(p) : V2EventDecodes(StoredLog(p)[n].event)
    BY <1>1, <1>2, LogReads
  <1>4. AnchorsVerified(p, NodeAnchors(p), TagsOf(p, LogOf(p)))
    BY <1>1, TagsAreFound
  <1>5. Reconstructs(p, StoredLog(p))
    BY <1>3, <1>4, Zenon DEF Reconstructs
  <1> QED
    BY <1>3, <1>5, StateReads

-----------------------------------------------------------------------------
(* Records fit: the invariant *)

\* A Node is registered for good.
LEMMA NodesRemain ==
    ASSUME TypeOK, TypeOK', [Next]_vars
    PROVE  /\ IsFiniteSet(nodes) => IsFiniteSet(nodes')
           /\ nodes \subseteq nodes'
  <1>1. \/ nodes' = nodes
        \/ \E n : nodes' = nodes \cup {n}
    BY EveryStepChanges, OneMoreNode
  <1> QED
    BY <1>1, FS_AddElement

\* The compared Nodes are registered, of which there are but finitely many.
LEMMA ComparedAreRegistered ==
    ASSUME TypeOK, IsFiniteSet(nodes), NEW p, NEW S, CandidatesValid(p, S)
    PROVE  IsFiniteSet(S) /\ Cardinality(S) >= 2
  <1> DEFINE sha == [n \in nodes |-> n.sha]
             T == {sha[n] : n \in nodes}
  <1>1. IsFiniteSet(T)
    BY ImageIsFinite
  <1>2. \A s \in S : \E n \in nodes : n.sha = s
    BY DEF CandidatesValid, CandidateValid, HasNode
  <1>3. S \subseteq T
    BY <1>2
  <1> HIDE DEF T
  <1> QED
    BY <1>1, <1>3, FS_Subset DEF CandidatesValid

\* What the log's values rest on besides.
LogInv == IsFiniteSet(nodes) /\ RecordsFit

\* What a review is about stays in its Project.
LEMMA ReviewsStayFound ==
    ASSUME TypeOK, RecordsFit, [Next]_vars
    PROVE  \A w \in reviews' : ReviewFound(w)
  <1>1. ASSUME NEW actor, NEW w \in ReviewId, NEW p \in Project,
               NEW target \in ReviewTarget,
               RecordCoachReview(actor, w, p, target)
        PROVE  \A x \in reviews' : ReviewFound(x)
    <2> DEFINE x == [id |-> w, project |-> p, target |-> target]
    <2>1. reviews' = reviews \cup {x} /\ x.target = target
      BY <1>1 DEF RecordCoachReview
    <2>2. /\ target.kind = "node" => target.of \in Sha
          /\ target.kind = "run" => target.of \in RunId
          /\ target.kind = "comparison" => target.of \in ComparisonId
      BY <1>1 DEF RecordCoachReview, TypeOK, Node, Comparison, HasNode
    <2> HIDE DEF x
    <2>3. ReviewFound(x)
      BY <2>1, <2>2 DEF ReviewFound
    <2> QED
      BY <2>1, <2>3 DEF RecordsFit
  <1>2. CASE reviews' = reviews
    BY <1>2 DEF RecordsFit
  <1>3. ASSUME NEW actor, NEW p \in Project, ProjectCommand(actor, p)
        PROVE  \A x \in reviews' : ReviewFound(x)
    <2>1. \/ reviews' = reviews
          \/ \E w \in ReviewId, target \in ReviewTarget :
               RecordCoachReview(actor, w, p, target)
      BY <1>3 DEF ProjectCommand, CreateProject,
                  RebuildProjectMaterializations, vars
    <2> QED
      BY <1>1, <1>2, <2>1
  <1>4. \/ reviews' = reviews
        \/ \E actor \in Actor, p \in Project : ProjectCommand(actor, p)
    <2>1. \A r : RunCommand(r) => reviews' = reviews
      BY ZenonT(30) DEF RunCommand, StartRun, CheckpointRun, AttachRunEvidence,
             CompleteRun, FailRun, CancelRun
    <2>2. \A actor, q : CoachingCommand(actor, q) => reviews' = reviews
      BY DEF CoachingCommand, RecordCoachingProposal,
             ConfirmCoachingProposal, RejectCoachingProposal
    <2>3. \A p, c : ComparisonCommand(p, c) => reviews' = reviews
      BY DEF ComparisonCommand, CompareSiblingRuns, CompareCoachedHow
    <2>4. \A actor, p, c : DecisionCommand(actor, p, c) => reviews' = reviews
      BY DEF DecisionCommand, SelectAlternative, RejectAlternatives
    <2> QED
      BY <2>1, <2>2, <2>3, <2>4 DEF Next, vars
  <1> QED
    BY <1>2, <1>3, <1>4

\* The source of a proposal stays registered in its Project.
LEMMA SourcesOfProposals ==
    ASSUME TypeOK, TypeOK', RecordsFit, [Next]_vars
    PROVE  (\A q \in Proposed :
               HasNode(proposals[q].project, proposals[q].source))'
  <1> DEFINE Known(x) == \E n \in nodes : /\ n.project = x.project
                                         /\ n.sha = x.source
             Later(x) == \E n \in nodes' : /\ n.project = x.project
                                          /\ n.sha = x.source
  <1>0. \A x : Known(x) => Later(x)
    BY NodesRemain
  <1>1. \A q \in ProposalId : proposals[q] # None => Known(proposals[q])
    BY DEF RecordsFit, Proposed, HasNode
  <1>2. ASSUME NEW q \in ProposalId, proposals'[q] # None
        PROVE  \/ proposals'[q] = proposals[q]
               \/ Known(proposals'[q])
    <2>1. \A r : RunCommand(r) => proposals' = proposals
      BY ZenonT(30) DEF RunCommand, StartRun, CheckpointRun, AttachRunEvidence,
             CompleteRun, FailRun, CancelRun
    <2>2. \A actor, p : ProjectCommand(actor, p) => proposals' = proposals
      BY DEF ProjectCommand, CreateProject, RebuildProjectMaterializations,
             RecordCoachReview, vars
    <2>3. \A p, c : ComparisonCommand(p, c) => proposals' = proposals
      BY DEF ComparisonCommand, CompareSiblingRuns, CompareCoachedHow
    <2>4. \A actor, p, c : DecisionCommand(actor, p, c) =>
                             proposals' = proposals
      BY ZenonT(30) DEF DecisionCommand, SelectAlternative, RejectAlternatives
    <2>5. ASSUME NEW actor, NEW u \in ProposalId, CoachingCommand(actor, u)
          PROVE  \/ proposals'[q] = proposals[q]
                 \/ Known(proposals'[q])
      <3>1. ASSUME NEW p \in Project, NEW s \in Sha, NEW plan \in Plan,
                   RecordCoachingProposal(actor, u, p, s, plan)
            PROVE  \/ proposals'[q] = proposals[q]
                   \/ Known(proposals'[q])
        <4> DEFINE x == [project |-> p, source |-> s, plan |-> plan]
        <4>1. /\ proposals' = [proposals EXCEPT ![u] = x] /\ HasNode(p, s)
              /\ x.project = p /\ x.source = s
          BY <3>1 DEF RecordCoachingProposal, ProposalValid
        <4> HIDE DEF x
        <4>2. Known(x)
          BY <4>1 DEF HasNode
        <4>3. u = q => proposals'[q] = x
          BY <4>1 DEF TypeOK
        <4>4. u # q => proposals'[q] = proposals[q]
          BY <4>1 DEF TypeOK
        <4> HIDE DEF Known
        <4> QED
          BY <4>2, <4>3, <4>4
      <3>2. \/ proposals' = proposals
            \/ \E p \in Project, s \in Sha, plan \in Plan :
                 RecordCoachingProposal(actor, u, p, s, plan)
        BY <2>5 DEF CoachingCommand, ConfirmCoachingProposal,
                    RejectCoachingProposal
      <3> QED
        BY <3>1, <3>2
    <2> QED
      BY <2>1, <2>2, <2>3, <2>4, <2>5 DEF Next, vars
  <1> HIDE DEF Known, Later
  <1>3. \A q \in ProposalId : proposals'[q] # None => Later(proposals'[q])
    BY <1>0, <1>1, <1>2
  <1> QED
    BY <1>3 DEF Proposed, Later, HasNode

\* A step preserves what the log rests on.
LEMMA LogInductive ==
    ASSUME TypeOK, TypeOK', AlternativesInv, LogInv, [Next]_vars
    PROVE  LogInv'
  <1> USE DEF LogInv
  <1>1. IsFiniteSet(nodes')
    BY NodesRemain
  <1>2. \A c \in comparisons' : IsFiniteSet(c.nodes) /\ Cardinality(c.nodes) >= 2
    <2>1. ASSUME NEW c, ComparisonAdded(c)
          PROVE  IsFiniteSet(c.nodes) /\ Cardinality(c.nodes) >= 2
      BY <2>1, ComparedAreRegistered DEF ComparisonAdded
    <2>2. CASE comparisons' = comparisons
      BY <2>2 DEF RecordsFit
    <2>3. CASE \E c : ComparisonAdded(c)
      <3>1. PICK c : ComparisonAdded(c)
        BY <2>3
      <3>2. comparisons' = comparisons \cup {c}
        BY <3>1 DEF ComparisonAdded
      <3> QED
        BY <2>1, <3>1, <3>2 DEF RecordsFit
    <2> QED
      BY <2>2, <2>3, AlternativesChange DEF DecisionAdded
  <1>3. \A d \in decisions' : IsFiniteSet(d.nodes) /\ d.nodes # {}
    <2>1. ASSUME NEW d, DecisionAdded(d)
          PROVE  IsFiniteSet(d.nodes) /\ d.nodes # {}
      <3>1. \E c \in comparisons : d.nodes \subseteq c.nodes
        BY <2>1 DEF DecisionAdded, SelectionValid, RejectionValid
      <3>2. \A c \in comparisons : IsFiniteSet(c.nodes)
        BY DEF RecordsFit
      <3>3. IsFiniteSet(d.nodes)
        BY <3>1, <3>2, FS_Subset
      <3> QED
        BY <2>1, <3>3 DEF DecisionAdded
    <2>2. CASE decisions' = decisions
      BY <2>2 DEF RecordsFit
    <2>3. CASE \E d : DecisionAdded(d)
      <3>1. PICK d : DecisionAdded(d)
        BY <2>3
      <3>2. decisions' = decisions \cup {d}
        BY <3>1 DEF DecisionAdded
      <3> QED
        BY <2>1, <3>1, <3>2 DEF RecordsFit
    <2> QED
      BY <2>2, <2>3, AlternativesChange DEF ComparisonAdded
  <1>4. \A w \in reviews' : ReviewFound(w)
    BY ReviewsStayFound
  <1>5. (\A q \in Proposed :
            HasNode(proposals[q].project, proposals[q].source))'
    BY SourcesOfProposals
  <1>6. RecordsFit'
    BY <1>2, <1>3, <1>4, <1>5 DEF RecordsFit, ReviewFound
  <1> QED
    BY <1>1, <1>6

\* So it holds for ever.
LEMMA LogInvariant == Spec => []LogInv
  <1>1. Init => LogInv
    BY FS_EmptySet DEF Init, LogInv, RecordsFit, Proposed
  <1>2. TypeOK /\ TypeOK' /\ AlternativesInv /\ LogInv /\ [Next]_vars => LogInv'
    BY LogInductive
  <1> QED
    BY <1>1, <1>2, ProjectStateTypes, AlternativesInvariant, PTL DEF Spec

\* Whatever the commands of a Project lead to, its log is read back as it was
\* written, also from a v2 log: every event is decoded, with the payload of the
\* Node it registers, the batches of its commands are whole, and every Node is
\* found under its tag.
THEOREM LogsAreReadable == Spec => []LogIsReadable
  <1>1. TreeInv /\ StateIsFinite /\ RecordsHaveIds /\ LogInv
        /\ ChildrenOfProposals => LogIsReadable
    BY LogIsRead DEF LogInv
  <1> QED
    BY <1>1, TreeInvariant, RecordsStayFinite, IdsAreUnique, LogInvariant,
       ChildrenInvariant, PTL

-----------------------------------------------------------------------------
(* What the events of a log tell *)

\* Event e is number i of the command with this key, and carries these fields.
Tells(e, body, key, i) ==
    /\ e.meta.eventId = <<key, i - 1>>
    /\ e.meta.actor \in {User, Coach, Plugin}
    /\ \A field \in DOMAIN body : e[field] = body[field]

\* An event that is made of a body tells it.
LEMMA EventTellsBody ==
    ASSUME NEW body, "meta" \notin DOMAIN body, NEW key, NEW i,
           NEW actor \in {User, Coach, Plugin}
    PROVE  Tells(EventOf(body, key, i, actor), body, key, i)
  <1>1. /\ Carries(EventOf(body, key, i, actor), body)
        /\ EventOf(body, key, i, actor).meta = Meta(key, i, actor)
    BY EventCarriesBody
  <1> QED
    BY <1>1 DEF Tells, Carries, Meta

\* The event of a command that has one.
LEMMA OneEventTells ==
    ASSUME NEW type, NEW id, NEW actor \in {User, Coach, Plugin},
           NEW body, "meta" \notin DOMAIN body,
           NEW b, b = OneEvent(type, id, actor, body), NEW i \in DOMAIN b
    PROVE  Tells(b[i], body, <<type, id>>, 1)
  <1>1. i = 1
    BY DEF OneEvent, Batch
  <1>2. b[i] = EventOf(body, <<type, id>>, 1, actor)
    BY <1>1 DEF OneEvent, Batch, EventOf, Meta
  <1> QED
    BY <1>2, EventTellsBody

\* The Node that an event registers.
Registers(e, type, n) ==
    e.type = type /\ e.node = NodeValue(n)

\* The events of a command that registers a Node with what it does.
TellsBoth(e, i, key, x, type, n) ==
    /\ e.meta.actor \in {User, Coach, Plugin}
    /\ \/ i = 1 /\ Tells(e, x, key, 1)
       \/ /\ i = 2 /\ Registers(e, type, n)
          /\ e.meta.eventId = <<key, 1>>

LEMMA TwoEventsTell ==
    ASSUME NEW key, NEW actor \in {User, Coach, Plugin},
           NEW x, "meta" \notin DOMAIN x, NEW type, NEW n,
           NEW b, b = Batch(key, actor, <<x, Registered(type, n)>>),
           NEW i \in DOMAIN b
    PROVE  TellsBoth(b[i], i, key, x, type, n)
  <1> DEFINE y == Registered(type, n)
  <1>1. i \in {1, 2}
    BY DEF Batch
  <1>2. /\ "meta" \notin DOMAIN y /\ {"type", "node"} \subseteq DOMAIN y
        /\ y.type = type /\ y.node = NodeValue(n)
    BY DEF Registered
  <1>3. ASSUME i = 1
        PROVE  Tells(b[i], x, key, 1)
    <2>1. b[i] = EventOf(x, key, 1, actor)
      BY <1>3 DEF Batch, EventOf, Meta
    <2> QED
      BY <2>1, EventTellsBody
  <1> HIDE DEF y
  <1>4. ASSUME i = 2
        PROVE  Tells(b[i], y, key, 2)
    <2>1. b[i] = EventOf(y, key, 2, actor)
      BY <1>4 DEF Batch, EventOf, Meta, y
    <2> QED
      BY <1>2, <2>1, EventTellsBody
  <1> QED
    BY <1>1, <1>2, <1>3, <1>4 DEF TellsBoth, Tells, Registers

\* The event of a record: what it carries and, where entries refer to it, its
\* id.
IsCreationOf(e, p) ==
    /\ e.type = "ProjectCreated"
    /\ e.project = [id |-> p, rootNodeSha |-> rootSha[p]]
IsStartOf(e, r) == e.type = "RunStarted" /\ e.run = StartedRun(r)
IsCheckpointOf(e, k) ==
    e.type = "RunCheckpointed" /\ e.checkpoint = CheckpointValue(k)
IsEvidenceOf(e, x) ==
    e.type = "RunEvidenceAttached" /\ e.evidence = EvidenceValue(x)
IsCompletionOf(e, r) == e.type = "RunCompleted" /\ e.result = ResultValue(r)
IsEndOf(e, r) == e.type \in {"RunFailed", "RunCanceled"} /\ e.runId = r
IsReviewOf(e, w) ==
    /\ e.type = "CoachReviewRecorded" /\ e.review = ReviewValue(w)
    /\ e.meta.eventId = <<<<"RecordCoachReview", w.id>>, 0>>
IsProposalOf(e, q) ==
    /\ e.type = "CoachingProposalRecorded" /\ e.proposal = ProposalValue(q)
    /\ e.meta.eventId = <<<<"RecordCoachingProposal", q>>, 0>>
IsDispositionOf(e, x) ==
    /\ e.decision = DispositionValue(x)
    /\ \/ /\ x.status = "confirmed" /\ e.type = "CoachingProposalConfirmed"
          /\ e.meta.eventId = <<<<"ConfirmCoachingProposal", x.id>>, 0>>
       \/ /\ x.status = "rejected" /\ e.type = "CoachingProposalRejected"
          /\ e.meta.eventId = <<<<"RejectCoachingProposal", x.id>>, 0>>
IsChildOf(e, x) ==
    /\ x.status = "confirmed"
    /\ Registers(e, "CoachingChildNodeRegistered",
                 NodeAt(proposals[x.proposal].project, x.child))
    /\ e.meta.eventId = <<<<"ConfirmCoachingProposal", x.id>>, 1>>
IsComparedOf(e, c) ==
    /\ e.type = "AlternativesCompared" /\ e.comparison = ComparisonValue(c)
    /\ e.meta.eventId = <<<<"CompareAlternatives", c.id>>, 0>>
IsDecisionOf(e, d) ==
    /\ e.decision = DecisionValue(d)
    /\ \/ /\ d.kind = "selection" /\ e.type = "AlternativeSelected"
          /\ e.meta.eventId = <<<<"SelectAlternative", d.id>>, 0>>
       \/ /\ d.kind = "rejection" /\ e.type = "AlternativesRejected"
          /\ e.meta.eventId = <<<<"RejectAlternatives", d.id>>, 0>>

\* The event is that of a record of p.
RunTold(p, e) ==
    \E r \in ProjectRuns(p) :
       \/ IsStartOf(e, r)
       \/ \E k \in checkpoints : k.run = r /\ IsCheckpointOf(e, k)
       \/ \E x \in evidence : x.run = r /\ IsEvidenceOf(e, x)
       \/ /\ runs[r].status = "completed"
          /\ \/ IsCompletionOf(e, r)
             \/ Registers(e, "RunChildNodeRegistered",
                          NodeAt(runs[r].project, runs[r].result))
       \/ IsEndOf(e, r)
CoachingTold(p, e) ==
    \/ \E w \in reviews : w.project = p /\ IsReviewOf(e, w)
    \/ \E q \in ProjectProposals(p) : IsProposalOf(e, q)
    \/ \E x \in dispositions :
         /\ x.proposal \in ProjectProposals(p)
         /\ IsDispositionOf(e, x) \/ IsChildOf(e, x)
AlternativesTold(p, e) ==
    \/ \E c \in comparisons : c.project = p /\ IsComparedOf(e, c)
    \/ \E d \in decisions : d.project = p /\ IsDecisionOf(e, d)
Told(p, e) ==
    /\ e.meta.actor \in {User, Coach, Plugin}
    /\ \/ IsCreationOf(e, p)
       \/ Registers(e, "RootNodeRegistered", NodeAt(p, rootSha[p]))
       \/ RunTold(p, e) \/ CoachingTold(p, e) \/ AlternativesTold(p, e)

\* Each command of one event records what it is about.
LEMMA StartTells ==
    ASSUME NEW r, NEW b, b = StartBatch(r),
           NEW i \in DOMAIN b
    PROVE  IsStartOf(b[i], r) /\ b[i].meta.actor \in {User, Coach, Plugin}
  <1> DEFINE body == [type |-> "RunStarted",
                      run |-> StartedRun(r)]
  <1>1. /\ DOMAIN body = {"type", "run"}
        /\ body.type = "RunStarted" /\ body.run = StartedRun(r)
    OBVIOUS
  <1>2. b = OneEvent("StartRun", r, Plugin, body)
    BY DEF StartBatch
  <1> HIDE DEF body
  <1>3. Tells(b[i], body, <<"StartRun", r>>, 1)
    BY <1>1, <1>2, OneEventTells
  <1> QED
    BY <1>1, <1>3 DEF Tells, IsStartOf

LEMMA CheckpointTells ==
    ASSUME NEW k, NEW b, b = CheckpointBatch(k),
           NEW i \in DOMAIN b
    PROVE  IsCheckpointOf(b[i], k) /\ b[i].meta.actor \in {User, Coach, Plugin}
  <1> DEFINE body == [type |-> "RunCheckpointed",
                      checkpoint |-> CheckpointValue(k)]
  <1>1. /\ DOMAIN body = {"type", "checkpoint"}
        /\ body.type = "RunCheckpointed" /\ body.checkpoint = CheckpointValue(k)
    OBVIOUS
  <1>2. b = OneEvent("CheckpointRun", k.id, Plugin, body)
    BY DEF CheckpointBatch
  <1> HIDE DEF body
  <1>3. Tells(b[i], body, <<"CheckpointRun", k.id>>, 1)
    BY <1>1, <1>2, OneEventTells
  <1> QED
    BY <1>1, <1>3 DEF Tells, IsCheckpointOf

LEMMA EvidenceTells ==
    ASSUME NEW x, NEW b, b = EvidenceBatch(x),
           NEW i \in DOMAIN b
    PROVE  IsEvidenceOf(b[i], x) /\ b[i].meta.actor \in {User, Coach, Plugin}
  <1> DEFINE body == [type |-> "RunEvidenceAttached",
                      evidence |-> EvidenceValue(x)]
  <1>1. /\ DOMAIN body = {"type", "evidence"}
        /\ body.type = "RunEvidenceAttached" /\ body.evidence = EvidenceValue(x)
    OBVIOUS
  <1>2. b = OneEvent("AttachRunEvidence", x.id, Plugin, body)
    BY DEF EvidenceBatch
  <1> HIDE DEF body
  <1>3. Tells(b[i], body, <<"AttachRunEvidence", x.id>>, 1)
    BY <1>1, <1>2, OneEventTells
  <1> QED
    BY <1>1, <1>3 DEF Tells, IsEvidenceOf

LEMMA FailureTells ==
    ASSUME NEW r, NEW b, b = FailBatch(r),
           NEW i \in DOMAIN b
    PROVE  IsEndOf(b[i], r) /\ b[i].meta.actor \in {User, Coach, Plugin}
  <1> DEFINE body == [type |-> "RunFailed",
                      runId |-> r]
  <1>1. /\ DOMAIN body = {"type", "runId"}
        /\ body.type = "RunFailed" /\ body.runId = r
    OBVIOUS
  <1>2. b = OneEvent("FailRun", r, Plugin, body)
    BY DEF FailBatch
  <1> HIDE DEF body
  <1>3. Tells(b[i], body, <<"FailRun", r>>, 1)
    BY <1>1, <1>2, OneEventTells
  <1> QED
    BY <1>1, <1>3 DEF Tells, IsEndOf

LEMMA CancellationTells ==
    ASSUME NEW r, NEW b, b = CancelBatch(r),
           NEW i \in DOMAIN b
    PROVE  IsEndOf(b[i], r) /\ b[i].meta.actor \in {User, Coach, Plugin}
  <1> DEFINE body == [type |-> "RunCanceled",
                      runId |-> r]
  <1>1. /\ DOMAIN body = {"type", "runId"}
        /\ body.type = "RunCanceled" /\ body.runId = r
    OBVIOUS
  <1>2. b = OneEvent("CancelRun", r, Plugin, body)
    BY DEF CancelBatch
  <1> HIDE DEF body
  <1>3. Tells(b[i], body, <<"CancelRun", r>>, 1)
    BY <1>1, <1>2, OneEventTells
  <1> QED
    BY <1>1, <1>3 DEF Tells, IsEndOf

LEMMA ReviewTells ==
    ASSUME NEW w, NEW b, b = ReviewBatch(w),
           NEW i \in DOMAIN b
    PROVE  IsReviewOf(b[i], w) /\ b[i].meta.actor \in {User, Coach, Plugin}
  <1> DEFINE body == [type |-> "CoachReviewRecorded",
                      review |-> ReviewValue(w)]
  <1>1. /\ DOMAIN body = {"type", "review"}
        /\ body.type = "CoachReviewRecorded" /\ body.review = ReviewValue(w)
    OBVIOUS
  <1>2. b = OneEvent("RecordCoachReview", w.id, Coach, body)
    BY DEF ReviewBatch
  <1> HIDE DEF body
  <1>3. Tells(b[i], body, <<"RecordCoachReview", w.id>>, 1)
    BY <1>1, <1>2, OneEventTells
  <1> QED
    BY <1>1, <1>3 DEF Tells, IsReviewOf

LEMMA ProposalTells ==
    ASSUME NEW q, NEW b, b = ProposalBatch(q),
           NEW i \in DOMAIN b
    PROVE  IsProposalOf(b[i], q) /\ b[i].meta.actor \in {User, Coach, Plugin}
  <1> DEFINE body == [type |-> "CoachingProposalRecorded",
                      proposal |-> ProposalValue(q)]
  <1>1. /\ DOMAIN body = {"type", "proposal"}
        /\ body.type = "CoachingProposalRecorded"
        /\ body.proposal = ProposalValue(q)
    OBVIOUS
  <1>2. b = OneEvent("RecordCoachingProposal", q, Coach, body)
    BY DEF ProposalBatch
  <1> HIDE DEF body
  <1>3. Tells(b[i], body, <<"RecordCoachingProposal", q>>, 1)
    BY <1>1, <1>2, OneEventTells
  <1> QED
    BY <1>1, <1>3 DEF Tells, IsProposalOf

LEMMA RejectionTells ==
    ASSUME NEW x, x.status = "rejected", NEW b, b = RejectBatch(x),
           NEW i \in DOMAIN b
    PROVE  IsDispositionOf(b[i], x) /\ b[i].meta.actor \in {User, Coach, Plugin}
  <1> DEFINE body == [type |-> "CoachingProposalRejected",
                      decision |-> DispositionValue(x)]
  <1>1. /\ DOMAIN body = {"type", "decision"}
        /\ body.type = "CoachingProposalRejected"
        /\ body.decision = DispositionValue(x)
    OBVIOUS
  <1>2. b = OneEvent("RejectCoachingProposal", x.id, User, body)
    BY DEF RejectBatch
  <1> HIDE DEF body
  <1>3. Tells(b[i], body, <<"RejectCoachingProposal", x.id>>, 1)
    BY <1>1, <1>2, OneEventTells
  <1> QED
    BY <1>1, <1>3 DEF Tells, IsDispositionOf

LEMMA ComparisonTells ==
    ASSUME NEW c, NEW b, b = CompareBatch(c),
           NEW i \in DOMAIN b
    PROVE  IsComparedOf(b[i], c) /\ b[i].meta.actor \in {User, Coach, Plugin}
  <1> DEFINE body == [type |-> "AlternativesCompared",
                      comparison |-> ComparisonValue(c)]
  <1>1. /\ DOMAIN body = {"type", "comparison"}
        /\ body.type = "AlternativesCompared"
        /\ body.comparison = ComparisonValue(c)
    OBVIOUS
  <1>2. b = OneEvent("CompareAlternatives", c.id, Coach, body)
    BY DEF CompareBatch
  <1> HIDE DEF body
  <1>3. Tells(b[i], body, <<"CompareAlternatives", c.id>>, 1)
    BY <1>1, <1>2, OneEventTells
  <1> QED
    BY <1>1, <1>3 DEF Tells, IsComparedOf

LEMMA SelectionTells ==
    ASSUME NEW d, d.kind = "selection", NEW b, b = SelectBatch(d),
           NEW i \in DOMAIN b
    PROVE  IsDecisionOf(b[i], d) /\ b[i].meta.actor \in {User, Coach, Plugin}
  <1> DEFINE body == [type |-> "AlternativeSelected",
                      decision |-> DecisionValue(d)]
  <1>1. /\ DOMAIN body = {"type", "decision"}
        /\ body.type = "AlternativeSelected" /\ body.decision = DecisionValue(d)
    OBVIOUS
  <1>2. b = OneEvent("SelectAlternative", d.id, User, body)
    BY DEF SelectBatch
  <1> HIDE DEF body
  <1>3. Tells(b[i], body, <<"SelectAlternative", d.id>>, 1)
    BY <1>1, <1>2, OneEventTells
  <1> QED
    BY <1>1, <1>3 DEF Tells, IsDecisionOf

LEMMA DismissalTells ==
    ASSUME NEW d, d.kind = "rejection", NEW b, b = DismissBatch(d),
           NEW i \in DOMAIN b
    PROVE  IsDecisionOf(b[i], d) /\ b[i].meta.actor \in {User, Coach, Plugin}
  <1> DEFINE body == [type |-> "AlternativesRejected",
                      decision |-> DecisionValue(d)]
  <1>1. /\ DOMAIN body = {"type", "decision"}
        /\ body.type = "AlternativesRejected"
        /\ body.decision = DecisionValue(d)
    OBVIOUS
  <1>2. b = OneEvent("RejectAlternatives", d.id, User, body)
    BY DEF DismissBatch
  <1> HIDE DEF body
  <1>3. Tells(b[i], body, <<"RejectAlternatives", d.id>>, 1)
    BY <1>1, <1>2, OneEventTells
  <1> QED
    BY <1>1, <1>3 DEF Tells, IsDecisionOf

\* So does each command that registers a Node, with the Node.
LEMMA CompletionTells ==
    ASSUME NEW r, NEW b, b = CompleteBatch(r),
           NEW i \in DOMAIN b
    PROVE  /\ b[i].meta.actor \in {User, Coach, Plugin}
           /\ \/ i = 1 /\ IsCompletionOf(b[i], r)
              \/ i = 2 /\ Registers(b[i], "RunChildNodeRegistered",
                                     NodeAt(runs[r].project, runs[r].result))
  <1> DEFINE body == [type |-> "RunCompleted", result |-> ResultValue(r)]
             n == NodeAt(runs[r].project, runs[r].result)
             key == <<"CompleteRun", r>>
  <1>1. /\ DOMAIN body = {"type", "result"}
        /\ body.type = "RunCompleted" /\ body.result = ResultValue(r)
    OBVIOUS
  <1>2. b = Batch(key, Plugin,
                  <<body, Registered("RunChildNodeRegistered", n)>>)
    BY DEF CompleteBatch
  <1> HIDE DEF body, n, key
  <1>3. TellsBoth(b[i], i, key, body, "RunChildNodeRegistered", n)
    BY <1>1, <1>2, TwoEventsTell
  <1> QED
    BY <1>1, <1>3 DEF TellsBoth, Tells, n, key, IsCompletionOf

LEMMA ConfirmationTells ==
    ASSUME NEW x, x.status = "confirmed", NEW b, b = ConfirmBatch(x),
           NEW i \in DOMAIN b
    PROVE  /\ b[i].meta.actor \in {User, Coach, Plugin}
           /\ \/ i = 1 /\ IsDispositionOf(b[i], x)
              \/ i = 2 /\ IsChildOf(b[i], x)
  <1> DEFINE body == [type |-> "CoachingProposalConfirmed",
                      decision |-> DispositionValue(x)]
             n == NodeAt(proposals[x.proposal].project, x.child)
             key == <<"ConfirmCoachingProposal", x.id>>
  <1>1. /\ DOMAIN body = {"type", "decision"}
        /\ body.type = "CoachingProposalConfirmed"
        /\ body.decision = DispositionValue(x)
    OBVIOUS
  <1>2. b = Batch(key, User,
                  <<body, Registered("CoachingChildNodeRegistered", n)>>)
    BY DEF ConfirmBatch
  <1> HIDE DEF body, n, key
  <1>3. TellsBoth(b[i], i, key, body, "CoachingChildNodeRegistered", n)
    BY <1>1, <1>2, TwoEventsTell
  <1> QED
    BY <1>1, <1>3 DEF TellsBoth, Tells, n, key, IsDispositionOf, IsChildOf

LEMMA CreationTells ==
    ASSUME NEW p, NEW b, b = CreationBatch(p),
           NEW i \in DOMAIN b
    PROVE  /\ b[i].meta.actor \in {User, Coach, Plugin}
           /\ \/ i = 1 /\ IsCreationOf(b[i], p)
              \/ i = 2 /\ Registers(b[i], "RootNodeRegistered",
                                     NodeAt(p, rootSha[p]))
  <1> DEFINE body == [type |-> "ProjectCreated",
                      project |-> [id |-> p, rootNodeSha |-> rootSha[p]]]
             n == NodeAt(p, rootSha[p])
             key == <<"CreateProject", p>>
  <1>1. /\ DOMAIN body = {"type", "project"}
        /\ body.type = "ProjectCreated"
        /\ body.project = [id |-> p, rootNodeSha |-> rootSha[p]]
    OBVIOUS
  <1>2. b = Batch(key, User,
                  <<body, Registered("RootNodeRegistered", n)>>)
    BY DEF CreationBatch
  <1> HIDE DEF body, n, key
  <1>3. TellsBoth(b[i], i, key, body, "RootNodeRegistered", n)
    BY <1>1, <1>2, TwoEventsTell
  <1> QED
    BY <1>1, <1>3 DEF TellsBoth, Tells, n, key, IsCreationOf

\* Every event of a command is that of a record.
LEMMA RunCommandIsTold ==
    ASSUME NEW p, NEW key, NEW b, IsRunCommand(p, key, b), NEW i \in DOMAIN b
    PROVE  Told(p, b[i])
  <1>1. ASSUME NEW r \in ProjectRuns(p), b = StartBatch(r)
        PROVE  Told(p, b[i])
    BY <1>1, StartTells DEF Told, RunTold
  <1>2. ASSUME NEW r \in ProjectRuns(p), NEW k \in checkpoints, k.run = r,
               b = CheckpointBatch(k)
        PROVE  Told(p, b[i])
    BY <1>2, CheckpointTells DEF Told, RunTold
  <1>3. ASSUME NEW r \in ProjectRuns(p), NEW e \in evidence, e.run = r,
               b = EvidenceBatch(e)
        PROVE  Told(p, b[i])
    BY <1>3, EvidenceTells DEF Told, RunTold
  <1>4. ASSUME NEW r \in ProjectRuns(p), runs[r].status = "completed",
               b = CompleteBatch(r)
        PROVE  Told(p, b[i])
    BY <1>4, CompletionTells DEF Told, RunTold
  <1>5. ASSUME NEW r \in ProjectRuns(p), b = FailBatch(r)
        PROVE  Told(p, b[i])
    BY <1>5, FailureTells DEF Told, RunTold
  <1>6. ASSUME NEW r \in ProjectRuns(p), b = CancelBatch(r)
        PROVE  Told(p, b[i])
    BY <1>6, CancellationTells DEF Told, RunTold
  <1> QED
    BY <1>1, <1>2, <1>3, <1>4, <1>5, <1>6 DEF IsRunCommand

LEMMA CommandIsTold ==
    ASSUME NEW p, NEW key, NEW b, IsCommand(p, key, b), NEW i \in DOMAIN b
    PROVE  Told(p, b[i])
  <1>1. ASSUME b = CreationBatch(p)
        PROVE  Told(p, b[i])
    BY <1>1, CreationTells DEF Told
  <1>2. ASSUME NEW w \in reviews, w.project = p, b = ReviewBatch(w)
        PROVE  Told(p, b[i])
    BY <1>2, ReviewTells DEF Told, CoachingTold
  <1>3. ASSUME NEW q \in ProjectProposals(p), b = ProposalBatch(q)
        PROVE  Told(p, b[i])
    BY <1>3, ProposalTells DEF Told, CoachingTold
  <1>4. ASSUME NEW x \in dispositions, x.proposal \in ProjectProposals(p),
               x.status = "confirmed", b = ConfirmBatch(x)
        PROVE  Told(p, b[i])
    BY <1>4, ConfirmationTells DEF Told, CoachingTold
  <1>5. ASSUME NEW x \in dispositions, x.proposal \in ProjectProposals(p),
               x.status = "rejected", b = RejectBatch(x)
        PROVE  Told(p, b[i])
    BY <1>5, RejectionTells DEF Told, CoachingTold
  <1>6. ASSUME NEW c \in comparisons, c.project = p, b = CompareBatch(c)
        PROVE  Told(p, b[i])
    BY <1>6, ComparisonTells DEF Told, AlternativesTold
  <1>7. ASSUME NEW d \in decisions, d.project = p, d.kind = "selection",
               b = SelectBatch(d)
        PROVE  Told(p, b[i])
    BY <1>7, SelectionTells DEF Told, AlternativesTold
  <1>8. ASSUME NEW d \in decisions, d.project = p, d.kind = "rejection",
               b = DismissBatch(d)
        PROVE  Told(p, b[i])
    BY <1>8, DismissalTells DEF Told, AlternativesTold
  <1> QED
    BY <1>1, <1>2, <1>3, <1>4, <1>5, <1>6, <1>7, <1>8, RunCommandIsTold
       DEF IsCommand

-----------------------------------------------------------------------------
(* What the log of a Project rests on *)

\* The log and the state that it is of.
LogOfState(p, log) ==
    /\ p \in Project /\ TreeInv /\ StateIsFinite /\ RecordsHaveIds /\ RecordsFit
    /\ ChildrenOfProposals /\ IsLogOf(p, log) /\ LogTells(p, log)

\* Every event of the log is that of a record.
LEMMA LogIsTold ==
    ASSUME NEW p, NEW log, LogTells(p, log), NEW n \in DOMAIN log
    PROVE  Told(p, log[n])
  <1>1. PICK key, b : \E i \in DOMAIN b : IsCommand(p, key, b) /\ log[n] = b[i]
    BY DEF LogTells
  <1> QED
    BY <1>1, CommandIsTold

\* The position of an event in its batch and the command tell it from all
\* others.
LEMMA EventIdsDiffer ==
    ASSUME NEW p, NEW log, IsLogOf(p, log), NEW m \in DOMAIN log,
           NEW n \in DOMAIN log, log[m].meta.eventId = log[n].meta.eventId
    PROVE  m = n
  <1>1. PICK b, l, key, actor : BatchAt(log, n, b, l, key, actor)
    BY DEF IsLogOf
  <1>2. PICK c, k, id, who : BatchAt(log, m, c, k, id, who)
    BY DEF IsLogOf
  <1>3. /\ log[n].meta = Meta(key, n - b, actor)
        /\ log[m].meta = Meta(id, m - c, who)
    BY <1>1, <1>2 DEF BatchAt
  <1>4. <<key, n - b - 1>> = <<id, m - c - 1>>
    BY <1>3 DEF Meta
  <1>5. key = id
    BY <1>4
  <1>6. log[m].meta.idempotencyKey = key
    BY <1>3, <1>5 DEF Meta
  <1>7. m \in (b + 1)..(b + l)
    BY <1>1, <1>6 DEF BatchAt
  <1>8. log[m].meta = Meta(key, m - b, actor)
    BY <1>1, <1>7 DEF BatchAt
  <1>9. m - b - 1 = n - b - 1
    BY <1>3, <1>8 DEF Meta
  <1>10. b \in Nat /\ m \in Nat /\ n \in Nat
    BY <1>1 DEF BatchAt, IsLogOf
  <1> QED
    BY <1>9, <1>10

-----------------------------------------------------------------------------
(* Where Runs, evidence and reviews come from: the invariant *)

\* What a Run was started with stays as it was.
LEMMA RunsKeepTheirStart ==
    ASSUME TypeOK, [Next]_vars, NEW r \in RunId
    PROVE  \/ /\ runs[r] # None /\ runs'[r] # None
              /\ runs'[r].project = runs[r].project
              /\ runs'[r].source = runs[r].source
              /\ runs'[r].goal = runs[r].goal /\ runs'[r].how = runs[r].how
           \/ runs[r] = None /\ runs'[r] = None
           \/ \E p \in Project, s \in Sha, g \in Goal : StartRun(r, p, s, g)
  <1>1. CASE runs'[r] = runs[r]
    BY <1>1
  <1>2. CASE \A u \in RunId : ~ RunCommand(u)
    BY <1>1, <1>2, OthersKeepRuns
  <1>3. CASE \E u \in RunId : RunCommand(u)
    <2>1. PICK u \in RunId : RunCommand(u)
      BY <1>3
    <2>2. CASE r # u
      BY <1>1, <2>1, <2>2, RunCommandIsLocal
    <2>3. CASE r = u
      <3> DEFINE Stays == /\ runs[u] # None /\ runs'[u] # None
                          /\ runs'[u].project = runs[u].project
                          /\ runs'[u].source = runs[u].source
                          /\ runs'[u].goal = runs[u].goal
                          /\ runs'[u].how = runs[u].how
      <3>1. ASSUME NEW run \in Run, runs[u] \in Run, runs[u] # None,
                   runs'[u] = run, run.project = runs[u].project,
                   run.source = runs[u].source, run.goal = runs[u].goal,
                   run.how = runs[u].how
            PROVE  Stays
        BY <3>1, NoneIsNoRecord
      <3>2. ASSUME NEW s \in Sha, NEW t \in Tree, NEW plan \in Plan,
                   CompleteRun(u, s, t, plan)
            PROVE  Stays
        <4> DEFINE run == [runs[u] EXCEPT !.status = "completed", !.result = s]
        <4>1. runs[u] \in Run /\ runs[u] # None
          BY <3>2, RunEnds DEF CompleteRun, ResultValid, IsRunning
        <4>2. runs'[u] = run
          BY <3>2 DEF CompleteRun, TypeOK
        <4>3. /\ run \in Run /\ run.project = runs[u].project
              /\ run.source = runs[u].source /\ run.goal = runs[u].goal
              /\ run.how = runs[u].how
          BY <4>1 DEF Run
        <4> HIDE DEF Stays, run
        <4> QED
          BY <3>1, <4>1, <4>2, <4>3
      <3>3. ASSUME FailRun(u) \/ CancelRun(u)
            PROVE  Stays
        <4>1. runs[u] \in Run /\ runs[u] # None
          BY <3>3, RunEnds DEF FailRun, CancelRun, IsRunning
        <4>2. PICK status \in {"failed", "canceled"} :
                 runs'[u] = [runs[u] EXCEPT !.status = status]
          BY <3>3 DEF FailRun, CancelRun, TypeOK
        <4> DEFINE run == [runs[u] EXCEPT !.status = status]
        <4>3. /\ run \in Run /\ run.project = runs[u].project
              /\ run.source = runs[u].source /\ run.goal = runs[u].goal
              /\ run.how = runs[u].how
          BY <4>1 DEF Run
        <4>4. runs'[u] = run
          BY <4>2
        <4> HIDE DEF Stays, run
        <4> QED
          BY <3>1, <4>1, <4>3, <4>4
      <3>4. CASE \/ \E k \in CheckpointId : CheckpointRun(k, u)
                 \/ \E e \in EvidenceId, target \in Criterion \cup {None} :
                      AttachRunEvidence(e, u, target)
        <4>1. runs' = runs
          BY <3>4 DEF CheckpointRun, AttachRunEvidence
        <4> QED
          BY <1>1, <4>1
      <3> QED
        BY <2>1, <2>3, <3>2, <3>3, <3>4 DEF RunCommand
    <2> QED
      BY <2>2, <2>3
  <1> QED
    BY <1>2, <1>3

\* A Run has its Goal and its How from the plan of its source.
IsFromPlan(run) ==
    /\ HasNode(run.project, run.source)
    /\ run.goal \in NodeAt(run.project, run.source).plan.goals
    /\ run.how = NodeAt(run.project, run.source).plan.how

\* What records were made from is there as it was: the plan that offered a Run
\* its Goal, the Run that evidence is for, and the Run that was reviewed.
OriginsFit ==
    /\ \A r \in RunId : runs[r] # None => IsFromPlan(runs[r])
    /\ \A e \in evidence :
         /\ runs[e.run] # None
         /\ e.criterion # None => e.criterion \in CriteriaOf[runs[e.run].goal]
    /\ \A w \in reviews : w.target.kind = "run" => runs[w.target.of] # None

\* A Run keeps to the plan of its source.
LEMMA PlansOfRunsStay ==
    ASSUME TreeInv, TreeInv', OriginsFit, [Next]_vars,
           NEW r \in RunId, runs'[r] # None
    PROVE  IsFromPlan(runs[r])'
  <1>0. TypeOK /\ Changes
    BY EveryStepChanges DEF TreeInv
  <1>1. CASE /\ runs[r] # None /\ runs'[r] # None
             /\ runs'[r].project = runs[r].project
             /\ runs'[r].source = runs[r].source
             /\ runs'[r].goal = runs[r].goal /\ runs'[r].how = runs[r].how
    <2> DEFINE p == runs[r].project
               s == runs[r].source
    <2>1. HasNode(p, s) /\ IsFromPlan(runs[r])
      BY <1>1 DEF OriginsFit, IsFromPlan
    <2>2. p' = p /\ s' = s
      BY <1>1
    <2>3. \A q, t : HasNode(q, t) =>
             HasNode(q, t)' /\ NodeAt(q, t)' = NodeAt(q, t)
      BY <1>0, NodesStay
    <2> QED
      BY <1>1, <2>1, <2>2, <2>3 DEF IsFromPlan
  <1>2. ASSUME NEW p \in Project, NEW s \in Sha, NEW g \in Goal,
               StartRun(r, p, s, g)
        PROVE  IsFromPlan(runs[r])'
    <2>1. /\ HasNode(p, s) /\ g \in NodeAt(p, s).plan.goals
          /\ runs'[r].project = p /\ runs'[r].source = s
          /\ runs'[r].goal = g /\ runs'[r].how = NodeAt(p, s).plan.how
      BY <1>0, <1>2 DEF StartRun, TypeOK
    <2>2. NodeAt(p, s)' = NodeAt(p, s) /\ HasNode(p, s)'
      BY <1>0, <2>1, NodesStay
    <2> QED
      BY <2>1, <2>2 DEF IsFromPlan
  <1> QED
    BY <1>0, <1>1, <1>2, RunsKeepTheirStart

\* Evidence is for a criterion of the Goal of its Run.
LEMMA EvidenceStaysFit ==
    ASSUME TypeOK, OriginsFit, [Next]_vars
    PROVE  \A e \in evidence' :
              /\ runs'[e.run] # None
              /\ e.criterion # None =>
                   e.criterion \in CriteriaOf[runs'[e.run].goal]
  <1>1. ASSUME NEW e, e.run \in RunId, runs[e.run] # None,
               e.criterion # None =>
                 e.criterion \in CriteriaOf[runs[e.run].goal]
        PROVE  /\ runs'[e.run] # None
               /\ e.criterion # None =>
                    e.criterion \in CriteriaOf[runs'[e.run].goal]
    <2>1. runs'[e.run] # None /\ runs'[e.run].goal = runs[e.run].goal
      BY <1>1, RunsKeepTheirStart DEF StartRun
    <2> QED
      BY <1>1, <2>1
  <1>2. ASSUME NEW r \in RunId, NEW id \in EvidenceId,
               NEW target \in Criterion \cup {None},
               AttachRunEvidence(id, r, target)
        PROVE  \A e \in evidence' \ evidence :
                 /\ e.run \in RunId /\ runs[e.run] # None
                 /\ e.criterion # None =>
                      e.criterion \in CriteriaOf[runs[e.run].goal]
    BY <1>2 DEF AttachRunEvidence, IsRunning
  <1>3. \/ evidence' = evidence
        \/ \E r \in RunId, id \in EvidenceId, target \in Criterion \cup {None} :
             AttachRunEvidence(id, r, target)
    <2>1. \A r \in RunId : RunCommand(r) =>
             \/ evidence' = evidence
             \/ \E id \in EvidenceId, target \in Criterion \cup {None} :
                  AttachRunEvidence(id, r, target)
      BY ZenonT(30) DEF RunCommand, StartRun, CheckpointRun, CompleteRun, FailRun,
             CancelRun
    <2>2. \A actor, p : ProjectCommand(actor, p) => evidence' = evidence
      BY DEF ProjectCommand, CreateProject, RebuildProjectMaterializations,
             RecordCoachReview, vars
    <2>3. \A actor, q : CoachingCommand(actor, q) => evidence' = evidence
      BY DEF CoachingCommand, RecordCoachingProposal,
             ConfirmCoachingProposal, RejectCoachingProposal
    <2>4. \A p, c : ComparisonCommand(p, c) => evidence' = evidence
      BY DEF ComparisonCommand, CompareSiblingRuns, CompareCoachedHow
    <2>5. \A actor, p, c : DecisionCommand(actor, p, c) => evidence' = evidence
      BY ZenonT(30) DEF DecisionCommand, SelectAlternative, RejectAlternatives
    <2> QED
      BY <2>1, <2>2, <2>3, <2>4, <2>5 DEF Next, vars
  <1>4. \A e \in evidence :
          /\ e.run \in RunId /\ runs[e.run] # None
          /\ e.criterion # None => e.criterion \in CriteriaOf[runs[e.run].goal]
    BY DEF OriginsFit, TypeOK
  <1>5. \A e \in evidence' :
          /\ e.run \in RunId /\ runs[e.run] # None
          /\ e.criterion # None => e.criterion \in CriteriaOf[runs[e.run].goal]
    BY <1>2, <1>3, <1>4
  <1> QED
    BY <1>1, <1>5

\* A reviewed Run is there.
LEMMA ReviewedRunsStay ==
    ASSUME TypeOK, RecordsFit, OriginsFit, [Next]_vars
    PROVE  \A w \in reviews' :
              w.target.kind = "run" => runs'[w.target.of] # None
  <1>1. \A r \in RunId : runs[r] # None => runs'[r] # None
    BY RunsKeepTheirStart DEF StartRun
  <1>2. \A w \in reviews : w.target.kind = "run" =>
          w.target.of \in RunId /\ runs[w.target.of] # None
    BY DEF OriginsFit, RecordsFit, ReviewFound
  <1>3. ASSUME NEW actor, NEW w \in ReviewId, NEW p \in Project,
               NEW target \in ReviewTarget,
               RecordCoachReview(actor, w, p, target)
        PROVE  \A x \in reviews' : x.target.kind = "run" =>
                 x.target.of \in RunId /\ runs[x.target.of] # None
    <2>1. target.kind = "run" => target.of \in RunId /\ runs[target.of] # None
      BY <1>3 DEF RecordCoachReview
    <2> DEFINE x == [id |-> w, project |-> p, target |-> target]
    <2>2. reviews' = reviews \cup {x} /\ x.target = target
      BY <1>3 DEF RecordCoachReview
    <2> HIDE DEF x
    <2> QED
      BY <1>2, <2>1, <2>2
  <1>4. \/ reviews' = reviews
        \/ \E actor \in Actor, w \in ReviewId, p \in Project,
              target \in ReviewTarget : RecordCoachReview(actor, w, p, target)
    <2>1. \A r : RunCommand(r) => reviews' = reviews
      BY ZenonT(30) DEF RunCommand, StartRun, CheckpointRun, AttachRunEvidence,
             CompleteRun, FailRun, CancelRun
    <2>2. \A actor, q : CoachingCommand(actor, q) => reviews' = reviews
      BY DEF CoachingCommand, RecordCoachingProposal,
             ConfirmCoachingProposal, RejectCoachingProposal
    <2>3. \A p, c : ComparisonCommand(p, c) => reviews' = reviews
      BY DEF ComparisonCommand, CompareSiblingRuns, CompareCoachedHow
    <2>4. \A actor, p, c : DecisionCommand(actor, p, c) => reviews' = reviews
      BY DEF DecisionCommand, SelectAlternative, RejectAlternatives
    <2>5. \A actor, p : ProjectCommand(actor, p) =>
             \/ reviews' = reviews
             \/ \E w \in ReviewId, target \in ReviewTarget :
                  RecordCoachReview(actor, w, p, target)
      BY DEF ProjectCommand, CreateProject, RebuildProjectMaterializations, vars
    <2> QED
      BY <2>1, <2>2, <2>3, <2>4, <2>5 DEF Next, vars
  <1> QED
    BY <1>1, <1>2, <1>3, <1>4

\* No command undoes it.
LEMMA OriginsInductive ==
    ASSUME TreeInv, TreeInv', RecordsFit, OriginsFit, [Next]_vars
    PROVE  OriginsFit'
  <1>1. TypeOK
    BY DEF TreeInv
  <1>2. (\A r \in RunId : runs[r] # None => IsFromPlan(runs[r]))'
    BY PlansOfRunsStay
  <1> QED
    BY <1>1, <1>2, EvidenceStaysFit, ReviewedRunsStay DEF OriginsFit

\* So it holds for ever: whatever was decided since, a Run still has the Goal
\* and the Runner of its source, and its evidence is for criteria of this Goal.
THEOREM OriginsInvariant == Spec => []OriginsFit
  <1>1. Init => OriginsFit
    BY DEF Init, OriginsFit
  <1>2. TreeInv /\ TreeInv' /\ LogInv /\ OriginsFit /\ [Next]_vars
        => OriginsFit'
    BY OriginsInductive DEF LogInv
  <1> QED
    BY <1>1, <1>2, TreeInvariant, LogInvariant, PTL DEF Spec
=============================================================================
