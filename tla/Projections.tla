---------------------------- MODULE Projections -----------------------------
(***************************************************************************)
(* What a client is to be shown, as functions of the whole state           *)
(* (packages/projections/src/project.ts).  The service does not compute    *)
(* them: it serves the same answers from materialized shards.  They are    *)
(* the reference that WebViews compares those answers with.                *)
(***************************************************************************)
EXTENDS EventPages, ProjectCore

-----------------------------------------------------------------------------
(* graphIntegrity *)

ProjectNodes(p) == {n \in nodes : n.project = p}

\* No structural cycle: the parents of n lead to the root.
ReachesRoot(p, n) ==
    LET bound == Cardinality(ProjectNodes(p))
        up[k \in 0..bound] ==
          IF k = 0 THEN n
          ELSE IF up[k - 1].kind = "root" THEN up[k - 1]
          ELSE NodeAt(p, up[k - 1].parent)
    IN  up[bound].kind = "root"

HasOneRoot(p) ==
    \E n \in ProjectNodes(p) :
        /\ {m \in ProjectNodes(p) : m.kind = "root"} = {n}
        /\ n.sha = rootSha[p]

IsTree(p) ==
    LET mine == ProjectNodes(p)
        children == {n \in mine : n.kind # "root"}
    IN  /\ \A m, n \in mine : m.sha = n.sha => m = n
        /\ \A n \in children : n.parent # n.sha /\ HasNode(p, n.parent)
        /\ \A n \in children : ReachesRoot(p, n)

\* The result of a completed Run is its child.
RunEdgeHolds(p, r) ==
    \E n \in ProjectNodes(p) :
        /\ n.sha = runs[r].result /\ n.kind = "run_child"
        /\ n.origin = r /\ n.parent = runs[r].source

GraphIntegrity(p) ==
    IF /\ HasOneRoot(p) /\ IsTree(p)
       /\ \A r \in ProjectRuns(p) :
            runs[r].status = "completed" => RunEdgeHolds(p, r)
    THEN [status |-> "valid"] ELSE [status |-> "invalid"]

-----------------------------------------------------------------------------
(* Parts *)

ProjectSummary(p) == [id |-> p, rootNodeSha |-> rootSha[p]]

RunnerSummary(runner) ==
    [typeKey |-> runner.type, digest |-> Digest("runner", runner)]

\* The type lock stands for its key, its version and its integrity.
RunnerProjection(runner) == RunnerSummary(runner) ++ runner

GoalProjection(goal) == [digest |-> Digest("goal", goal)] ++ goal

PlanProjection(plan) ==
    [nextGoals |-> {GoalProjection(g) : g \in plan.nextGoals},
     how |-> RunnerProjection(plan.how)]

LineageProjection(node) ==
    [kind |-> node.type] ++
    CASE node.type = "root" -> <<>>
      [] node.type = "run_child" ->
           [parentSha |-> node.parentSha, runId |-> node.runId,
            goalDigest |-> node.consumedGoalDigest]
      [] node.type = "coaching_child" ->
           [parentSha |-> node.parentSha, proposalId |-> node.proposalId]

\* graphEdges of completed Runs and of confirmed proposals.
RunEdges(p) ==
    {[kind |-> "run", id |-> <<"run", n.origin>>, sourceSha |-> n.parent,
      targetSha |-> n.sha, runId |-> n.origin,
      goal |-> [digest |-> RunValue(n.origin).goalDigest]] :
       n \in {m \in ProjectNodes(p) :
                /\ m.kind = "run_child"
                /\ runs[m.origin] # None /\ runs[m.origin].status = "completed"}}

CoachingEdges(p) ==
    {[kind |-> "coaching", id |-> <<"coaching", n.origin>>,
      sourceSha |-> n.parent, targetSha |-> n.sha, proposalId |-> n.origin,
      summary |-> ProposalValue(n.origin).summary] :
       n \in {m \in ProjectNodes(p) :
                /\ m.kind = "coaching_child" /\ proposals[m.origin] # None
                /\ \E x \in dispositions :
                     x.proposal = m.origin /\ x.status = "confirmed"}}

ActiveRunProjections(p) ==
    {[id |-> r, sourceNodeSha |-> RunValue(r).sourceNodeSha,
      goalDigest |-> RunValue(r).goalDigest] :
       r \in {x \in ProjectRuns(p) : runs[x].status = "running"}}

-----------------------------------------------------------------------------
(* The records around a Node *)

EvidenceKind ==
    [diff |-> "commit", check |-> "check", report |-> "report",
     screenshot |-> "artifact", note |-> "link"]

BlobUrl(p, location) == <<"https", p, location.commitSha, location.path>>

EvidenceLocation(p, location) ==
    CASE location.type = "url" -> [kind |-> "url", url |-> location.url]
      [] location.type = "git" ->
           [kind |-> "url", url |-> BlobUrl(p, location)]
      [] location.type = "text" -> [kind |-> "none"]

EvidenceProjection(e) ==
    LET item == EvidenceValue(e) IN
    [id |-> item.id, kind |-> EvidenceKind[item.kind],
     criterion |-> IF item.target.type = "criterion"
                   THEN [kind |-> "linked",
                         goalDigest |-> RunValue(item.runId).goalDigest,
                         criterion |-> item.target.criterion]
                   ELSE [kind |-> "unlinked"],
     location |-> EvidenceLocation(item.projectId, item.location)]

DecisionShas(decision) ==
    IF decision.type = "selection" THEN <<decision.selectedNodeSha>>
    ELSE decision.rejectedNodeShas

ComparisonProjection(c) ==
    LET comparison == ComparisonValue(c)
        own == {DecisionValue(d) :
                  d \in {x \in DecisionRows(c.project) : x.comparison = c.id}}
    IN  [id |-> c.id, type |-> c.kind, nodeShas |-> comparison.nodeShas,
         summary |-> comparison.summary,
         disposition |->
           IF own = {} THEN [type |-> "undecided"]
           ELSE [type |-> "decisions_recorded",
                 decisions |-> {[id |-> d.id, type |-> d.type,
                                 comparisonId |-> d.comparisonId,
                                 nodeShas |-> DecisionShas(d)] : d \in own}]] ++
        IF c.kind = "sibling_runs"
        THEN [parentNodeSha |-> comparison.parentNodeSha]
        ELSE [anchorNodeSha |-> comparison.anchorNodeSha,
              goalDigest |-> comparison.goalDigest]

CoachingProjection(q) ==
    LET proposal == ProposalValue(q)
        on == {DispositionValue(x) : x \in {y \in dispositions : y.proposal = q}}
        decided == CHOOSE d \in on : TRUE
    IN  [id |-> q,
         disposition |->
           IF on = {} THEN [type |-> "pending"]
           ELSE [type |-> decided.status, decisionId |-> decided.id] ++
                IF decided.status = "confirmed"
                THEN [childNodeSha |-> decided.childNodeSha] ELSE <<>>] ++
        Restrict(proposal, {"sourceNodeSha", "sourcePayloadDigest",
                            "sourcePlanDigest", "proposedPlanDigest",
                            "summary", "rationale"})

ReviewProjection(w) == [id |-> w.id, target |-> ReviewValue(w).target]

\* decisionsForNode
DecisionProjection(d, s) ==
    [kind |-> IF d.kind = "selection" THEN "selected" ELSE "rejected",
     id |-> d.id, nodeSha |-> s]

-----------------------------------------------------------------------------
(* The projections *)

\* nodeDetailProjection, its lists in the order they were recorded in, with the
\* integrity of the whole graph.
NodeDetail(p, s, integrity) ==
    LET n == NodeAt(p, s)
        node == NodeValue(n)
        mine == {r \in ProjectRuns(p) :
                   \/ runs[r].source = s
                   \/ runs[r].status = "completed" /\ runs[r].result = s}
        compared == {c \in comparisons :
                       c.project = p /\ (s \in c.nodes \/ c.anchor = s)}
        reviewed == {w \in reviews :
                       /\ w.project = p
                       /\ \/ w.target.kind = "node" /\ w.target.of = s
                          \/ w.target.kind = "run" /\ w.target.of \in mine
                          \/ /\ w.target.kind = "comparison"
                             /\ w.target.of \in {c.id : c \in compared}}
        of == [evidence |-> InOrder({e \in evidence : e.run \in mine}),
               comparisons |-> InOrder(compared),
               decisions |-> InOrder({d \in DecisionRows(p) : s \in d.nodes}),
               coaching |-> InOrder({q \in CoachingRows(p) : q.source = s}),
               reviews |-> InOrder(reviewed)]
    IN  [sha |-> node.commitSha, payloadDigest |-> node.payloadDigest,
         planDigest |-> node.planDigest, treeSha |-> node.treeSha,
         managedRef |-> node.managedRef, integrity |-> integrity,
         status |-> NodeStatus(p, n), lineage |-> LineageProjection(node),
         plan |-> PlanProjection(node.plan),
         outgoingEdges |-> {e \in RunEdges(p) \cup CoachingEdges(p) :
                              e.sourceSha = s},
         activeRuns |-> {r \in ActiveRunProjections(p) : r.sourceNodeSha = s},
         evidence |-> [i \in DOMAIN of.evidence |->
                         EvidenceProjection(of.evidence[i])],
         comparisons |-> [i \in DOMAIN of.comparisons |->
                            ComparisonProjection(of.comparisons[i])],
         decisions |-> [i \in DOMAIN of.decisions |->
                          DecisionProjection(of.decisions[i], s)],
         coachingProposals |-> [i \in DOMAIN of.coaching |->
                                  CoachingProjection(of.coaching[i].id)],
         coachReviews |-> [i \in DOMAIN of.reviews |->
                             ReviewProjection(of.reviews[i])]]

\* runDetailProjection
RunDetail(r) ==
    [run |-> RunValue(r),
     evidence |-> {EvidenceValue(e) : e \in {x \in evidence : x.run = r}}]

\* eventListProjection
EventList(log) ==
    [n \in DOMAIN log |->
       [sequence |-> n, id |-> log[n].meta.eventId, type |-> log[n].type,
        actor |-> ActorShown(log[n].meta.actor), reference |-> Reference(log[n])]]

\* projectListProjection
ListItem(p) ==
    ProjectSummary(p) ++
    [nodeCount |-> Cardinality(ProjectNodes(p)),
     activeRunCount |-> Cardinality(ActiveRunProjections(p)),
     unresolvedDivergenceCount |-> UnresolvedDivergenceCount(p),
     integrity |-> GraphIntegrity(p)]
=============================================================================
