------------------------------ MODULE WebViews ------------------------------
(***************************************************************************)
(* The answers that the service builds from the catalog and the shards of  *)
(* a Project (application-service.ts), as the dashboard decodes them       *)
(* (v2Decoders.ts), next to the projections of the state they stand for.   *)
(***************************************************************************)
EXTENDS AuthoritativeReads, Projections

-----------------------------------------------------------------------------
(* The catalog of a Project, and the manifests that must agree with it *)

\* buildShardedProjectReadModels
Catalog(p, stored) ==
    LET root == CHOOSE n \in ProjectNodes(p) : n.kind = "root" IN
    [project |-> p, rootNodeSha |-> rootSha[p], checkpoint |-> Checkpoint(stored),
     counts |-> [nodes |-> Cardinality(ProjectNodes(p)),
                 activeRuns |-> Cardinality(ActiveRuns(p)),
                 unresolvedDivergences |-> UnresolvedDivergenceCount(p),
                 events |-> Len(stored)],
     rootAnchor |-> [managedRef |-> NodeValue(root).managedRef,
                     nodeSha |-> root.sha, treeSha |-> root.tree]]

\* decodeShardedProjectCatalog
CatalogDecodes(catalog) ==
    /\ catalog.counts.nodes > 0
    /\ catalog.counts.events = catalog.checkpoint.eventCount
    /\ catalog.rootNodeSha = catalog.rootAnchor.nodeSha
    /\ catalog.rootAnchor.managedRef =
         ManagedRef(catalog.project, catalog.rootAnchor.nodeSha)

\* graphManifestIntegrityError
GraphManifestMatches(catalog, manifest) ==
    /\ manifest.root = catalog.rootNodeSha
    /\ manifest.nodeCount = catalog.counts.nodes
    /\ manifest.edgeCount = manifest.nodeCount - 1

\* graphNodeIntegrityError
GraphNodeMatches(catalog, manifest, n) ==
    /\ n.ordinal < manifest.nodeCount
    /\ n.ordinal = 0 <=> n.kind = "root"
    /\ n.kind = "root" => n.sha = manifest.root
    /\ CardOf(NodeAt(catalog.project, n.sha)).managedRef =
         ManagedRef(catalog.project, n.sha)

\* activityManifestIntegrityError
ActivityManifestMatches(catalog, p) ==
    Cardinality({n.sha : n \in ProjectNodes(p)}) = catalog.counts.nodes

-----------------------------------------------------------------------------
(* Answers *)

\* #readProjectList, of one Project.
ListItemView(catalog) ==
    [id |-> catalog.project, rootNodeSha |-> catalog.rootNodeSha,
     nodeCount |-> catalog.counts.nodes,
     activeRunCount |-> catalog.counts.activeRuns,
     unresolvedDivergenceCount |-> catalog.counts.unresolvedDivergences,
     integrity |-> [status |-> "valid"]]

\* readGraphNode, with the card that the page holds.
GraphNodeView(p, n) ==
    LET card == CardOf(NodeAt(p, n.sha)) IN
    [sha |-> n.sha, status |-> n.status, nextGoalCount |-> card.nextGoalCount,
     runner |-> [typeKey |-> card.runnerType, digest |-> card.runnerDigest],
     integrity |-> "valid"]

\* readGraphEdge
GraphEdgeView(e) ==
    [sourceSha |-> e.source, targetSha |-> e.target] ++
    IF e.kind = "run_child"
    THEN [kind |-> "run", id |-> <<"run", e.origin>>, runId |-> e.origin,
          goal |-> [digest |-> RunActivity(e.origin).goalDigest]]
    ELSE [kind |-> "coaching", id |-> <<"coaching", e.origin>>,
          proposalId |-> e.origin, summary |-> ProposalValue(e.origin).summary]

\* #readGraph, of one window.
GraphView(p, window, limit) ==
    [project |-> ProjectSummary(p), integrity |-> [status |-> "valid"],
     nodes |-> [i \in DOMAIN window.nodes |-> GraphNodeView(p, window.nodes[i])],
     edges |-> {GraphEdgeView(e) : e \in window.edges},
     activeRuns |-> {ActiveRunView(r) : r \in window.activeRuns},
     window |-> [limit |-> limit, hasMore |-> window.next # None,
                 continuationCursor |-> window.next]]

\* readEvidenceSummary
EvidenceView(p, item) ==
    [id |-> item.id, kind |-> EvidenceKind[item.kind],
     criterion |-> IF item.target.type = "criterion"
                   THEN [kind |-> "linked", goalDigest |-> item.goalDigest,
                         criterion |-> item.target.criterion]
                   ELSE [kind |-> "unlinked"],
     location |-> EvidenceLocation(p, item.location)]

\* readDecisionActivity and readComparisonActivity: less the event ids.
WithoutEvent(v) == Restrict(v, DOMAIN v \ {"eventId"})

ComparisonView(c) ==
    [WithoutEvent(c) EXCEPT
       !.disposition =
         IF @.type = "undecided" THEN @
         ELSE [@ EXCEPT !.decisions = {WithoutEvent(d) : d \in @}]]

\* readCoachingActivity
CoachingView(q) ==
    [WithoutEvent(q) EXCEPT
       !.disposition =
         Restrict(@, DOMAIN @ \ {"decisionEventId", "childRegistrationEventId"})]

\* readCoachReviewActivity
ReviewView(w) ==
    [id |-> w.id,
     target |-> CASE w.targetType = "node" ->
                       [type |-> "node", nodeSha |-> w.targetId]
                  [] w.targetType = "run" ->
                       [type |-> "run", runId |-> w.targetId]
                  [] w.targetType = "comparison" ->
                       [type |-> "comparison", comparisonId |-> w.targetId]]

\* Mutant of Recent: the first page, with the oldest entries.
RecentOldest(entries) ==
    IF entries = <<>> THEN <<>> ELSE PageOf(entries, 0, NODE_ACTIVITY_PAGE_SIZE)

\* #loadNodeActivitySummary: the last page of every kind.
Recent(entries) ==
    IF entries = <<>> THEN <<>>
    ELSE PageOf(entries, LastPage(Len(entries)), NODE_ACTIVITY_PAGE_SIZE)

\* #readNode, of a Node in this graph whose events have these ids.
NodeView(p, log, graph, ids, n) ==
    LET s == n.sha
        card == CardOf(NodeAt(p, s))
        payload == StoredPayload(log, s).data
        all == NodeEntries(p, s)
        recent == [kind \in ActivityKind |-> Recent(all[kind])]
        byId(S, id) == CHOOSE x \in S : x.id = id
        compared ==
          SelectSeq([i \in DOMAIN recent.comparisons |->
                       ComparisonActivity(
                         byId(comparisons, recent.comparisons[i].id), ids)],
                    LAMBDA c : AnchorOf(c) = s \/ s \in Range(c.nodeShas))
        decided ==
          SelectSeq([i \in DOMAIN recent.decisions |->
                       DecisionActivity(recent.decisions[i], ids)],
                    LAMBDA d : s \in Range(d.nodeShas))
    IN  [sha |-> card.sha, payloadDigest |-> card.payloadDigest,
         planDigest |-> card.planDigest, treeSha |-> card.treeSha,
         managedRef |-> card.managedRef, integrity |-> [status |-> "valid"],
         status |-> n.status,
         lineage |-> LineageProjection(NodeValue(NodeAt(p, s))),
         plan |-> PlanProjection(payload.plan),
         outgoingEdges |-> {GraphEdgeView(e) :
                              e \in {x \in graph.edges : x.source = s}},
         activeRuns |-> {ActiveRunView(r) :
                           r \in {x \in graph.activeRuns : runs[x].source = s}},
         evidence |-> [i \in DOMAIN recent.evidence |->
                         EvidenceView(p, EvidenceActivity(recent.evidence[i]))],
         comparisons |-> [i \in DOMAIN compared |-> ComparisonView(compared[i])],
         decisions |->
           [i \in DOMAIN decided |->
              [kind |-> IF decided[i].type = "selection" THEN "selected"
                        ELSE "rejected",
               id |-> decided[i].id, nodeSha |-> s]],
         coachingProposals |->
           [i \in DOMAIN recent.coaching |->
              CoachingView(CoachingActivity(recent.coaching[i].id, ids))],
         coachReviews |->
           [i \in DOMAIN recent.reviews |->
              ReviewView(ReviewActivity(recent.reviews[i], ids))]]

\* readDomainRun, with the Goal and the Runner of the source's payload.
RunView(p, log, r) ==
    LET run == RunActivity(r)
        plan == StoredPayload(log, run.sourceNodeSha).data.plan
    IN  [id |-> run.id, projectId |-> p, sourceNodeSha |-> run.sourceNodeSha,
         goal |-> CHOOSE g \in plan.nextGoals :
                    Digest("goal", g) = run.goalDigest,
         goalDigest |-> run.goalDigest, runner |-> plan.how,
         runnerDigest |-> run.runnerDigest, branch |-> run.branch,
         checkpoints |-> run.checkpoints, evidenceIds |-> run.evidenceIds,
         status |-> run.outcome.type] ++
        IF run.outcome.type = "completed"
        THEN [resultNodeSha |-> run.outcome.nodeSha] ELSE <<>>

\* runContract: what the worker of a started Run is told, less the leases and
\* the tools of its Runner.
RunContract(r) ==
    LET run == StartedRun(r) IN
    [requiredEvidence |-> {[criterion |-> a] : a \in run.goal.acceptanceCriteria}]
    ++ Restrict(run, {"id", "projectId", "sourceNodeSha", "goal", "goalDigest",
                      "runner", "runnerDigest", "branch"})

\* readDomainEvidence
RunEvidenceView(p, item) ==
    [projectId |-> p] ++
    Restrict(item, {"id", "runId", "target", "kind", "location"})

\* readEventIndexEntry
EventView(entry) ==
    [sequence |-> entry.sequence, id |-> entry.domainEventId,
     type |-> entry.eventType, actor |-> entry.actor,
     reference |-> entry.reference]

-----------------------------------------------------------------------------
(* What the dashboard accepts *)

DecodesProjectSummary(v) ==
    Exact(v, {"id", "rootNodeSha"}) /\ v.rootNodeSha \in Sha

DecodesIntegrity(v) == v \in {[status |-> "valid"], [status |-> "invalid"]}

DecodesListItem(v) ==
    /\ Exact(v, {"id", "rootNodeSha", "nodeCount", "activeRunCount",
                 "unresolvedDivergenceCount", "integrity"})
    /\ DecodesProjectSummary(Restrict(v, {"id", "rootNodeSha"}))
    /\ {v.nodeCount, v.activeRunCount, v.unresolvedDivergenceCount} \subseteq Nat
    /\ DecodesIntegrity(v.integrity)

DecodesStatus(v) == v \in {"available", "current", "selected", "rejected"}

DecodesRunnerSummary(v) ==
    Exact(v, {"typeKey", "digest"}) /\ IsDigest("runner", v.digest)

DecodesGraphNode(v) ==
    /\ Exact(v, {"sha", "status", "runner", "nextGoalCount", "integrity"})
    /\ v.sha \in Sha /\ DecodesStatus(v.status) /\ v.nextGoalCount \in Nat
    /\ DecodesRunnerSummary(v.runner) /\ v.integrity = "valid"

DecodesGraphEdge(v) ==
    /\ v.kind \in {"run", "coaching"}
    /\ Exact(v, {"kind", "id", "sourceSha", "targetSha"} \cup
                IF v.kind = "run" THEN {"runId", "goal"}
                ELSE {"proposalId", "summary"})
    /\ {v.sourceSha, v.targetSha} \subseteq Sha
    /\ v.kind = "run" =>
         Exact(v.goal, {"digest"}) /\ IsDigest("goal", v.goal.digest)

\* decodeProjectGraph: a window that is cut has a cursor, and no other has.
DecodesGraph(v) ==
    /\ Exact(v, {"project", "integrity", "nodes", "edges", "activeRuns",
                 "window"})
    /\ DecodesProjectSummary(v.project) /\ DecodesIntegrity(v.integrity)
    /\ \A i \in DOMAIN v.nodes : DecodesGraphNode(v.nodes[i])
    /\ \A e \in v.edges : DecodesGraphEdge(e)
    /\ \A r \in v.activeRuns : DecodesActiveRun(r)
    /\ v.window.limit > 0 /\ Len(v.nodes) <= v.window.limit
    /\ v.window.hasMore <=> v.window.continuationCursor # None

DecodesLineage(v) ==
    /\ v.kind \in {"root", "run_child", "coaching_child"}
    /\ Exact(v, CASE v.kind = "root" -> {"kind"}
                  [] v.kind = "run_child" ->
                       {"kind", "parentSha", "runId", "goalDigest"}
                  [] v.kind = "coaching_child" ->
                       {"kind", "parentSha", "proposalId"})
    /\ v.kind # "root" => v.parentSha \in Sha
    /\ v.kind = "run_child" => IsDigest("goal", v.goalDigest)

DecodesGoalView(v) ==
    /\ Exact(v, {"digest", "key", "acceptanceCriteria"})
    /\ IsDigest("goal", v.digest) /\ v.acceptanceCriteria # {}

\* decodeRunnerValue: the summary names the type that is locked.
DecodesRunnerView(v) ==
    /\ Exact(v, {"typeKey", "digest", "type", "value"})
    /\ v.typeKey = v.type /\ IsDigest("runner", v.digest)

DecodesUrl(url) == Head(url) = "https"

DecodesEvidenceView(v) ==
    /\ Exact(v, {"id", "kind", "criterion", "location"})
    /\ v.kind \in {"commit", "check", "report", "artifact", "link"}
    /\ \/ v.criterion = [kind |-> "unlinked"]
       \/ /\ Exact(v.criterion, {"kind", "goalDigest", "criterion"})
          /\ v.criterion.kind = "linked"
          /\ IsDigest("goal", v.criterion.goalDigest)
    /\ \/ v.location = [kind |-> "none"]
       \/ /\ Exact(v.location, {"kind", "url"})
          /\ v.location.kind = "url" /\ DecodesUrl(v.location.url)

DecodesShas(shas, least) ==
    /\ Range(shas) \subseteq Sha /\ IsInjective(shas) /\ Len(shas) >= least

DecodesDecisionView(v) ==
    /\ Exact(v, {"id", "type", "comparisonId", "nodeShas"})
    /\ v.type \in {"selection", "rejection"} /\ DecodesShas(v.nodeShas, 1)
    /\ v.type = "selection" => Len(v.nodeShas) = 1

\* decodeComparison and decodeComparisonDisposition
DecodesComparisonView(v) ==
    /\ v.type \in {"sibling_runs", "coached_how_experiment"}
    /\ Exact(v, {"type", "id", "nodeShas", "summary", "disposition"} \cup
                IF v.type = "sibling_runs" THEN {"parentNodeSha"}
                ELSE {"anchorNodeSha", "goalDigest"})
    /\ AnchorOf(v) \in Sha /\ DecodesShas(v.nodeShas, 2)
    /\ \/ v.disposition = [type |-> "undecided"]
       \/ /\ Exact(v.disposition, {"type", "decisions"})
          /\ v.disposition.type = "decisions_recorded"
          /\ v.disposition.decisions # {}
          /\ \A d \in v.disposition.decisions :
               /\ DecodesDecisionView(d) /\ d.comparisonId = v.id
               /\ Range(d.nodeShas) \subseteq Range(v.nodeShas)
          /\ \A d, e \in v.disposition.decisions : d.id = e.id => d = e

\* decodeCoachingProposal and decodeCoachingDisposition
DecodesCoachingView(v) ==
    /\ Exact(v, {"id", "sourceNodeSha", "sourcePayloadDigest",
                 "sourcePlanDigest", "proposedPlanDigest", "summary",
                 "rationale", "disposition"})
    /\ v.sourceNodeSha \in Sha
    /\ IsDigest("payload", v.sourcePayloadDigest)
    /\ IsDigest("plan", v.sourcePlanDigest)
    /\ IsDigest("plan", v.proposedPlanDigest)
    /\ v.disposition.type \in {"pending", "confirmed", "rejected"}
    /\ Exact(v.disposition,
             CASE v.disposition.type = "pending" -> {"type"}
               [] v.disposition.type = "rejected" -> {"type", "decisionId"}
               [] v.disposition.type = "confirmed" ->
                    {"type", "decisionId", "childNodeSha"})

\* decodeCoachReview and decodeCoachReviewTarget
DecodesReviewView(v) ==
    /\ Exact(v, {"id", "target"})
    /\ \/ v.target \in [type : {"node"}, nodeSha : Sha]
       \/ v.target \in [type : {"run"}, runId : RunId]
       \/ v.target \in [type : {"comparison"}, comparisonId : ComparisonId]

DecodesNodeDecision(v) ==
    /\ Exact(v, {"kind", "id", "nodeSha"})
    /\ v.kind \in {"selected", "rejected"} /\ v.nodeSha \in Sha

\* decodeNode
DecodesNodeView(v) ==
    /\ v.sha \in Sha /\ IsDigest("payload", v.payloadDigest)
    /\ IsDigest("plan", v.planDigest) /\ v.treeSha \in Tree
    /\ DecodesIntegrity(v.integrity) /\ DecodesStatus(v.status)
    /\ DecodesLineage(v.lineage) /\ DecodesRunnerView(v.plan.how)
    /\ \A g \in v.plan.nextGoals : DecodesGoalView(g)
    /\ \A e \in v.outgoingEdges : DecodesGraphEdge(e)
    /\ \A r \in v.activeRuns : DecodesActiveRun(r)
    /\ \A x \in Range(v.evidence) : DecodesEvidenceView(x)
    /\ \A x \in Range(v.comparisons) : DecodesComparisonView(x)
    /\ \A x \in Range(v.decisions) : DecodesNodeDecision(x)
    /\ \A x \in Range(v.coachingProposals) : DecodesCoachingView(x)
    /\ \A x \in Range(v.coachReviews) : DecodesReviewView(x)

\* decodeEvent
DecodesEventView(v) ==
    /\ Exact(v, {"sequence", "id", "type", "actor", "reference"})
    /\ v.sequence > 0 /\ Exact(v.actor, {"id", "label"})
    /\ DecodesReference(v.reference)

-----------------------------------------------------------------------------
(* Properties *)

Lists == {"evidence", "comparisons", "decisions", "coachingProposals",
          "coachReviews"}

\* A Node is shown as it is: every field but the lists equals the projection
\* of the state, and a list is the most recent part of the projection's, all
\* of it as long as a page of activity holds what is related to the Node.
ShowsNode(p, view, n, integrity) ==
    LET detail == NodeDetail(p, n.sha, integrity)
        all == NodeEntries(p, n.sha)
        inOnePage == \A kind \in ActivityKind :
                       Len(all[kind]) <= NODE_ACTIVITY_PAGE_SIZE
    IN
    /\ DOMAIN view = DOMAIN detail
    /\ \A key \in DOMAIN detail \ Lists : view[key] = detail[key]
    /\ \A key \in Lists : IsSuffix(view[key], detail[key])
    /\ inOnePage => view = detail

\* A Run is shown as it is, but that its checkpoints do not name it.
ShowsRun(p, log, r) ==
    LET run == RunView(p, log, r)
        whole == [run EXCEPT !.checkpoints = {k ++ [runId |-> r] : k \in @}]
    IN  RunDetail(r) =
          [run |-> whole,
           evidence |-> {RunEvidenceView(p, item) :
                           item \in EvidenceActivities(r)}]

\* What the worker of a Run was told when it started holds for as long as the
\* Run is shown, and it is asked for what the Goal of the Run asks for.
ContractHolds(p, log, r) ==
    LET contract == RunContract(r)
        run == RunView(p, log, r)
    IN  /\ \A key \in DOMAIN contract \ {"requiredEvidence"} :
             contract[key] = run[key]
        /\ {x.criterion : x \in contract.requiredEvidence}
             = run.goal.acceptanceCriteria

\* What the dashboard shows of a Project is decoded without an error, and is
\* what the projections say of the state: its counts, its tree, which the
\* service calls valid without looking, each Node, each Run and each event.
ViewsShowTheState ==
    \A p \in {q \in Project : rootSha[q] # None} :
        LET log == LogOf(p)
            stored == StoredLog(p)
            catalog == Catalog(p, stored)
            graph == Graph(p)
            manifest == GraphManifest(graph)
            pages == Computed([k \in DOMAIN graph.leaves |->
                                 GraphPage(graph, k - 1)])
            walk == GraphWalk(pages, manifest.nodeCount, GRAPH_PAGE_SIZE)
            ids == EventIds(log)
            integrity == GraphIntegrity(p)
            events == [k \in DOMAIN stored |-> EventView(EventEntry(stored[k]))]
        IN
        /\ CatalogDecodes(catalog) /\ ActivityManifestMatches(catalog, p)
        /\ GraphManifestMatches(catalog, manifest)
        /\ ListItemView(catalog) = ListItem(p) /\ DecodesListItem(ListItem(p))
        /\ \A k \in DOMAIN walk :
             DecodesGraph(GraphView(p, walk[k], GRAPH_PAGE_SIZE))
        /\ \A k \in DOMAIN graph.nodes :
             LET n == graph.nodes[k]
                 view == NodeView(p, log, graph, ids, n)
             IN  /\ GraphNodeMatches(catalog, manifest, n)
                 /\ DecodesNodeView(view) /\ ShowsNode(p, view, n, integrity)
        /\ \A r \in ProjectRuns(p) :
             ShowsRun(p, log, r) /\ ContractHolds(p, log, r)
        /\ events = EventList(log)
        /\ \A k \in DOMAIN events : DecodesEventView(events[k])
=============================================================================
