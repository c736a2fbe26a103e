---------------------------- MODULE DomainEvents ----------------------------
(***************************************************************************)
(* The events of a Project with the values they carry (model.ts), as the   *)
(* commands of the application service and the engine build them.          *)
(*                                                                         *)
(* The state keeps every record a command added, so the log can be read    *)
(* off it: one batch of events for each command.  A digest is the term it  *)
(* is computed from.  Wording and timestamps are left out of the values    *)
(* but for those that a decoder copies from one field to another.          *)
(***************************************************************************)
EXTENDS ProjectState, SequencesExt

CONSTANT EvidenceShape      \* the kind and the location each piece has

ASSUME EvidenceHasShape ==
    EvidenceShape \in
      [EvidenceId -> [kind : {"diff", "check", "screenshot", "report", "note"},
                      location : {"git", "url", "text"}]]

Text == "text"

\* The fields of r, and those of s that r has not.
r ++ s ==
    [field \in DOMAIN r \cup DOMAIN s |->
       IF field \in DOMAIN r THEN r[field] ELSE s[field]]

\* The elements of S in some order.
Listing(S) == FoldSet(LAMBDA x, s : Append(s, x), <<>>, S)

\* stringifyCanonical and sha256Hex: equal exactly for equal values.
Digest(kind, value) == <<kind, value>>

-----------------------------------------------------------------------------
(* Values of packages/protocol *)

GoalValue(g) == [key |-> g, acceptanceCriteria |-> CriteriaOf[g]]

RunnerType == "runner type lock"
RunnerValue(h) == [type |-> RunnerType, value |-> h]

PlanValue(plan) ==
    [nextGoals |-> {GoalValue(g) : g \in plan.goals},
     how |-> RunnerValue(plan.how)]

PlanDigest(plan) == Digest("plan", PlanValue(plan))

\* nodePayloadFor
PayloadOf(node) ==
    [projectId |-> node.projectId, commitSha |-> node.commitSha,
     treeSha |-> node.treeSha, plan |-> node.plan]

ManagedRef(p, s) == <<"refs/tags/hunsu/node", p, s>>

\* buildNode
NodeValue(n) ==
    LET payload == [projectId |-> n.project, commitSha |-> n.sha,
                    treeSha |-> n.tree, plan |-> PlanValue(n.plan)]
    IN  payload ++
        [type |-> n.kind, managedRef |-> ManagedRef(n.project, n.sha),
         planDigest |-> PlanDigest(n.plan),
         payloadDigest |-> Digest("payload", payload)] ++
        CASE n.kind = "root" -> <<>>
          [] n.kind = "run_child" ->
               [parentSha |-> n.parent, runId |-> n.origin,
                consumedGoalDigest |-> Digest("goal", GoalValue(n.goal))]
          [] n.kind = "coaching_child" ->
               [parentSha |-> n.parent, proposalId |-> n.origin]

\* encodeNodeEnvelope
Envelope(payload) == [digest |-> Digest("payload", payload), data |-> payload]

\* runBranchName
RunBranch(r) == <<"hunsu/run", runs[r].project, runs[r].source, r>>

CheckpointValue(k) ==
    [id |-> k.id, runId |-> k.run, location |-> [type |-> "observation"]]

\* buildRunningRun
StartedRun(r) ==
    [id |-> r, projectId |-> runs[r].project,
     sourceNodeSha |-> runs[r].source,
     goal |-> GoalValue(runs[r].goal),
     goalDigest |-> Digest("goal", GoalValue(runs[r].goal)),
     runner |-> RunnerValue(runs[r].how),
     runnerDigest |-> Digest("runner", RunnerValue(runs[r].how)),
     branch |-> RunBranch(r), checkpoints |-> {}, evidenceIds |-> {},
     status |-> "running"]

\* The Run that applyDomainEvent has made of it by now.
RunValue(r) ==
    [StartedRun(r) EXCEPT
       !.checkpoints = {CheckpointValue(k) :
                          k \in {x \in checkpoints : x.run = r}},
       !.evidenceIds = {e.id : e \in {x \in evidence : x.run = r}},
       !.status = runs[r].status] ++
    IF runs[r].status = "completed" THEN [resultNodeSha |-> runs[r].result]
    ELSE <<>>

ResultValue(r) ==
    [runId |-> r, branch |-> RunBranch(r), resultSha |-> runs[r].result]

\* safeHttpUrl lets no other location be a URL.
Url == <<"https", Text>>

\* evidenceRef; what it points at is up to the caller.
EvidenceValue(e) ==
    LET shape == EvidenceShape[e.id] IN
    [id |-> e.id, projectId |-> runs[e.run].project, runId |-> e.run,
     kind |-> shape.kind,
     target |-> IF e.criterion = None THEN [type |-> "run"]
                ELSE [type |-> "criterion", criterion |-> e.criterion],
     location |->
       CASE shape.location = "git" ->
              [type |-> "git", commitSha |-> runs[e.run].source, path |-> Text]
         [] shape.location = "url" -> [type |-> "url", url |-> Url]
         [] shape.location = "text" -> [type |-> "text", text |-> Text]]

ReviewValue(w) ==
    [id |-> w.id, projectId |-> w.project,
     target |-> CASE w.target.kind = "node" ->
                       [type |-> "node", nodeSha |-> w.target.of]
                  [] w.target.kind = "run" ->
                       [type |-> "run", runId |-> w.target.of]
                  [] w.target.kind = "comparison" ->
                       [type |-> "comparison", comparisonId |-> w.target.of]]

\* #proposeTransition
ProposalValue(q) ==
    LET source == NodeValue(NodeAt(proposals[q].project, proposals[q].source))
    IN  [id |-> q, projectId |-> proposals[q].project,
         sourceNodeSha |-> source.commitSha,
         sourcePayloadDigest |-> source.payloadDigest,
         sourcePlanDigest |-> source.planDigest,
         proposedPlan |-> PlanValue(proposals[q].plan),
         proposedPlanDigest |-> PlanDigest(proposals[q].plan),
         summary |-> Text, rationale |-> Text]

DispositionValue(x) ==
    [status |-> x.status, id |-> x.id, proposalId |-> x.proposal] ++
    IF x.status = "confirmed" THEN [childNodeSha |-> x.child] ELSE <<>>

\* A finding with a summary for each of `shas`.
Finding(shas) ==
    [subject |-> Text,
     summaries |-> [i \in DOMAIN shas |->
                      [nodeSha |-> shas[i], summary |-> Text]]]

\* buildComparison; validateComparisonFindings lets through only findings that
\* summarize each of the compared Nodes once.
ComparisonValue(c) ==
    LET shas == Listing(c.nodes) IN
    [type |-> c.kind, id |-> c.id, projectId |-> c.project, nodeShas |-> shas,
     findings |-> <<Finding(Reverse(shas))>>, summary |-> Text] ++
    IF c.kind = "sibling_runs" THEN [parentNodeSha |-> c.anchor]
    ELSE [anchorNodeSha |-> c.anchor,
          goalDigest |-> Digest("goal", GoalValue(c.goal))]

DecisionValue(d) ==
    [type |-> d.kind, id |-> d.id, projectId |-> d.project,
     comparisonId |-> d.comparison] ++
    IF d.kind = "selection"
    THEN [selectedNodeSha |-> CHOOSE s \in d.nodes : TRUE]
    ELSE [rejectedNodeShas |-> Listing(d.nodes)]

-----------------------------------------------------------------------------
(* The log *)

User == [type |-> "user", id |-> Text]
Coach == [type |-> "coach", id |-> Text]
Plugin == [type |-> "plugin", id |-> Text]

\* commandMetadata: what the events of one command have in common.
Batch(command, actor, bodies) ==
    [i \in DOMAIN bodies |->
       bodies[i] ++
       [meta |-> [eventId |-> <<command, i - 1>>, idempotencyKey |-> command,
                  fingerprint |-> Digest("command", command),
                  actor |-> actor]]]

Registered(type, n) ==
    [type |-> type, node |-> NodeValue(n),
     payload |-> Envelope(PayloadOf(NodeValue(n)))]

CreationBatch(p) ==
    Batch(<<"CreateProject", p>>, User,
          <<[type |-> "ProjectCreated",
             project |-> [id |-> p, rootNodeSha |-> rootSha[p]]],
            Registered("RootNodeRegistered", NodeAt(p, rootSha[p]))>>)

\* The commands on Run r that are recorded; they come from a plugin.
RunBatches(r) ==
    LET one(type, id, body) == Batch(<<type, id>>, Plugin, <<body>>) IN
    {one("StartRun", r, [type |-> "RunStarted", run |-> StartedRun(r)])}
    \cup {one("CheckpointRun", k.id,
              [type |-> "RunCheckpointed", checkpoint |-> CheckpointValue(k)])
            : k \in {x \in checkpoints : x.run = r}}
    \cup {one("AttachRunEvidence", e.id,
              [type |-> "RunEvidenceAttached", evidence |-> EvidenceValue(e)])
            : e \in {x \in evidence : x.run = r}}
    \cup CASE runs[r].status = "running" -> {}
           [] runs[r].status = "completed" ->
                {Batch(<<"CompleteRun", r>>, Plugin,
                       <<[type |-> "RunCompleted", result |-> ResultValue(r)],
                         Registered("RunChildNodeRegistered",
                                    NodeAt(runs[r].project, runs[r].result))>>)}
           [] runs[r].status = "failed" ->
                {one("FailRun", r, [type |-> "RunFailed", runId |-> r])}
           [] runs[r].status = "canceled" ->
                {one("CancelRun", r, [type |-> "RunCanceled", runId |-> r])}

ReviewBatches(p) ==
    {Batch(<<"RecordCoachReview", w.id>>, Coach,
           <<[type |-> "CoachReviewRecorded", review |-> ReviewValue(w)]>>)
       : w \in {x \in reviews : x.project = p}}

CoachingBatches(q) ==
    {Batch(<<"RecordCoachingProposal", q>>, Coach,
           <<[type |-> "CoachingProposalRecorded",
              proposal |-> ProposalValue(q)]>>)}
    \cup {Batch(<<"ConfirmCoachingProposal", x.id>>, User,
                <<[type |-> "CoachingProposalConfirmed",
                   decision |-> DispositionValue(x)],
                  Registered("CoachingChildNodeRegistered",
                             NodeAt(proposals[q].project, x.child))>>)
            : x \in {y \in dispositions : y.proposal = q
                                          /\ y.status = "confirmed"}}
    \cup {Batch(<<"RejectCoachingProposal", x.id>>, User,
                <<[type |-> "CoachingProposalRejected",
                   decision |-> DispositionValue(x)]>>)
            : x \in {y \in dispositions : y.proposal = q
                                          /\ y.status = "rejected"}}

AlternativeBatches(p) ==
    {Batch(<<"CompareAlternatives", c.id>>, Coach,
           <<[type |-> "AlternativesCompared",
              comparison |-> ComparisonValue(c)]>>)
       : c \in {x \in comparisons : x.project = p}}
    \cup {Batch(<<"SelectAlternative", d.id>>, User,
                <<[type |-> "AlternativeSelected",
                   decision |-> DecisionValue(d)]>>)
            : d \in {x \in decisions : x.project = p /\ x.kind = "selection"}}
    \cup {Batch(<<"RejectAlternatives", d.id>>, User,
                <<[type |-> "AlternativesRejected",
                   decision |-> DecisionValue(d)]>>)
            : d \in {x \in decisions : x.project = p /\ x.kind = "rejection"}}

ProjectRuns(p) == {r \in RunId : runs[r] # None /\ runs[r].project = p}
ProjectProposals(p) ==
    {q \in ProposalId : proposals[q] # None /\ proposals[q].project = p}

\* The batches of p after the one that created it.
BatchesOf(p) ==
    (UNION {RunBatches(r) : r \in ProjectRuns(p)}) \cup ReviewBatches(p)
    \cup (UNION {CoachingBatches(q) : q \in ProjectProposals(p)})
    \cup AlternativeBatches(p)

\* The log, in one of the orders its batches may have been appended in.
LogOf(p) == CreationBatch(p) \o FlattenSeq(Listing(BatchesOf(p)))

\* append: the envelope of event number n of the log, of which the batch was
\* appended as one command.
StoredEvent(p, log, n) ==
    LET of(i) == log[i].meta.idempotencyKey
        batch == {i \in DOMAIN log : of(i) = of(n)}
        first == CHOOSE i \in batch : \A j \in batch : i <= j
    IN  [eventId |-> <<p, of(n), n - first>>, projectId |-> p,
         idempotencyKeyHash |-> of(n), commandHash |-> log[n].meta.fingerprint,
         previousStateSha |-> first, commandEventCount |-> Cardinality(batch),
         sequence |-> n, actor |-> log[n].meta.actor, event |-> log[n]]

\* The sequence is built once (SubSeq), for TLC.
StoredLog(p) ==
    LET log == LogOf(p) IN
    SubSeq([n \in DOMAIN log |-> StoredEvent(p, log, n)], 1, Len(log))
=============================================================================
