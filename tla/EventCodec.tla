----------------------------- MODULE EventCodec -----------------------------
(***************************************************************************)
(* Reading the log back: the decoders of packages/protocol                 *)
(* (serialization.ts) with the upgrade of the two kinds of v2 events, the  *)
(* node payload and its envelope, the stored envelope around an event and  *)
(* the checks with which a Project is reconstructed (state-store.ts).      *)
(*                                                                         *)
(* A decoder is the set of values it accepts: the exact fields of the      *)
(* record, and for each field the values its primitive admits.             *)
(***************************************************************************)
EXTENDS DomainEvents

Exact(v, keys) == DOMAIN v = keys

IsDigest(kind, d) == d[1] = kind

-----------------------------------------------------------------------------
(* Plans and payloads *)

DecodesGoal(v) ==
    /\ Exact(v, {"key", "acceptanceCriteria"})
    /\ v.key \in Goal
    /\ v.acceptanceCriteria # {} /\ v.acceptanceCriteria \subseteq Criterion

\* The type lock of a Runner value is registered exactly.
DecodesRunner(v) ==
    Exact(v, {"type", "value"}) /\ v.type = RunnerType /\ v.value \in How

\* Goals of a plan differ by their keys and by their digests.
DecodesPlan(v) ==
    /\ Exact(v, {"nextGoals", "how"})
    /\ \A g \in v.nextGoals : DecodesGoal(g)
    /\ \A g, h \in v.nextGoals : g.key = h.key => g = h
    /\ DecodesRunner(v.how)

DecodesPayload(v) ==
    /\ Exact(v, {"projectId", "commitSha", "treeSha", "plan"})
    /\ v.projectId \in Project /\ v.commitSha \in Sha /\ v.treeSha \in Tree
    /\ DecodesPlan(v.plan)

DecodesEnvelope(v) ==
    Exact(v, {"digest", "data"}) /\ IsDigest("payload", v.digest)

\* decodeNodeEnvelope: the data is what the digest says.
Opens(envelope) ==
    DecodesEnvelope(envelope)
    /\ envelope.digest = Digest("payload", envelope.data)

\* verifyNodePayload: the envelope holds the payload of this Node.
HoldsPayloadOf(node, envelope) ==
    /\ Opens(envelope)
    /\ DecodesPayload(envelope.data)
    /\ envelope.digest = Digest("payload", PayloadOf(node))

-----------------------------------------------------------------------------
(* Records *)

DecodesProject(v) ==
    /\ Exact(v, {"id", "rootNodeSha"})
    /\ v.id \in Project /\ v.rootNodeSha \in Sha

ChildKeys(kind) ==
    CASE kind = "root" -> {}
      [] kind = "run_child" -> {"parentSha", "runId", "consumedGoalDigest"}
      [] kind = "coaching_child" -> {"parentSha", "proposalId"}

DecodesNode(v) ==
    /\ v.type \in {"root", "run_child", "coaching_child"}
    /\ Exact(v, {"type", "projectId", "commitSha", "treeSha", "managedRef",
                 "plan", "planDigest", "payloadDigest"} \cup ChildKeys(v.type))
    /\ v.projectId \in Project /\ v.commitSha \in Sha /\ v.treeSha \in Tree
    /\ DecodesPlan(v.plan)
    /\ IsDigest("plan", v.planDigest) /\ IsDigest("payload", v.payloadDigest)
    /\ v.type # "root" => v.parentSha \in Sha
    /\ v.type = "run_child" =>
         v.runId \in RunId /\ IsDigest("goal", v.consumedGoalDigest)
    /\ v.type = "coaching_child" => v.proposalId \in ProposalId

DecodesCheckpoint(v) ==
    /\ Exact(v, {"id", "runId", "location"})
    /\ v.id \in CheckpointId /\ v.runId \in RunId
    /\ \/ v.location = [type |-> "observation"]
       \/ v.location \in [type : {"commit"}, commitSha : Sha]

DecodesRun(v) ==
    /\ v.status \in {"running", "completed", "failed", "canceled"}
    /\ Exact(v, {"id", "projectId", "sourceNodeSha", "goal", "goalDigest",
                 "runner", "runnerDigest", "branch", "checkpoints",
                 "evidenceIds", "status"}
                \cup IF v.status = "completed" THEN {"resultNodeSha"} ELSE {})
    /\ v.id \in RunId /\ v.projectId \in Project /\ v.sourceNodeSha \in Sha
    /\ DecodesGoal(v.goal) /\ IsDigest("goal", v.goalDigest)
    /\ DecodesRunner(v.runner) /\ IsDigest("runner", v.runnerDigest)
    /\ \A k \in v.checkpoints : DecodesCheckpoint(k)
    /\ v.evidenceIds \subseteq EvidenceId
    /\ v.status = "completed" => v.resultNodeSha \in Sha

DecodesLocation(v) ==
    \/ v \in [type : {"git"}, commitSha : Sha, path : {Text}]
    \/ Exact(v, {"type", "url"}) /\ v.type = "url"
    \/ v \in [type : {"text"}, text : {Text}]

DecodesEvidence(v) ==
    /\ Exact(v, {"id", "projectId", "runId", "target", "kind", "location"})
    /\ v.id \in EvidenceId /\ v.projectId \in Project /\ v.runId \in RunId
    /\ \/ v.target = [type |-> "run"]
       \/ v.target \in [type : {"criterion"}, criterion : Criterion]
    /\ v.kind \in {"diff", "check", "screenshot", "report", "note"}
    /\ DecodesLocation(v.location)

DecodesResult(v) ==
    /\ Exact(v, {"runId", "branch", "resultSha"})
    /\ v.runId \in RunId /\ v.resultSha \in Sha

DecodesReview(v) ==
    /\ Exact(v, {"id", "projectId", "target"})
    /\ v.id \in ReviewId /\ v.projectId \in Project
    /\ \/ v.target \in [type : {"node"}, nodeSha : Sha]
       \/ v.target \in [type : {"run"}, runId : RunId]
       \/ v.target \in [type : {"comparison"}, comparisonId : ComparisonId]

ProposalKeys ==
    {"id", "projectId", "sourceNodeSha", "sourcePayloadDigest",
     "sourcePlanDigest", "proposedPlan", "proposedPlanDigest"}

\* What the v3 and the v2 decoder of a Coaching proposal check alike.
DecodesProposed(v) ==
    /\ v.id \in ProposalId /\ v.projectId \in Project
    /\ v.sourceNodeSha \in Sha
    /\ IsDigest("payload", v.sourcePayloadDigest)
    /\ IsDigest("plan", v.sourcePlanDigest)
    /\ DecodesPlan(v.proposedPlan) /\ IsDigest("plan", v.proposedPlanDigest)

DecodesProposal(v) ==
    /\ Exact(v, ProposalKeys \cup {"summary", "rationale"})
    /\ DecodesProposed(v)
    /\ v.summary = Text /\ v.rationale = Text

DecodesCoachingDecision(v) ==
    /\ v.status \in {"confirmed", "rejected"}
    /\ Exact(v, {"status", "id", "proposalId"}
                \cup IF v.status = "confirmed" THEN {"childNodeSha"} ELSE {})
    /\ v.id \in DecisionId /\ v.proposalId \in ProposalId
    /\ v.status = "confirmed" => v.childNodeSha \in Sha

DecodesFinding(v) ==
    /\ Exact(v, {"subject", "summaries"})
    /\ v.summaries # <<>>
    /\ \A i \in DOMAIN v.summaries :
         v.summaries[i] \in [nodeSha : Sha, summary : {Text}]

SummarizedNodes(finding) ==
    [i \in DOMAIN finding.summaries |-> finding.summaries[i].nodeSha]

\* A finding summarizes every compared Node exactly once.
SummarizesAll(finding, shas) ==
    /\ IsInjective(SummarizedNodes(finding))
    /\ Len(finding.summaries) = Len(shas)
    /\ Range(shas) = Range(SummarizedNodes(finding))

DecodesComparison(v) ==
    /\ v.type \in {"sibling_runs", "coached_how_experiment"}
    /\ Exact(v, {"type", "id", "projectId", "nodeShas", "findings", "summary"}
                \cup IF v.type = "sibling_runs" THEN {"parentNodeSha"}
                     ELSE {"anchorNodeSha", "goalDigest"})
    /\ v.id \in ComparisonId /\ v.projectId \in Project
    /\ Len(v.nodeShas) >= 2 /\ Range(v.nodeShas) \subseteq Sha
    /\ IsInjective(v.nodeShas)
    /\ \A i \in DOMAIN v.findings :
         DecodesFinding(v.findings[i])
         /\ SummarizesAll(v.findings[i], v.nodeShas)
    /\ IF v.type = "sibling_runs" THEN v.parentNodeSha \in Sha
       ELSE v.anchorNodeSha \in Sha /\ IsDigest("goal", v.goalDigest)

DecodesDecision(v) ==
    /\ v.type \in {"selection", "rejection"}
    /\ Exact(v, {"type", "id", "projectId", "comparisonId",
                 IF v.type = "selection" THEN "selectedNodeSha"
                 ELSE "rejectedNodeShas"})
    /\ v.id \in DecisionId /\ v.projectId \in Project
    /\ v.comparisonId \in ComparisonId
    /\ IF v.type = "selection" THEN v.selectedNodeSha \in Sha
       ELSE /\ v.rejectedNodeShas # <<>> /\ IsInjective(v.rejectedNodeShas)
            /\ Range(v.rejectedNodeShas) \subseteq Sha

-----------------------------------------------------------------------------
(* Events *)

DecodesActor(v) ==
    \/ v = [type |-> "system"]
    \/ v \in [type : {"user", "coach", "plugin"}, id : {Text}]

DecodesMeta(v) ==
    /\ Exact(v, {"eventId", "idempotencyKey", "fingerprint", "actor"})
    /\ IsDigest("command", v.fingerprint)
    /\ DecodesActor(v.actor)

\* The fields of an event besides its type and its metadata.
Body(e) == DOMAIN e \ {"type", "meta"}

DecodesRegistration(e, kind) ==
    /\ Body(e) = {"node", "payload"}
    /\ DecodesNode(e.node) /\ e.node.type = kind
    /\ DecodesEnvelope(e.payload)

DecodesEvent(e) ==
    DecodesMeta(e.meta) /\
    CASE e.type = "ProjectCreated" ->
           Body(e) = {"project"} /\ DecodesProject(e.project)
      [] e.type = "RootNodeRegistered" -> DecodesRegistration(e, "root")
      [] e.type = "RunStarted" ->
           Body(e) = {"run"} /\ DecodesRun(e.run) /\ e.run.status = "running"
      [] e.type = "RunCheckpointed" ->
           Body(e) = {"checkpoint"} /\ DecodesCheckpoint(e.checkpoint)
      [] e.type = "RunEvidenceAttached" ->
           Body(e) = {"evidence"} /\ DecodesEvidence(e.evidence)
      [] e.type = "RunCompleted" ->
           Body(e) = {"result"} /\ DecodesResult(e.result)
      [] e.type = "RunChildNodeRegistered" ->
           DecodesRegistration(e, "run_child")
      [] e.type \in {"RunFailed", "RunCanceled"} ->
           Body(e) = {"runId"} /\ e.runId \in RunId
      [] e.type = "CoachReviewRecorded" ->
           Body(e) = {"review"} /\ DecodesReview(e.review)
      [] e.type = "CoachingProposalRecorded" ->
           Body(e) = {"proposal"} /\ DecodesProposal(e.proposal)
      [] e.type \in {"CoachingProposalConfirmed", "CoachingProposalRejected"} ->
           /\ Body(e) = {"decision"} /\ DecodesCoachingDecision(e.decision)
           /\ (e.type = "CoachingProposalConfirmed")
                = (e.decision.status = "confirmed")
      [] e.type = "CoachingChildNodeRegistered" ->
           DecodesRegistration(e, "coaching_child")
      [] e.type = "AlternativesCompared" ->
           Body(e) = {"comparison"} /\ DecodesComparison(e.comparison)
      [] e.type \in {"AlternativeSelected", "AlternativesRejected"} ->
           /\ Body(e) = {"decision"} /\ DecodesDecision(e.decision)
           /\ (e.type = "AlternativeSelected")
                = (e.decision.type = "selection")

\* projectStateCodec.decodeEvent: a registered Node's payload is opened, too.
DecodesStored(e) ==
    /\ DecodesEvent(e)
    /\ "payload" \in DOMAIN e => HoldsPayloadOf(e.node, e.payload)

-----------------------------------------------------------------------------
(* Events of the v2 log *)

\* A v2 proposal gave one reason.
V2Proposal(v) ==
    [key \in ProposalKeys \cup {"reason"} |->
       IF key = "reason" THEN v.rationale ELSE v[key]]

\* decodeHistoricalV2CoachingProposal
UpgradedProposal(v) ==
    [key \in ProposalKeys \cup {"summary", "rationale"} |->
       IF key \in ProposalKeys THEN v[key] ELSE v.reason]

\* A v2 comparison was of siblings and its findings, each on some of the
\* compared Nodes, could leave others out.
V2Comparison(v, shas) ==
    [key \in DOMAIN v \ {"type"} |->
       IF key = "findings" THEN <<Finding(shas)>> ELSE v[key]]

\* The summaries of a finding in the order of the Nodes; for a Node without
\* one, the summary of the comparison.
FilledFinding(finding, v) ==
    [subject |-> finding.subject,
     summaries |-> [i \in DOMAIN v.nodeShas |->
       LET given == {x \in Range(finding.summaries) :
                       x.nodeSha = v.nodeShas[i]}
       IN  IF given = {} THEN [nodeSha |-> v.nodeShas[i], summary |-> v.summary]
           ELSE CHOOSE x \in given : TRUE]]

\* decodeHistoricalV2Comparison
UpgradedComparison(v) ==
    [type |-> "sibling_runs"] ++
    [key \in DOMAIN v |->
       IF key # "findings" THEN v[key]
       ELSE [i \in DOMAIN v.findings |-> FilledFinding(v.findings[i], v)]]

\* decodeHistoricalV2Event: every other kind of event is as it was.
V2EventDecodes(e) ==
    CASE e.type = "CoachingProposalRecorded" ->
           DecodesProposal(UpgradedProposal(V2Proposal(e.proposal)))
      [] e.type = "AlternativesCompared" /\ e.comparison.type = "sibling_runs" ->
           \A S \in (SUBSET Range(e.comparison.nodeShas)) \ {{}} :
               DecodesComparison(
                   UpgradedComparison(V2Comparison(e.comparison, Listing(S))))
      [] OTHER -> TRUE

-----------------------------------------------------------------------------
(* The stored log *)

\* validateCommandBatches
BatchesValid(p, stored) ==
    /\ \A i, j \in DOMAIN stored : stored[i].eventId = stored[j].eventId => i = j
    /\ \A i \in DOMAIN stored :
         LET batch == {j \in DOMAIN stored :
                         stored[j].idempotencyKeyHash
                           = stored[i].idempotencyKeyHash}
             index == Cardinality({j \in batch : j < i})
         IN  /\ stored[i].eventId = <<p, stored[i].idempotencyKeyHash, index>>
             /\ index > 0 => i - 1 \in batch
             /\ \A j \in batch :
                  /\ stored[j].commandHash = stored[i].commandHash
                  /\ stored[j].previousStateSha = stored[i].previousStateSha
                  /\ stored[j].actor = stored[i].actor
             /\ stored[i].commandEventCount = Cardinality(batch)

\* decodeStoredProjectEventEnvelope and #decodeStoredEvents
StoredLogDecodes(p, stored) ==
    /\ \A n \in DOMAIN stored :
         /\ stored[n].projectId = p /\ stored[n].sequence = n
         /\ stored[n].commandEventCount > 0
         /\ DecodesStored(stored[n].event)
    /\ BatchesValid(p, stored)

\* decodeState: the Nodes and Runs as they are by now; the other records are
\* those of the events.
StateDecodes(p) ==
    /\ \A n \in {m \in nodes : m.project = p} : DecodesNode(NodeValue(n))
    /\ \A r \in ProjectRuns(p) : DecodesRun(RunValue(r))

\* nodeAnchors
NodeAnchors(p) ==
    {[managedRef |-> NodeValue(n).managedRef, nodeSha |-> n.sha,
      treeSha |-> n.tree] : n \in {m \in nodes : m.project = p}}

\* The managed tags: each was created before its Node's registration was
\* appended, at the commit that the registration names.
TagsOf(p, log) ==
    {[managedRef |-> ManagedRef(p, e.node.commitSha),
      nodeSha |-> e.node.commitSha, treeSha |-> e.node.treeSha] :
       e \in {log[n] : n \in {m \in DOMAIN log : "payload" \in DOMAIN log[m]}}}

\* #verifyNodeAnchors
AnchorsVerified(p, anchors, tags) ==
    /\ \A s, t \in tags : s.managedRef = t.managedRef => s = t
    /\ \A a, b \in anchors : a.nodeSha = b.nodeSha => a = b
    /\ \A a \in anchors : a.managedRef = ManagedRef(p, a.nodeSha)
    /\ anchors \subseteq tags

\* #reconstructProject
Reconstructs(p, stored) ==
    /\ stored # <<>> /\ StoredLogDecodes(p, stored)
    /\ AnchorsVerified(p, NodeAnchors(p), TagsOf(p, LogOf(p)))

-----------------------------------------------------------------------------
(* Properties *)

\* What the commands write can be reconstructed: every event decodes to the
\* values it was made of, with the payload of the Node it registers; batches
\* are whole; the same events from a v2 log are upgraded to events that the
\* v3 decoder and the engine accept (#reconstructProject, decodeDomainEvent).
LogIsReadable ==
    \A p \in {q \in Project : rootSha[q] # None} :
        LET stored == StoredLog(p) IN
        /\ Reconstructs(p, stored)
        /\ \A n \in DOMAIN stored : V2EventDecodes(stored[n].event)
        /\ StateDecodes(p)
=============================================================================
