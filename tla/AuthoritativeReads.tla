------------------------- MODULE AuthoritativeReads -------------------------
(***************************************************************************)
(* The reads that go beyond the materialized shards: an event is looked up *)
(* by its id in the index and compared with the event that was stored; a   *)
(* Node with its payload; a Run with the plan of its source; a review, a   *)
(* proposal and a comparison with the events that recorded and decided     *)
(* them (application-service.ts).                                          *)
(*                                                                         *)
(* A shard copies each value it shows, so that every one of these reads is *)
(* a comparison of two copies made at different times.                     *)
(***************************************************************************)
EXTENDS ActivityRecords

-----------------------------------------------------------------------------
(* The event index *)

\* materializeEvents: what the index keeps of a stored event.
EventEntry(stored) ==
    [sequence |-> stored.sequence, storedEventId |-> stored.eventId,
     domainEventId |-> stored.event.meta.eventId,
     eventType |-> stored.event.type,
     actor |-> ActorShown(stored.event.meta.actor),
     reference |-> Reference(stored.event)]

\* The descriptor of shard number i of these entries.
ShardDescriptor(entries, i) ==
    LET mine == PageOf(entries, i, EVENT_INDEX_SHARD_SIZE) IN
    [index |-> i, count |-> Len(mine),
     sequenceStart |-> Head(mine).sequence, sequenceEnd |-> Last(mine).sequence,
     firstEvent |-> Head(mine).domainEventId,
     lastEvent |-> Last(mine).domainEventId]

\* buildCheckpoint: what the log is known by; the chain digest covers it all.
Checkpoint(stored) ==
    [eventCount |-> Len(stored), lastSequence |-> Last(stored).sequence,
     lastStoredEventId |-> Last(stored).eventId,
     lastDomainEventId |-> Last(stored).event.meta.eventId,
     chainDigest |-> Digest("event chain", stored)]

\* decodeEventManifest
EventManifestDecodes(descriptors, checkpoint) ==
    LET size == EVENT_INDEX_SHARD_SIZE IN
    /\ \A k \in DOMAIN descriptors :
         LET d == descriptors[k] IN
         /\ d.index = k - 1 /\ d.count \in 1..size
         /\ d.sequenceStart = d.index * size + 1
         /\ d.sequenceEnd = d.sequenceStart + d.count - 1
    /\ Len(descriptors) = Pages(checkpoint.eventCount, size)
    /\ SumOf([k \in DOMAIN descriptors |-> descriptors[k].count])
         = checkpoint.eventCount
    /\ Last(descriptors).sequenceEnd = checkpoint.lastSequence
    /\ Last(descriptors).lastEvent = checkpoint.lastDomainEventId

\* decodeEventReference
DecodesReference(v) ==
    \/ v = [kind |-> "project"]
    \/ v \in [kind : {"node"}, nodeSha : Sha]
    \/ /\ Exact(v, {"kind", "runId", "sourceNodeSha", "target"})
       /\ v.kind = "run" /\ v.runId \in RunId /\ v.sourceNodeSha \in Sha
       /\ \/ v.target = [kind |-> "pending"]
          \/ v.target \in [kind : {"registered"}, nodeSha : Sha]

\* decodeEventEntry
DecodesEntry(v) ==
    /\ Exact(v, {"sequence", "storedEventId", "domainEventId", "eventType",
                 "actor", "reference"})
    /\ v.sequence > 0 /\ DecodesReference(v.reference)
    /\ Exact(v.actor, {"id", "label"})

\* decodeEventShard, of the shard that #loadEventShards reads for a descriptor.
EventShardDecodes(entries, descriptor) ==
    LET mine == PageOf(entries, descriptor.index, EVENT_INDEX_SHARD_SIZE) IN
    /\ Len(mine) \in 1..EVENT_INDEX_SHARD_SIZE
    /\ \A k \in DOMAIN mine :
         /\ DecodesEntry(mine[k])
         /\ mine[k].sequence = descriptor.sequenceStart + k - 1
    /\ \A j, k \in DOMAIN mine :
         \/ mine[j].storedEventId = mine[k].storedEventId
         \/ mine[j].domainEventId = mine[k].domainEventId
         => j = k

-----------------------------------------------------------------------------
(* Authoritative events *)

\* eventReferenceMatchesAuthoritative
ReferenceMatches(v, e) ==
    LET run(r) == v.kind = "run" /\ v.runId = r
        node(s) == v = NodeReference(s)
    IN
    CASE e.type = "ProjectCreated" -> v.kind = "project"
      [] e.type \in {"RootNodeRegistered", "RunChildNodeRegistered",
                     "CoachingChildNodeRegistered"} -> node(e.node.commitSha)
      [] e.type = "RunStarted" ->
           /\ run(e.run.id) /\ v.sourceNodeSha = e.run.sourceNodeSha
           /\ v.target = [kind |-> "pending"]
      [] e.type = "RunCheckpointed" -> run(e.checkpoint.runId)
      [] e.type = "RunEvidenceAttached" -> run(e.evidence.runId)
      [] e.type = "RunCompleted" ->
           /\ run(e.result.runId)
           /\ v.target = [kind |-> "registered", nodeSha |-> e.result.resultSha]
      [] e.type \in {"RunFailed", "RunCanceled"} -> run(e.runId)
      [] e.type = "CoachReviewRecorded" ->
           LET target == e.review.target IN
           \/ target.type = "node" /\ node(target.nodeSha)
           \/ target.type = "run" /\ run(target.runId)
           \/ target.type = "comparison" /\ v.kind \in {"node", "project"}
      [] e.type = "CoachingProposalRecorded" -> node(e.proposal.sourceNodeSha)
      [] e.type = "CoachingProposalConfirmed" -> node(e.decision.childNodeSha)
      [] e.type = "CoachingProposalRejected" -> v.kind \in {"node", "project"}
      [] e.type = "AlternativesCompared" -> node(AnchorOf(e.comparison))
      [] e.type = "AlternativeSelected" -> node(e.decision.selectedNodeSha)
      [] e.type = "AlternativesRejected" -> node(e.decision.rejectedNodeShas[1])

\* authoritativeEventMismatch
EventMatches(p, entry, stored) ==
    /\ stored.projectId = p
    /\ entry.storedEventId = stored.eventId /\ entry.sequence = stored.sequence
    /\ entry.domainEventId = stored.event.meta.eventId
    /\ entry.eventType = stored.event.type
    /\ entry.actor = ActorShown(stored.event.meta.actor)
    /\ ReferenceMatches(entry.reference, stored.event)

\* #loadAuthoritativeEvent: an event by its id. The locator of every event has
\* the entry that the shard has.
Authoritative(log, id) ==
    log[CHOOSE n \in DOMAIN log : log[n].meta.eventId = id]

\* Every event of the index can be read, from its shard and by its id.
IndexIsReadable(p, stored) ==
    LET entries == [n \in DOMAIN stored |-> EventEntry(stored[n])]
        descriptors ==
          [k \in 1..Pages(Len(stored), EVENT_INDEX_SHARD_SIZE) |->
             ShardDescriptor(entries, k - 1)]
    IN  /\ EventManifestDecodes(descriptors, Checkpoint(stored))
        /\ \A k \in DOMAIN descriptors :
             EventShardDecodes(entries, descriptors[k])
        /\ \A n \in DOMAIN stored :
             DecodesEntry(entries[n]) /\ EventMatches(p, entries[n], stored[n])

-----------------------------------------------------------------------------
(* Nodes and Runs *)

\* graphNode: the card of a Node, as it was registered.
CardOf(n) ==
    LET node == NodeValue(n) IN
    [sha |-> node.commitSha, treeSha |-> node.treeSha,
     managedRef |-> node.managedRef, planDigest |-> node.planDigest,
     payloadDigest |-> node.payloadDigest,
     runnerType |-> node.plan.how.type,
     runnerDigest |-> Digest("runner", node.plan.how),
     nextGoalCount |-> Cardinality(node.plan.nextGoals)]

\* The payload file of the Node, written when it was registered.
StoredPayload(log, s) ==
    log[CHOOSE n \in DOMAIN log :
          "payload" \in DOMAIN log[n] /\ log[n].node.commitSha = s].payload

\* nodePayloadIntegrityError
PayloadMatches(p, card, payload) ==
    /\ payload.projectId = p
    /\ payload.commitSha = card.sha /\ payload.treeSha = card.treeSha
    /\ card.payloadDigest = Digest("payload", payload)
    /\ card.planDigest = Digest("plan", payload.plan)
    /\ card.runnerDigest = Digest("runner", payload.plan.how)

\* #loadGraphNodeAndPayload, without the graph's own checks and the anchor.
NodeReads(p, log, n) ==
    LET envelope == StoredPayload(log, n.sha) IN
    /\ CardOf(n).managedRef = ManagedRef(p, n.sha)
    /\ Opens(envelope) /\ DecodesPayload(envelope.data)
    /\ PayloadMatches(p, CardOf(n), envelope.data)

\* #readRun: the Goal and the Runner are those of the plan of the source, and
\* evidence is for the criteria of that Goal.
RunReads(p, log, r) ==
    LET run == RunActivity(r)
        plan == StoredPayload(log, run.sourceNodeSha).data.plan
        goals == {g \in plan.nextGoals : Digest("goal", g) = run.goalDigest}
    IN
    /\ NodeReads(p, log, NodeAt(p, run.sourceNodeSha))
    /\ goals # {} /\ Digest("runner", plan.how) = run.runnerDigest
    /\ \A e \in EvidenceActivities(r) : e.target.type = "criterion" =>
         \A g \in goals : e.target.criterion \in g.acceptanceCriteria

-----------------------------------------------------------------------------
(* Reviews, proposals and comparisons *)

\* coachReviewActivityMatches
ReviewMatches(w, review) ==
    /\ w.id = review.id /\ w.targetType = review.target.type
    /\ w.targetId = CASE review.target.type = "node" -> review.target.nodeSha
                      [] review.target.type = "run" -> review.target.runId
                      [] review.target.type = "comparison" ->
                           review.target.comparisonId

\* #readCoachReview
ReviewReads(log, w) ==
    LET e == Authoritative(log, w.eventId) IN
    e.type = "CoachReviewRecorded" /\ ReviewMatches(w, e.review)

\* coachingActivityMatches
ProposalMatches(q, proposal) ==
    \A key \in (ProposalKeys \cup {"summary", "rationale"})
                 \ {"projectId", "proposedPlan"} : q[key] = proposal[key]

\* coachingChildRegistrationMatches
RegistrationMatches(p, log, q, proposedPlan, e) ==
    LET child == q.disposition.childNodeSha
        card == CardOf(NodeAt(p, child))
        payload == StoredPayload(log, child).data
        node == e.node
    IN
    /\ e.type = "CoachingChildNodeRegistered" /\ node.type = "coaching_child"
    /\ node.projectId = p /\ node.commitSha = child
    /\ node.parentSha = q.sourceNodeSha /\ node.proposalId = q.id
    /\ \A key \in {"treeSha", "managedRef", "planDigest", "payloadDigest"} :
         node[key] = card[key]
    /\ e.payload.digest = node.payloadDigest
    /\ payload.projectId = p /\ payload.commitSha = child
    /\ payload.treeSha = card.treeSha
    /\ node.plan = proposedPlan /\ node.plan = payload.plan

\* #verifyCoachingProposalDisposition
DispositionReads(p, log, q, proposedPlan) ==
    LET d == q.disposition
        decided(type) ==
          LET e == Authoritative(log, d.decisionEventId) IN
          /\ e.type = type /\ e.decision.id = d.decisionId
          /\ e.decision.proposalId = q.id
          /\ type = "CoachingProposalConfirmed" =>
               e.decision.childNodeSha = d.childNodeSha
    IN
    CASE d.type = "pending" -> TRUE
      [] d.type = "rejected" -> decided("CoachingProposalRejected")
      [] d.type = "confirmed" ->
           /\ decided("CoachingProposalConfirmed")
           /\ NodeReads(p, log, NodeAt(p, d.childNodeSha))
           /\ RegistrationMatches(p, log, q, proposedPlan,
                  Authoritative(log, d.childRegistrationEventId))

\* #readCoachingProposal
ProposalReads(p, log, q) ==
    LET e == Authoritative(log, q.eventId)
        card == CardOf(NodeAt(p, q.sourceNodeSha))
    IN
    /\ NodeReads(p, log, NodeAt(p, q.sourceNodeSha))
    /\ e.type = "CoachingProposalRecorded" /\ ProposalMatches(q, e.proposal)
    /\ card.payloadDigest = q.sourcePayloadDigest
    /\ card.planDigest = q.sourcePlanDigest
    /\ Digest("plan", e.proposal.proposedPlan) = q.proposedPlanDigest
    /\ DispositionReads(p, log, q, e.proposal.proposedPlan)

\* alternativeDecisionMatches
DecisionMatches(p, d, decision) ==
    /\ decision.type = d.type /\ decision.id = d.id
    /\ decision.projectId = p /\ decision.comparisonId = d.comparisonId
    /\ d.nodeShas = IF d.type = "selection" THEN <<decision.selectedNodeSha>>
                    ELSE decision.rejectedNodeShas

\* comparisonActivityMatches
ComparisonMatches(c, comparison) ==
    \A key \in DOMAIN c \ {"eventId", "disposition"} :
        c[key] = comparison[key]

\* #verifyAlternativeDisposition
AlternativesRead(p, log, disposition) ==
    disposition.type = "decisions_recorded" =>
        \A d \in disposition.decisions :
            LET decided == Authoritative(log, d.eventId) IN
            /\ decided.type = IF d.type = "selection"
                              THEN "AlternativeSelected"
                              ELSE "AlternativesRejected"
            /\ DecisionMatches(p, d, decided.decision)

\* #readAlternativeComparison
ComparisonReads(p, log, c) ==
    LET e == Authoritative(log, c.eventId) IN
    /\ e.type = "AlternativesCompared" /\ ComparisonMatches(c, e.comparison)
    /\ AlternativesRead(p, log, c.disposition)

-----------------------------------------------------------------------------
(* Properties *)

\* Everything the shards show can be confirmed by what was stored, however the
\* state went on after it: the entry of an event, copied when the event was
\* appended or at any later head, matches the event; a Node opens with the
\* payload it was registered with; a Run has the Goal and Runner of its source;
\* and the state's record of a review, a proposal or a comparison is what its
\* event says, with the decisions on it.
ReadsAreAuthoritative(p, log) ==
    LET ids == EventIds(log) IN
    /\ \A n \in {m \in nodes : m.project = p} : NodeReads(p, log, n)
    /\ \A r \in ProjectRuns(p) : RunReads(p, log, r)
    /\ \A w \in {x \in reviews : x.project = p} :
         ReviewReads(log, ReviewActivity(w, ids))
    /\ \A q \in ProjectProposals(p) :
         ProposalReads(p, log, CoachingActivity(q, ids))
    /\ \A c \in {x \in comparisons : x.project = p} :
         ComparisonReads(p, log, ComparisonActivity(c, ids))

ActivityIsAuthoritative ==
    \A p \in {q \in Project : rootSha[q] # None} :
        LET log == LogOf(p) IN
        /\ IndexIsReadable(p, StoredLog(p))
        /\ RecordsAreReadable(p, log)
        /\ ReadsAreAuthoritative(p, log)
=============================================================================
