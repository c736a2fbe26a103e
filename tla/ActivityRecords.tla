-------------------------- MODULE ActivityRecords ---------------------------
(***************************************************************************)
(* The entries of the activity lists as values: what the materializer      *)
(* copies of a record into its entry, with the id of the event that        *)
(* recorded it (materializeActivity), and what the decoders of the entries *)
(* accept (sharded-read-models.ts).                                        *)
(***************************************************************************)
EXTENDS EventPages, EventCodec

-----------------------------------------------------------------------------
(* Materialization *)

\* activityEventIdMaps: the record that an event is looked up for.
RecordKey(e) ==
    CASE e.type = "CoachReviewRecorded" -> <<"review", e.review.id>>
      [] e.type = "CoachingProposalRecorded" -> <<"proposal", e.proposal.id>>
      [] e.type \in {"CoachingProposalConfirmed",
                     "CoachingProposalRejected"} ->
           <<"proposal decision", e.decision.id>>
      [] e.type = "CoachingChildNodeRegistered" ->
           <<"coaching child", e.node.proposalId>>
      [] e.type = "AlternativesCompared" -> <<"comparison", e.comparison.id>>
      [] e.type \in {"AlternativeSelected", "AlternativesRejected"} ->
           <<"alternative decision", e.decision.id>>
      [] OTHER -> <<>>

RecordKeys(log) == {RecordKey(log[n]) : n \in DOMAIN log} \ {<<>>}

RecordedOnce(log) ==
    Cardinality(RecordKeys(log))
      = Cardinality({n \in DOMAIN log : RecordKey(log[n]) # <<>>})

\* Of several events for a record, the map keeps the last.
EventIds(log) ==
    [key \in RecordKeys(log) |->
       LET found == {n \in DOMAIN log : RecordKey(log[n]) = key}
           last == CHOOSE n \in found : \A m \in found : m <= n
       IN  log[last].meta.eventId]

\* materializeActivity fails for a record that no event recorded.
AllRecorded(p, log) ==
    /\ {<<"review", w.id>> : w \in {x \in reviews : x.project = p}}
       \cup {<<"comparison", c.id>> : c \in ComparisonRows(p)}
       \cup {<<"alternative decision", d.id>> : d \in DecisionRows(p)}
       \cup {<<"proposal", q>> : q \in ProjectProposals(p)}
         \subseteq RecordKeys(log)
    /\ \A x \in {y \in dispositions : y.proposal \in ProjectProposals(p)} :
         /\ <<"proposal decision", x.id>> \in RecordKeys(log)
         /\ x.status = "confirmed" =>
              <<"coaching child", x.proposal>> \in RecordKeys(log)

\* activeRun
ActiveRunView(r) ==
    [id |-> r, sourceNodeSha |-> RunValue(r).sourceNodeSha,
     goalDigest |-> RunValue(r).goalDigest]

\* runActivity
RunActivity(r) ==
    LET run == RunValue(r) IN
    ActiveRunView(r) ++
    [runnerDigest |-> run.runnerDigest, branch |-> run.branch,
     checkpoints |-> {[id |-> k.id, location |-> k.location] :
                        k \in run.checkpoints},
     evidenceIds |-> run.evidenceIds,
     outcome |-> IF run.status = "completed"
                 THEN [type |-> "completed", nodeSha |-> run.resultNodeSha]
                 ELSE [type |-> run.status]]

\* evidenceActivity
EvidenceActivity(e) ==
    LET item == EvidenceValue(e) IN
    [id |-> e.id, runId |-> e.run, goalDigest |-> RunValue(e.run).goalDigest,
     kind |-> item.kind, target |-> item.target, location |-> item.location]

\* decisionActivity
DecisionActivity(d, ids) ==
    LET decision == DecisionValue(d) IN
    [id |-> d.id, eventId |-> ids[<<"alternative decision", d.id>>],
     type |-> d.kind, comparisonId |-> d.comparison,
     nodeShas |-> IF d.kind = "selection" THEN <<decision.selectedNodeSha>>
                  ELSE decision.rejectedNodeShas]

ComparisonActivity(c, ids) ==
    LET comparison == ComparisonValue(c)
        own == {DecisionActivity(d, ids) :
                  d \in {x \in DecisionRows(c.project) : x.comparison = c.id}}
    IN  [id |-> c.id, eventId |-> ids[<<"comparison", c.id>>],
         type |-> c.kind, nodeShas |-> comparison.nodeShas,
         summary |-> comparison.summary,
         disposition |-> IF own = {} THEN [type |-> "undecided"]
                         ELSE [type |-> "decisions_recorded",
                               decisions |-> own]] ++
        IF c.kind = "sibling_runs"
        THEN [parentNodeSha |-> comparison.parentNodeSha]
        ELSE [anchorNodeSha |-> comparison.anchorNodeSha,
              goalDigest |-> comparison.goalDigest]

\* The first decision on proposal q, of the decisions on it.
DispositionActivity(q, ids) ==
    LET on == {x \in dispositions : x.proposal = q} IN
    IF on = {} THEN [type |-> "pending"]
    ELSE LET x == CHOOSE y \in on : TRUE IN
         [type |-> x.status, decisionId |-> x.id,
          decisionEventId |-> ids[<<"proposal decision", x.id>>]] ++
         IF x.status = "confirmed"
         THEN [childRegistrationEventId |-> ids[<<"coaching child", q>>],
               childNodeSha |-> x.child]
         ELSE <<>>

CoachingActivity(q, ids) ==
    LET proposal == ProposalValue(q) IN
    [id |-> q, eventId |-> ids[<<"proposal", q>>],
     sourceNodeSha |-> proposal.sourceNodeSha,
     sourcePayloadDigest |-> proposal.sourcePayloadDigest,
     sourcePlanDigest |-> proposal.sourcePlanDigest,
     proposedPlanDigest |-> proposal.proposedPlanDigest,
     summary |-> proposal.summary, rationale |-> proposal.rationale,
     disposition |-> DispositionActivity(q, ids)]

ReviewActivity(w, ids) ==
    [id |-> w.id, eventId |-> ids[<<"review", w.id>>],
     targetType |-> w.target.kind, targetId |-> w.target.of]

-----------------------------------------------------------------------------
(* What the decoders accept *)

DecodesActiveRun(v) ==
    /\ Exact(v, {"id", "sourceNodeSha", "goalDigest"})
    /\ v.id \in RunId /\ v.sourceNodeSha \in Sha /\ IsDigest("goal", v.goalDigest)

\* decodeRunOutcome
DecodesOutcome(v) ==
    \/ v.type \in {"running", "failed", "canceled"} /\ Exact(v, {"type"})
    \/ v \in [type : {"completed"}, nodeSha : Sha]

DecodesRunActivity(v) ==
    /\ Exact(v, {"id", "sourceNodeSha", "goalDigest", "runnerDigest", "branch",
                 "checkpoints", "evidenceIds", "outcome"})
    /\ DecodesActiveRun([id |-> v.id, sourceNodeSha |-> v.sourceNodeSha,
                         goalDigest |-> v.goalDigest])
    /\ \A k \in v.checkpoints :
         /\ Exact(k, {"id", "location"}) /\ k.id \in CheckpointId
         /\ \/ k.location = [type |-> "observation"]
            \/ k.location \in [type : {"commit"}, commitSha : Sha]
    /\ \A k, l \in v.checkpoints : k.id = l.id => k = l
    /\ v.evidenceIds \subseteq EvidenceId
    /\ DecodesOutcome(v.outcome)

DecodesEvidenceActivity(v) ==
    /\ Exact(v, {"id", "runId", "goalDigest", "kind", "target", "location"})
    /\ v.id \in EvidenceId /\ v.runId \in RunId /\ IsDigest("goal", v.goalDigest)
    /\ v.kind \in {"diff", "check", "screenshot", "report", "note"}
    /\ \/ v.target = [type |-> "run"]
       \/ v.target \in [type : {"criterion"}, criterion : Criterion]
    /\ DecodesLocation(v.location)

DecodesDecisionActivity(v) ==
    /\ Exact(v, {"id", "eventId", "type", "comparisonId", "nodeShas"})
    /\ v.id \in DecisionId /\ v.comparisonId \in ComparisonId
    /\ v.type \in {"selection", "rejection"}
    /\ Range(v.nodeShas) \subseteq Sha /\ IsInjective(v.nodeShas)
    /\ v.nodeShas # <<>> /\ (v.type = "selection" => Len(v.nodeShas) = 1)

\* decodeComparison: no decision of another comparison or on other Nodes, and
\* none twice.
DecodesDecided(decided, v) ==
    /\ decided # {}
    /\ \A d \in decided :
         /\ DecodesDecisionActivity(d)
         /\ d.eventId # v.eventId /\ d.comparisonId = v.id
         /\ Range(d.nodeShas) \subseteq Range(v.nodeShas)
    /\ \A d, e \in decided : d.id = e.id \/ d.eventId = e.eventId => d = e

DecodesComparisonActivity(v) ==
    /\ v.type \in {"sibling_runs", "coached_how_experiment"}
    /\ Exact(v, {"type", "id", "eventId", "nodeShas", "summary", "disposition"}
                \cup IF v.type = "sibling_runs" THEN {"parentNodeSha"}
                     ELSE {"anchorNodeSha", "goalDigest"})
    /\ v.id \in ComparisonId /\ Range(v.nodeShas) \subseteq Sha
    /\ Len(v.nodeShas) >= 2 /\ IsInjective(v.nodeShas)
    /\ \/ v.disposition = [type |-> "undecided"]
       \/ /\ Exact(v.disposition, {"type", "decisions"})
          /\ v.disposition.type = "decisions_recorded"
          /\ DecodesDecided(v.disposition.decisions, v)
    /\ AnchorOf(v) \in Sha
    /\ v.type = "coached_how_experiment" => IsDigest("goal", v.goalDigest)

\* decodeCoaching: the events of a proposal's life are distinct.
DecodesDisposition(v, eventId) ==
    /\ v.type \in {"pending", "confirmed", "rejected"}
    /\ Exact(v, CASE v.type = "pending" -> {"type"}
                  [] v.type = "rejected" ->
                       {"type", "decisionId", "decisionEventId"}
                  [] v.type = "confirmed" ->
                       {"type", "decisionId", "decisionEventId",
                        "childRegistrationEventId", "childNodeSha"})
    /\ v.type # "pending" =>
         v.decisionId \in DecisionId /\ v.decisionEventId # eventId
    /\ v.type = "confirmed" =>
         /\ v.childNodeSha \in Sha
         /\ v.childRegistrationEventId \notin {eventId, v.decisionEventId}

DecodesCoachingActivity(v) ==
    /\ Exact(v, {"id", "eventId", "sourceNodeSha", "sourcePayloadDigest",
                 "sourcePlanDigest", "proposedPlanDigest", "summary",
                 "rationale", "disposition"})
    /\ v.id \in ProposalId /\ v.sourceNodeSha \in Sha
    /\ IsDigest("payload", v.sourcePayloadDigest)
    /\ IsDigest("plan", v.sourcePlanDigest)
    /\ IsDigest("plan", v.proposedPlanDigest)
    /\ DecodesDisposition(v.disposition, v.eventId)

DecodesReviewActivity(v) ==
    /\ Exact(v, {"id", "eventId", "targetType", "targetId"})
    /\ v.id \in ReviewId /\ v.targetType \in {"node", "run", "comparison"}

\* decodeRunActivityShard: the evidence and the reviews of this Run only.
DecodesRunShard(run, items, reviewed) ==
    /\ DecodesRunActivity(run)
    /\ \A e \in items :
         /\ DecodesEvidenceActivity(e)
         /\ e.runId = run.id /\ e.goalDigest = run.goalDigest
    /\ {e.id : e \in items} = run.evidenceIds
    /\ \A w \in reviewed :
         /\ DecodesReviewActivity(w)
         /\ w.targetType = "run" /\ w.targetId = run.id

-----------------------------------------------------------------------------
(* Properties *)

EvidenceActivities(r) == {EvidenceActivity(e) : e \in {x \in evidence : x.run = r}}

RunReviews(p, r, ids) ==
    {ReviewActivity(w, ids) :
       w \in {x \in reviews : /\ x.project = p /\ x.target.kind = "run"
                              /\ x.target.of = r}}

\* Every entry that the materializer writes is one that its decoder accepts,
\* and it finds the event that recorded it, exactly one.
RecordsAreReadable(p, log) ==
    LET ids == EventIds(log) IN
    /\ RecordedOnce(log) /\ AllRecorded(p, log)
    /\ \A r \in ProjectRuns(p) :
         DecodesRunShard(RunActivity(r), EvidenceActivities(r),
                         RunReviews(p, r, ids))
    /\ \A d \in DecisionRows(p) : DecodesDecisionActivity(DecisionActivity(d, ids))
    /\ \A c \in {x \in comparisons : x.project = p} :
         DecodesComparisonActivity(ComparisonActivity(c, ids))
    /\ \A q \in ProjectProposals(p) :
         DecodesCoachingActivity(CoachingActivity(q, ids))
    /\ \A w \in {x \in reviews : x.project = p} :
         DecodesReviewActivity(ReviewActivity(w, ids))
=============================================================================
