---------------------------- MODULE ProjectReplay ---------------------------
(***************************************************************************)
(* What replaying an event log accepts: applyDomainEvent for every event   *)
(* type, and the command batches validateDomainEventBatches lets through.  *)
(* Three event types open a pair that must be complete; the second event   *)
(* of a pair is validated on the state the first one left, so its          *)
(* validator reads the primed variable the first event assigned.           *)
(*                                                                         *)
(* This is the specification of the log: whatever the decider writes must  *)
(* be a behaviour of it, or the Project can never be reconstructed.        *)
(* What replay accepts of the metadata of the events is in EventReplay.    *)
(***************************************************************************)
EXTENDS ProjectState

\* ProjectCreated, then RootNodeRegistered.
ProjectCreatedBatch(actor, p, n) ==
    /\ actor = "user"
    /\ rootSha[p] = None
    /\ rootSha' = [rootSha EXCEPT ![p] = n.sha]
    /\ n.kind = "root" /\ rootSha'[n.project] = n.sha
    /\ NewNodeValid(rootSha', n)
    /\ nodes' = nodes \cup {n}
    /\ UNCHANGED <<runs, checkpoints, evidence, reviews, proposals,
                   dispositions, comparisons, decisions>>

\* ProjectMaterializationsRebuilt changes no domain state.
MaterializationsRebuilt(actor, p) ==
    /\ actor = "user" /\ rootSha[p] # None
    /\ UNCHANGED vars

\* RunStarted: validateRunningRunEvent.
RunStarted(r, run) ==
    /\ runs[r] = None
    /\ run \in Run /\ run.status = "running" /\ run.result = None
    /\ HasNode(run.project, run.source)
    /\ ~IsRejected(run.project, run.source)
    /\ LET plan == NodeAt(run.project, run.source).plan
       IN  run.goal \in plan.goals /\ run.how = plan.how
    /\ runs' = [runs EXCEPT ![r] = run]
    /\ UNCHANGED <<rootSha, nodes, checkpoints, evidence, reviews, proposals,
                   dispositions, comparisons, decisions>>

RunCheckpointed(k, r) ==
    /\ IsRunning(r)
    /\ \A x \in checkpoints : x.id # k
    /\ checkpoints' = checkpoints \cup {[id |-> k, run |-> r]}
    /\ UNCHANGED <<rootSha, nodes, runs, evidence, reviews, proposals,
                   dispositions, comparisons, decisions>>

RunEvidenceAttached(e, r, target) ==
    /\ \A x \in evidence : x.id # e
    /\ IsRunning(r)
    /\ target # None => target \in CriteriaOf[runs[r].goal]
    /\ evidence' = evidence \cup {[id |-> e, run |-> r, criterion |-> target]}
    /\ UNCHANGED <<rootSha, nodes, runs, checkpoints, reviews, proposals,
                   dispositions, comparisons, decisions>>

\* RunCompleted, then RunChildNodeRegistered against the completed Run.
RunCompletedBatch(r, s, n) ==
    /\ ResultValid(r, s)
    /\ runs' = [runs EXCEPT ![r] = [@ EXCEPT !.status = "completed",
                                             !.result = s]]
    /\ runs'[r].status = "completed"
    /\ RunChildValid(r, runs'[r], n)
    /\ nodes' = nodes \cup {n}
    /\ UNCHANGED <<rootSha, checkpoints, evidence, reviews, proposals,
                   dispositions, comparisons, decisions>>

\* RunFailed and RunCanceled.
RunEnded(r, status) ==
    /\ IsRunning(r)
    /\ runs' = [runs EXCEPT ![r] = [@ EXCEPT !.status = status]]
    /\ UNCHANGED <<rootSha, nodes, checkpoints, evidence, reviews, proposals,
                   dispositions, comparisons, decisions>>

\* CoachReviewRecorded: the target exists and belongs to the Project.
ReviewRecorded(actor, w, p, target) ==
    /\ actor = "coach"
    /\ \A x \in reviews : x.id # w
    /\ rootSha[p] # None
    /\ \/ target.kind = "node" /\ HasNode(p, target.of)
       \/ /\ target.kind = "run" /\ target.of \in RunId
          /\ runs[target.of] # None /\ runs[target.of].project = p
       \/ /\ target.kind = "comparison"
          /\ \E c \in comparisons : c.id = target.of /\ c.project = p
    /\ reviews' = reviews \cup {[id |-> w, project |-> p, target |-> target]}
    /\ UNCHANGED <<rootSha, nodes, runs, checkpoints, evidence, proposals,
                   dispositions, comparisons, decisions>>

ProposalRecorded(actor, q, proposal) ==
    /\ actor = "coach"
    /\ proposals[q] = None /\ proposal \in Proposal
    /\ ProposalValid(proposal.project, proposal.source, proposal.plan)
    /\ proposals' = [proposals EXCEPT ![q] = proposal]
    /\ UNCHANGED <<rootSha, nodes, runs, checkpoints, evidence, reviews,
                   dispositions, comparisons, decisions>>

\* CoachingProposalConfirmed, then CoachingChildNodeRegistered against the
\* disposition just recorded (validateCoachingChildEvent).
ProposalConfirmedBatch(actor, q, d, child, n) ==
    /\ actor = "user"
    /\ ConfirmableProposal(q)
    /\ FreshDecisionId(d)
    /\ dispositions' = dispositions \cup
         {[id |-> d, proposal |-> q, status |-> "confirmed", child |-> child]}
    /\ \A x \in dispositions' :
         x.proposal = n.origin => x.status = "confirmed" /\ x.child = n.sha
    /\ CoachingChildValid(q, n)
    /\ nodes' = nodes \cup {n}
    /\ UNCHANGED <<rootSha, runs, checkpoints, evidence, reviews, proposals,
                   comparisons, decisions>>

ProposalRejected(actor, q, d) ==
    /\ actor = "user"
    /\ OpenProposal(q)
    /\ FreshDecisionId(d)
    /\ dispositions' = dispositions \cup
         {[id |-> d, proposal |-> q, status |-> "rejected", child |-> None]}
    /\ UNCHANGED <<rootSha, nodes, runs, checkpoints, evidence, reviews,
                   proposals, comparisons, decisions>>

\* AlternativesCompared: validateComparison, whose kind-specific part checks
\* the parent, or the anchor and the Goal, that the event declares.
AlternativesCompared(c) ==
    /\ FreshComparisonId(c.id)
    /\ CandidatesValid(c.project, c.nodes)
    /\ \/ /\ c.kind = "sibling_runs"
          /\ \A s \in c.nodes : NodeAt(c.project, s).parent = c.anchor
       \/ /\ c.kind = "coached_how_experiment"
          /\ ExperimentValid(c.project, c.anchor, c.goal, c.nodes)
    /\ OverlapValid(c)
    /\ comparisons' = comparisons \cup {c}
    /\ UNCHANGED <<rootSha, nodes, runs, checkpoints, evidence, reviews,
                   proposals, dispositions, decisions>>

\* AlternativeSelected and AlternativesRejected.
AlternativeDecided(actor, d) ==
    /\ actor = "user"
    /\ \/ d.kind = "selection" /\ SelectionValid(d)
       \/ d.kind = "rejection" /\ RejectionValid(d)
    /\ decisions' = decisions \cup {d}
    /\ UNCHANGED <<rootSha, nodes, runs, checkpoints, evidence, reviews,
                   proposals, dispositions, comparisons>>

-----------------------------------------------------------------------------
(* One step replays one complete command batch: the events that a step of  *)
(* the decider recorded are read off the records it added.                 *)

ProjectEvent(actor, p) ==
    \/ \E n \in nodes' \ nodes : ProjectCreatedBatch(actor, p, n)
    \/ MaterializationsRebuilt(actor, p)
    \/ \E x \in reviews' \ reviews : ReviewRecorded(actor, x.id, p, x.target)

RunEvent(r) ==
    \/ RunStarted(r, runs'[r])
    \/ \E x \in checkpoints' \ checkpoints : RunCheckpointed(x.id, r)
    \/ \E x \in evidence' \ evidence : RunEvidenceAttached(x.id, r, x.criterion)
    \/ \E s \in Sha, n \in nodes' \ nodes : RunCompletedBatch(r, s, n)
    \/ \E status \in {"failed", "canceled"} : RunEnded(r, status)

CoachingEvent(actor, q) ==
    \/ ProposalRecorded(actor, q, proposals'[q])
    \/ \E x \in dispositions' \ dispositions :
         \/ \E n \in nodes' \ nodes :
              ProposalConfirmedBatch(actor, q, x.id, x.child, n)
         \/ ProposalRejected(actor, q, x.id)

AlternativesEvent(actor) ==
    \/ \E c \in comparisons' \ comparisons : AlternativesCompared(c)
    \/ \E d \in decisions' \ decisions : AlternativeDecided(actor, d)

Next ==
    \/ \E r \in RunId : RunEvent(r)
    \/ \E actor \in Actor :
        \/ \E p \in Project : ProjectEvent(actor, p)
        \/ \E q \in ProposalId : CoachingEvent(actor, q)
        \/ AlternativesEvent(actor)

Spec == Init /\ [][Next]_vars
=============================================================================
