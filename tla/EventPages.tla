----------------------------- MODULE EventPages -----------------------------
(***************************************************************************)
(* The event list of a Project as apps/api materializes it, in shards of   *)
(* the log from the oldest event on, and as #readEvents shows it: newest   *)
(* first, filtered, from at most a few shards for one request.             *)
(***************************************************************************)
EXTENDS ActivityPages, DomainEvents

CONSTANTS EVENT_INDEX_SHARD_SIZE, MAX_EVENT_SHARDS_PER_PAGE

ASSUME NoneIsNoCursor == None \notin Nat

ASSUME EventBoundsArePositive ==
    /\ EVENT_INDEX_SHARD_SIZE \in Nat \ {0}
    /\ MAX_EVENT_SHARDS_PER_PAGE \in Nat \ {0}

-----------------------------------------------------------------------------
(* Materialization *)

\* runReference.
RunReference(run) ==
    [kind |-> "run", runId |-> run.id, sourceNodeSha |-> run.sourceNodeSha,
     target |-> IF run.status = "completed"
                THEN [kind |-> "registered", nodeSha |-> run.resultNodeSha]
                ELSE [kind |-> "pending"]]

\* runReferenceById: the Run as it is by now.
RunReferenceById(r) ==
    IF runs[r] # None THEN RunReference(RunValue(r)) ELSE [kind |-> "project"]

NodeReference(s) == [kind |-> "node", nodeSha |-> s]

AnchorOf(c) ==
    IF c.type = "sibling_runs" THEN c.parentNodeSha ELSE c.anchorNodeSha

\* What a review's event refers to: of a comparison, its anchor.
ReviewReference(target) ==
    CASE target.type = "node" -> NodeReference(target.nodeSha)
      [] target.type = "run" -> RunReferenceById(target.runId)
      [] target.type = "comparison" ->
           LET reviewed == {c \in comparisons : c.id = target.comparisonId} IN
           IF reviewed = {} THEN [kind |-> "project"]
           ELSE NodeReference((CHOOSE c \in reviewed : TRUE).anchor)

\* eventReference: RunStarted alone carries the Run as it was.
Reference(e) ==
    CASE e.type = "ProjectCreated" -> [kind |-> "project"]
      [] e.type \in {"RootNodeRegistered", "RunChildNodeRegistered",
                     "CoachingChildNodeRegistered"} ->
           NodeReference(e.node.commitSha)
      [] e.type = "RunStarted" -> RunReference(e.run)
      [] e.type = "RunCheckpointed" -> RunReferenceById(e.checkpoint.runId)
      [] e.type = "RunEvidenceAttached" -> RunReferenceById(e.evidence.runId)
      [] e.type = "RunCompleted" -> RunReferenceById(e.result.runId)
      [] e.type \in {"RunFailed", "RunCanceled"} -> RunReferenceById(e.runId)
      [] e.type = "CoachReviewRecorded" -> ReviewReference(e.review.target)
      [] e.type = "CoachingProposalRecorded" ->
           NodeReference(e.proposal.sourceNodeSha)
      [] e.type = "CoachingProposalConfirmed" ->
           NodeReference(e.decision.childNodeSha)
      [] e.type = "CoachingProposalRejected" ->
           IF proposals[e.decision.proposalId] = None THEN [kind |-> "project"]
           ELSE NodeReference(proposals[e.decision.proposalId].source)
      [] e.type = "AlternativesCompared" ->
           NodeReference(AnchorOf(e.comparison))
      [] e.type = "AlternativeSelected" ->
           NodeReference(e.decision.selectedNodeSha)
      [] e.type = "AlternativesRejected" ->
           NodeReference(e.decision.rejectedNodeShas[1])

\* actorProjection
ActorShown(actor) ==
    IF actor.type = "system" THEN [id |-> "system", label |-> "System"]
    ELSE [id |-> actor.id, label |-> actor.type]

\* The events of shard number i, counted from 0, by their sequence numbers.
Shard(count, i) ==
    LET start == i * EVENT_INDEX_SHARD_SIZE + 1 IN
    {n \in start..(start + EVENT_INDEX_SHARD_SIZE - 1) : n <= count}

-----------------------------------------------------------------------------
(* #readEvents *)

\* The numbers of the shards read below a cursor, from the newest on.
ShardsBelow(cursor) ==
    LET newest == (cursor - 2) \div EVENT_INDEX_SHARD_SIZE IN
    {i \in 0..newest : i > newest - MAX_EVENT_SHARDS_PER_PAGE}

\* Mutant of NextCursor: the list ends with a page that is not full.
NextCursorOfFullPage(last, shown, limit) ==
    IF last > 1 /\ Cardinality(shown) = limit THEN last ELSE None

\* The next request goes on below the last event looked at, a match or not.
NextCursor(last, shown, limit) == IF last > 1 THEN last ELSE None

\* eventReferencesNode
ReferencesNode(reference, s) ==
    CASE reference.kind = "project" -> FALSE
      [] reference.kind = "node" -> reference.nodeSha = s
      [] reference.kind = "run" ->
           \/ reference.sourceNodeSha = s
           \/ reference.target = [kind |-> "registered", nodeSha |-> s]

\* The events of the log that match the filter: those about Node s, or all.
Matching(log, s) ==
    {n \in DOMAIN log : s = None \/ ReferencesNode(Reference(log[n]), s)}

\* scanReverseEventShards: newest first, until `limit` matches are found or the
\* shards end.
EventScan(count, matching, cursor, limit) ==
    LET read == UNION {Shard(count, i) : i \in ShardsBelow(cursor)}
        window == {n \in read : n < cursor}
        hits == window \cap matching
        last == CHOOSE n \in window :
                  \/ n \in hits /\ Cardinality({h \in hits : h >= n}) = limit
                  \/ Cardinality(hits) < limit /\ \A w \in window : n <= w
        shown == {n \in hits : n >= last}
    IN  [shown |-> shown, next |-> NextCursor(last, shown, limit)]

\* What the pages show to a client that follows the cursors from the newest
\* event on, page by page.
EventWalk(count, matching, limit) ==
    LET from[cursor \in 2..(count + 1)] ==
          LET page == EventScan(count, matching, cursor, limit) IN
          IF page.next = None THEN <<page.shown>>
          ELSE <<page.shown>> \o from[page.next]
    IN  from[count + 1]

-----------------------------------------------------------------------------
(* Properties *)

\* A client that follows the cursors of a filtered event list is shown every
\* event that matches exactly once, newest first and no more than it asked for
\* at a time, however many empty pages lie between two matches.
EventWalkFindsAll ==
    \A p \in {q \in Project : rootSha[q] # None} :
        LET log == LogOf(p) IN
        \A s \in {None} \cup {n.sha : n \in nodes} :
            LET matching == Matching(log, s) IN
            \A limit \in {1, EVENT_INDEX_SHARD_SIZE} :
                LET walk == EventWalk(Len(log), matching, limit) IN
                /\ UNION {walk[k] : k \in DOMAIN walk} = matching
                /\ \A k \in DOMAIN walk : Cardinality(walk[k]) <= limit
                /\ \A j, k \in DOMAIN walk : j < k =>
                     \A a \in walk[j], b \in walk[k] : a > b
=============================================================================
