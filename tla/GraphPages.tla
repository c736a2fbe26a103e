----------------------------- MODULE GraphPages -----------------------------
(***************************************************************************)
(* The graph of a Project as apps/api materializes it beside the log, and  *)
(* as its readers take it apart again: pages of Nodes with the edges that  *)
(* reach them, a shard for every single Node, and a manifest that commits  *)
(* to both (sharded-read-models.ts, #loadGraphWindow and #readGraph).      *)
(*                                                                         *)
(* A reader refuses whatever fails one of its checks, so a Project whose   *)
(* own materialization failed one could be written to but never be read.   *)
(* Checkpoints are left out: all that is read here is of one head.         *)
(***************************************************************************)
EXTENDS ProjectState, PageCommitments, SequencesExt

CONSTANTS
    Before(_, _),       \* of two records of a kind: which is sorted first
    GRAPH_PAGE_SIZE

ASSUME GraphPageSizeIsPositive == GRAPH_PAGE_SIZE \in Nat \ {0}

\* The sequence s itself; written like this, TLC computes its elements once.
Computed(s) == SubSeq(s, 1, Len(s))

\* The records of S in the order of the writer: Nodes as they were registered,
\* activity by its time and, of one time, by its id as localeCompare has it
\* (compareRunActivity and its like).
InOrder(S) ==
    Computed([i \in 1..Cardinality(S) |->
       CHOOSE x \in S : Cardinality({y \in S : Before(y, x)}) = i - 1])

Pages(n, size) == (n + size - 1) \div size

\* The entries of page i, counted from 0.
PageOf(s, i, size) ==
    SubSeq(s, i * size + 1, IF (i + 1) * size < Len(s) THEN (i + 1) * size
                            ELSE Len(s))

SumOf(s) ==
    LET sum[i \in 0..Len(s)] == IF i = 0 THEN 0 ELSE sum[i - 1] + s[i]
    IN  sum[Len(s)]

-----------------------------------------------------------------------------
(* Materialization *)

NodeStatus(p, n) ==
    IF IsRejected(p, n.sha) THEN "rejected"
    ELSE IF IsSelected(p, n.sha) THEN "selected"
    ELSE IF n.kind = "root" /\ \A m \in nodes : m.project = p => m = n
    THEN "current" ELSE "available"

\* Mutant of GraphEdges: the child of a proposal has its edge from the start.
GraphEdgesOfRuns(p) ==
    {[kind |-> n.kind, source |-> n.parent, target |-> n.sha,
      origin |-> n.origin] :
       n \in {m \in nodes : m.project = p /\ m.kind = "run_child"}}

\* An edge into every Node whose Run completed or whose proposal is confirmed.
GraphEdges(p) ==
    {[kind |-> n.kind, source |-> n.parent, target |-> n.sha,
      origin |-> n.origin] :
       n \in {m \in nodes :
                /\ m.project = p
                /\ \/ /\ m.kind = "run_child"
                      /\ runs[m.origin] # None
                      /\ runs[m.origin].project = p
                      /\ runs[m.origin].status = "completed"
                   \/ /\ m.kind = "coaching_child"
                      /\ proposals[m.origin] # None
                      /\ proposals[m.origin].project = p
                      /\ \E x \in dispositions :
                           x.proposal = m.origin /\ x.status = "confirmed"}}

ActiveRuns(p) == {r \in RunId : IsRunning(r) /\ runs[r].project = p}

\* graphNodeTopologyIdentity.
Identity(n) == [kind |-> n.kind, sha |-> n.sha, ordinal |-> n.ordinal,
                parentOrdinal |-> n.parentOrdinal, parent |-> n.parent,
                origin |-> n.origin]

IdentityLeaves(pageNodes) ==
    [i \in DOMAIN pageNodes |-> LeafDigest(Identity(pageNodes[i]))]

\* What the pages are cut from: the Nodes with their place in the order of
\* registration (graphNode), the edges, the active Runs, and the leaves of the
\* commitment of every page.
Graph(p) ==
    LET order == InOrder({n \in nodes : n.project = p})
        place(s) == (CHOOSE i \in DOMAIN order : order[i].sha = s) - 1
        gnodes == Computed([i \in DOMAIN order |->
          LET n == order[i] IN
          [sha |-> n.sha, kind |-> n.kind, parent |-> n.parent,
           origin |-> n.origin, ordinal |-> i - 1,
           parentOrdinal |-> IF n.kind = "root" THEN None ELSE place(n.parent),
           status |-> NodeStatus(p, n)]])
    IN  [root |-> rootSha[p], nodes |-> gnodes, edges |-> GraphEdges(p),
         activeRuns |-> ActiveRuns(p),
         leaves |-> Computed(
           [k \in 1..Pages(Len(order), GRAPH_PAGE_SIZE) |->
              IdentityLeaves(PageOf(gnodes, k - 1, GRAPH_PAGE_SIZE))])]

\* materializeGraph: otherwise the command that changed the state is refused.
Materializable(graph) ==
    \A i \in DOMAIN graph.nodes :
        LET n == graph.nodes[i] IN
        n.parentOrdinal # None => n.parentOrdinal < n.ordinal

\* The membership proof of the Node with this ordinal.
IdentityProof(graph, ordinal) ==
    LET page == ordinal \div GRAPH_PAGE_SIZE
        leaf == ordinal % GRAPH_PAGE_SIZE
    IN  [page |-> page, leaf |-> leaf,
         identity |-> Identity(graph.nodes[ordinal + 1]),
         siblings |-> ProofOf(graph.leaves[page + 1], leaf)]

GraphPage(graph, i) ==
    LET mine == PageOf(graph.nodes, i, GRAPH_PAGE_SIZE)
        targets == {mine[k].sha : k \in DOMAIN mine}
    IN  [index |-> i, nodes |-> mine,
         externalParents |->
           {IdentityProof(graph, mine[k].parentOrdinal) :
              k \in {j \in DOMAIN mine :
                       /\ mine[j].parentOrdinal # None
                       /\ mine[j].parentOrdinal < i * GRAPH_PAGE_SIZE}},
         edges |-> {e \in graph.edges : e.target \in targets},
         activeRuns |-> {r \in graph.activeRuns : runs[r].source \in targets}]

GraphManifest(graph) ==
    [root |-> graph.root, nodeCount |-> Len(graph.nodes),
     edgeCount |-> Cardinality(graph.edges),
     pages |-> [k \in DOMAIN graph.leaves |->
        LET page == GraphPage(graph, k - 1) IN
        [nodeCount |-> Len(page.nodes), edgeCount |-> Cardinality(page.edges),
         identityRoot |-> RootOf(graph.leaves[k])]]]

\* The shard of one Node; parentProof holds one proof, that of the root none.
GraphNodeShard(graph, n) ==
    LET out == {e \in graph.edges : e.source = n.sha}
        targets == {m \in {graph.nodes[i] : i \in DOMAIN graph.nodes} :
                      \E e \in out : e.target = m.sha}
    IN  [node |-> n, nodeProof |-> IdentityProof(graph, n.ordinal),
         parentProof |-> {IdentityProof(graph, ordinal) :
                            ordinal \in {n.parentOrdinal} \ {None}},
         outgoingEdges |-> out,
         outgoingTargetProofs |->
           {IdentityProof(graph, m.ordinal) : m \in targets},
         activeRuns |-> {r \in graph.activeRuns : runs[r].source = n.sha}]

-----------------------------------------------------------------------------
(* What the readers check *)

\* validateGraphTopologyIdentity, less the managed ref.
IdentityValid(d) ==
    /\ d.kind = "root" <=> d.parentOrdinal = None
    /\ d.kind = "root" => d.ordinal = 0
    /\ d.parentOrdinal # None => d.parentOrdinal < d.ordinal

\* verifyGraphNodeIdentityProof.
IdentityProven(manifest, proof) ==
    /\ IdentityValid(proof.identity)
    /\ proof.page < Len(manifest.pages)
    /\ LET descriptor == manifest.pages[proof.page + 1] IN
       /\ proof.leaf < descriptor.nodeCount
       /\ proof.identity.ordinal = proof.page * GRAPH_PAGE_SIZE + proof.leaf
       /\ ProofHolds(LeafDigest(proof.identity), proof.leaf,
                     descriptor.nodeCount, proof.siblings,
                     descriptor.identityRoot)

\* decodeGraphManifest.
ManifestDecodes(manifest) ==
    LET count(k) == manifest.pages[k].nodeCount
        last == Len(manifest.pages)
    IN
    /\ manifest.nodeCount > 0
    /\ last = Pages(manifest.nodeCount, GRAPH_PAGE_SIZE)
    /\ \A k \in 1..(last - 1) : count(k) = GRAPH_PAGE_SIZE
    /\ count(last) = manifest.nodeCount - (last - 1) * GRAPH_PAGE_SIZE
    /\ SumOf([k \in 1..last |-> manifest.pages[k].edgeCount])
         = manifest.edgeCount
    /\ manifest.edgeCount = manifest.nodeCount - 1

\* validateGraphPage.
PageDecodes(page) ==
    LET mine == {page.nodes[k] : k \in DOMAIN page.nodes}
        first == page.index * GRAPH_PAGE_SIZE
        external == {n \in mine : n.parentOrdinal # None
                                  /\ n.parentOrdinal < first}
    IN
    /\ Len(page.nodes) \in 1..GRAPH_PAGE_SIZE
    /\ \A k \in DOMAIN page.nodes : page.nodes[k].ordinal = first + k - 1
    /\ \A n, m \in mine : n.sha = m.sha => n = m
    /\ \A n \in mine : IdentityValid(Identity(n))
    /\ \A e, f \in page.edges : e.target = f.target => e = f
    /\ \A e \in page.edges :
         e.source # e.target /\ \E n \in mine : n.sha = e.target
    /\ \A n \in mine :
         IF n.kind = "root" THEN \A e \in page.edges : e.target # n.sha
         ELSE /\ \E e \in page.edges :
                   /\ e.target = n.sha /\ e.source = n.parent
                   /\ e.kind = n.kind /\ e.origin = n.origin
              /\ \A m \in mine : m.ordinal = n.parentOrdinal => m.sha = n.parent
              /\ n \in external =>
                   \E proof \in page.externalParents :
                     /\ proof.identity.ordinal = n.parentOrdinal
                     /\ proof.identity.sha = n.parent
    /\ {proof.identity.ordinal : proof \in page.externalParents}
         = {n.parentOrdinal : n \in external}
    /\ \A r \in page.activeRuns : \E n \in mine : n.sha = runs[r].source

\* validateGraphPageTopology.
PageMatches(manifest, page) ==
    /\ PageDecodes(page)
    /\ page.index < Len(manifest.pages)
    /\ LET descriptor == manifest.pages[page.index + 1] IN
       /\ descriptor.nodeCount = Len(page.nodes)
       /\ descriptor.edgeCount = Cardinality(page.edges)
       /\ descriptor.identityRoot = RootOf(IdentityLeaves(page.nodes))
    /\ \A proof \in page.externalParents : IdentityProven(manifest, proof)
    /\ page.index = 0 => page.nodes[1].sha = manifest.root

\* validateGraphNodeShardShape.
ShardDecodes(shard) ==
    LET n == shard.node IN
    /\ IdentityValid(Identity(n)) /\ Identity(n) = shard.nodeProof.identity
    /\ IF n.kind = "root" THEN shard.parentProof = {}
       ELSE \E proof \in shard.parentProof :
              /\ proof.identity.ordinal = n.parentOrdinal
              /\ proof.identity.sha = n.parent
    /\ \A e, f \in shard.outgoingEdges : e.target = f.target => e = f
    /\ Cardinality(shard.outgoingEdges)
         = Cardinality(shard.outgoingTargetProofs)
    /\ \A e \in shard.outgoingEdges :
         /\ e.source = n.sha /\ e.target # n.sha
         /\ \E proof \in shard.outgoingTargetProofs :
              LET target == proof.identity IN
              /\ target.sha = e.target
              /\ target.parentOrdinal = n.ordinal /\ target.parent = n.sha
              /\ target.kind = e.kind /\ target.origin = e.origin
    /\ \A r \in shard.activeRuns : runs[r].source = n.sha

\* validateGraphNodeTopology.
ShardMatches(manifest, shard) ==
    /\ ShardDecodes(shard)
    /\ IdentityProven(manifest, shard.nodeProof)
    /\ \A proof \in shard.parentProof \cup shard.outgoingTargetProofs :
         IdentityProven(manifest, proof)
    /\ shard.node.ordinal = 0 => shard.node.sha = manifest.root

\* #loadGraphWindow for one page: validateGraphPageNodeLocators on the shards
\* of its Nodes.
PageLoads(graph, manifest, i) ==
    LET page == GraphPage(graph, i) IN
    /\ PageMatches(manifest, page)
    /\ \A k \in DOMAIN page.nodes :
         LET shard == GraphNodeShard(graph, page.nodes[k]) IN
         ShardMatches(manifest, shard) /\ shard.node = page.nodes[k]

-----------------------------------------------------------------------------
(* #readGraph *)

\* Mutant of WindowEnd: a window may run past the page it is read from.
WindowEndAnywhere(count, offset, limit) ==
    IF offset + limit < count THEN offset + limit ELSE count

WindowEnd(count, offset, limit) ==
    LET page == (offset \div GRAPH_PAGE_SIZE + 1) * GRAPH_PAGE_SIZE IN
    CHOOSE e \in {count, offset + limit, page} :
        e <= count /\ e <= offset + limit /\ e <= page

\* The window at an offset: its Nodes with the edges and active Runs that are
\* stored with them, and the cursor that follows it.
GraphWindow(pages, count, offset, limit) ==
    LET page == pages[offset \div GRAPH_PAGE_SIZE + 1]
        end == WindowEnd(count, offset, limit)
        shown == FlattenSeq([k \in DOMAIN page.nodes |->
                   IF page.nodes[k].ordinal \in offset..(end - 1)
                   THEN <<page.nodes[k]>> ELSE <<>>])
        shas == {shown[k].sha : k \in DOMAIN shown}
    IN  [nodes |-> shown, edges |-> {e \in page.edges : e.target \in shas},
         activeRuns |-> {r \in page.activeRuns : runs[r].source \in shas},
         next |-> IF end < count THEN end ELSE None]

\* The windows a client sees that follows the cursors of one head.
GraphWalk(pages, count, limit) ==
    LET from[offset \in 0..count] ==
          LET window == GraphWindow(pages, count, offset, limit) IN
          IF window.next = None THEN <<window>>
          ELSE <<window>> \o from[window.next]
    IN  from[0]

-----------------------------------------------------------------------------
(* Properties *)

\* Every state a Project can reach is one its readers accept: the engine's
\* rules (parents first, every child with its completed Run or confirmed
\* proposal) are all that the fail-closed checks of the readers need.
GraphIsReadable ==
    \A p \in {q \in Project : rootSha[q] # None} :
        LET graph == Graph(p)
            manifest == GraphManifest(graph)
        IN  /\ Materializable(graph)
            /\ ManifestDecodes(manifest)
            /\ \A i \in 0..(Len(manifest.pages) - 1) :
                 PageLoads(graph, manifest, i)

\* Whatever the window size, a client that follows the cursors is shown every
\* Node once and in order, every active Run, and every edge with its target,
\* whose source it has already seen.
GraphWalkShowsAll ==
    \A p \in {q \in Project : rootSha[q] # None} :
        LET graph == Graph(p)
            pages == Computed([k \in DOMAIN graph.leaves |->
                                 GraphPage(graph, k - 1)])
        IN
        \A limit \in 1..GRAPH_PAGE_SIZE :
            LET walk == GraphWalk(pages, Len(graph.nodes), limit)
                shown(k) == {walk[k].nodes[j].sha : j \in DOMAIN walk[k].nodes}
            IN
            /\ FlattenSeq([k \in DOMAIN walk |-> walk[k].nodes]) = graph.nodes
            /\ UNION {walk[k].edges : k \in DOMAIN walk} = graph.edges
            /\ UNION {walk[k].activeRuns : k \in DOMAIN walk}
                 = graph.activeRuns
            /\ \A k \in DOMAIN walk : \A e \in walk[k].edges :
                 \E j \in 1..k : e.source \in shown(j)
=============================================================================
