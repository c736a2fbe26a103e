--------------------------- MODULE ActivityPages ----------------------------
(***************************************************************************)
(* The activity around each Node as apps/api materializes it: six kinds of *)
(* entries, each in pages under one commitment, and a record of its own    *)
(* for every entry that is looked up by id; with the checks of its readers *)
(* (sharded-read-models.ts) and the windows that #loadNodeActivityWindow   *)
(* shows.  What the entries hold is in ActivityRecords.                    *)
(***************************************************************************)
EXTENDS GraphPages

CONSTANTS
    Precedes(_, _),     \* of two entries: whose time and id come first, compared
                        \* as strings of code units (nodeActivityRecordedAt)
    NODE_ACTIVITY_PAGE_SIZE

ASSUME ActivityPageSizeIsPositive == NODE_ACTIVITY_PAGE_SIZE \in Nat \ {0}

ActivityKind ==
    {"runs", "evidence", "comparisons", "decisions", "coaching", "reviews"}
KeyedKind == {"comparisons", "coaching", "reviews"}

-----------------------------------------------------------------------------
(* Materialization *)

\* runActivity: a Run with its outcome.
RunRows(p) ==
    {[id |-> r, source |-> runs[r].source, outcome |-> runs[r].status,
      node |-> runs[r].result] :
       r \in {x \in RunId : runs[x] # None /\ runs[x].project = p}}

EvidenceRows(p) == {e \in evidence : runs[e.run].project = p}

\* projectDecisions.
DecisionRows(p) ==
    {d \in decisions : d.project = p
                       /\ \E c \in comparisons : c.project = p
                                                 /\ c.id = d.comparison}

ComparisonRows(p) ==
    {[id |-> c.id, anchor |-> c.anchor, nodes |-> c.nodes] :
       c \in {x \in comparisons : x.project = p}}

CoachingRows(p) ==
    {[id |-> q, source |-> proposals[q].source] :
       q \in {x \in ProposalId : proposals[x] # None
                                 /\ proposals[x].project = p}}

\* comparisonRelatesToNode.
Relates(c, s) == s \in c.nodes \/ c.anchor = s

\* A Run belongs to its source and to its result.
NodeRuns(p, s) ==
    {r \in RunRows(p) : \/ r.source = s
                        \/ r.outcome = "completed" /\ r.node = s}

\* materializeActivity: the entries of one Node.
NodeEntries(p, s) ==
    LET runIds == {r.id : r \in NodeRuns(p, s)}
        related == {c \in ComparisonRows(p) : Relates(c, s)}
        comparisonIds == {c.id : c \in related}
        of(kind) ==
          CASE kind = "runs" -> NodeRuns(p, s)
            [] kind = "evidence" -> {e \in EvidenceRows(p) : e.run \in runIds}
            [] kind = "comparisons" -> related
            [] kind = "decisions" ->
                 {d \in DecisionRows(p) :
                    s \in d.nodes \/ d.comparison \in comparisonIds}
            [] kind = "coaching" -> {q \in CoachingRows(p) : q.source = s}
            [] kind = "reviews" ->
                 {w \in {x \in reviews : x.project = p} :
                    \/ w.target.kind = "node" /\ w.target.of = s
                    \/ w.target.kind = "run" /\ w.target.of \in runIds
                    \/ /\ w.target.kind = "comparison"
                       /\ w.target.of \in comparisonIds}
    IN  [kind \in ActivityKind |-> InOrder(of(kind))]

ActivityPage(s, kind, entries, i) ==
    [node |-> s, kind |-> kind, index |-> i,
     entries |-> PageOf(entries, i, NODE_ACTIVITY_PAGE_SIZE)]

\* The leaves of the commitment of one kind, a leaf for every page.
PageLeaves(s, kind, entries) ==
    [k \in 1..Pages(Len(entries), NODE_ACTIVITY_PAGE_SIZE) |->
       LeafDigest(ActivityPage(s, kind, entries, k - 1))]

EmptyRoot(s, kind) == LeafDigest([node |-> s, kind |-> kind])

\* createNodeActivityCategoryCommitment, as the index holds it.
CategoryIndex(s, kind, entries) ==
    LET leaves == PageLeaves(s, kind, entries) IN
    [count |-> Len(entries), pageCount |-> Len(leaves),
     root |-> IF leaves = <<>> THEN EmptyRoot(s, kind) ELSE RootOf(leaves)]

\* The record of the j-th entry, with the place of the entry in its page.
RecordOf(entries, j) ==
    [value |-> entries[j], page |-> (j - 1) \div NODE_ACTIVITY_PAGE_SIZE,
     slot |-> (j - 1) % NODE_ACTIVITY_PAGE_SIZE]

-----------------------------------------------------------------------------
(* What the readers check *)

\* validateNodeActivityEntries.
EntriesValid(s, kind, entries) ==
    /\ \A i, j \in DOMAIN entries :
         i < j => entries[i].id # entries[j].id /\ Precedes(entries[i], entries[j])
    /\ \A i \in DOMAIN entries :
         LET x == entries[i] IN
         CASE kind = "runs" ->
                x.source = s \/ (x.outcome = "completed" /\ x.node = s)
           [] kind = "comparisons" -> Relates(x, s)
           [] kind = "coaching" -> x.source = s
           [] kind = "reviews" -> x.target.kind = "node" => x.target.of = s
           [] OTHER -> TRUE

\* decodeNodeActivityPage and validateNodeActivityPageCommitment.
ActivityPageLoads(category, page, siblings) ==
    LET size == NODE_ACTIVITY_PAGE_SIZE
        expected == IF page.index < category.pageCount - 1 THEN size
                    ELSE category.count - page.index * size
    IN
    /\ EntriesValid(page.node, page.kind, page.entries)
    /\ page.index < category.pageCount
    /\ Len(page.entries) = expected /\ expected \in 1..size
    /\ ProofHolds(LeafDigest(page), page.index, category.pageCount, siblings,
                  category.root)

\* decodeNodeActivityIndex, of one kind.
IndexDecodes(s, kind, category) ==
    /\ category.pageCount = Pages(category.count, NODE_ACTIVITY_PAGE_SIZE)
    /\ category.pageCount = 0 => category.root = EmptyRoot(s, kind)

\* #loadNodeActivityIndex and #loadNodeActivityPages.
CategoryLoads(s, kind, entries) ==
    LET category == CategoryIndex(s, kind, entries)
        leaves == PageLeaves(s, kind, entries)
    IN
    /\ IndexDecodes(s, kind, category)
    /\ \A i \in 0..(category.pageCount - 1) :
         ActivityPageLoads(category, ActivityPage(s, kind, entries, i),
                           ProofOf(leaves, i))

\* decodeNodeActivityRecord.
RecordDecodes(s, kind, record) ==
    /\ record.slot < NODE_ACTIVITY_PAGE_SIZE
    /\ EntriesValid(s, kind, <<record.value>>)

\* validateNodeActivityRecordMembership: the record is the entry in its slot of
\* the page, which was read as a page.
RecordIsMember(page, record) ==
    /\ record.page = page.index
    /\ record.slot + 1 \in DOMAIN page.entries
    /\ page.entries[record.slot + 1] = record.value

\* #loadNodeActivityRecord.
RecordLoads(s, kind, entries, j) ==
    LET record == RecordOf(entries, j) IN
    /\ RecordDecodes(s, kind, record)
    /\ record.page < Pages(Len(entries), NODE_ACTIVITY_PAGE_SIZE)
    /\ RecordIsMember(ActivityPage(s, kind, entries, record.page), record)

-----------------------------------------------------------------------------
(* #loadNodeActivityWindow *)

\* The page of the last entry that is shown.
LastPage(end) == (end - 1) \div NODE_ACTIVITY_PAGE_SIZE

ActivityWindow(entries, offset, limit) ==
    LET size == NODE_ACTIVITY_PAGE_SIZE
        end == IF offset + limit < Len(entries) THEN offset + limit
               ELSE Len(entries)
        first == offset \div size
        read == FlattenSeq([k \in 1..(LastPage(end) - first + 1) |->
                              PageOf(entries, first + k - 1, size)])
    IN  [entries |-> IF offset >= end THEN <<>>
                     ELSE SubSeq(read, offset - first * size + 1,
                                 IF end - first * size < Len(read)
                                 THEN end - first * size ELSE Len(read)),
         next |-> IF end < Len(entries) THEN end ELSE None]

ActivityWalk(entries, limit) ==
    LET from[offset \in 0..Len(entries)] ==
          LET window == ActivityWindow(entries, offset, limit) IN
          IF window.next = None THEN window.entries
          ELSE window.entries \o from[window.next]
    IN  from[0]

-----------------------------------------------------------------------------
(* Properties *)

\* The writer sorts by localeCompare, the reader compares code units: they may
\* differ of two entries of one time whose ids clients chose, "b" and "B" say.
SortedAlike(entries) ==
    \A i, j \in DOMAIN entries :
        Before(entries[i], entries[j]) => Precedes(entries[i], entries[j])

\* Every list of activity of every Node of a Project that the writer and the
\* reader sort alike can be read back, whatever was decided, coached and reviewed
\* in whatever order: an entry is related to the Nodes it is filed under, once
\* and in order, and is found in its page and by its id
\* (validateNodeActivityEntries, validateNodeActivityPageCommitment).
ActivityIsReadable ==
    \A n \in nodes :
        LET entries == NodeEntries(n.project, n.sha) IN
        \A kind \in {k \in ActivityKind : SortedAlike(entries[k])} :
            /\ CategoryLoads(n.sha, kind, entries[kind])
            /\ kind \in KeyedKind =>
                 \A j \in DOMAIN entries[kind] :
                     RecordLoads(n.sha, kind, entries[kind], j)

\* A client that follows the cursors of a list is shown all of it, in order,
\* although a window may begin and end inside a page.
ActivityWalkShowsAll ==
    \A n \in nodes :
        LET entries == NodeEntries(n.project, n.sha) IN
        \A kind \in ActivityKind, limit \in 1..NODE_ACTIVITY_PAGE_SIZE :
            ActivityWalk(entries[kind], limit) = entries[kind]
=============================================================================
