-------------------------- MODULE ReadModelsProofs --------------------------
(***************************************************************************)
(* Following the cursors of a filtered event list shows every event that   *)
(* matches, once and newest first; following those of a Project's graph,   *)
(* or of the activity of a Node, shows all of it in order; and no reader   *)
(* refuses the log, the graph or the activity that was written: for        *)
(* Projects and logs of any length, any filter and any bounds on shards,   *)
(* pages and requests.                                                     *)
(*                                                                         *)
(* That the log is a sequence, and that it can be read, is proved with the *)
(* engine in ProjectCoreProofs, as is what recursions define.              *)
(*                                                                         *)
(* For the event list the proof establishes what one request shows, then   *)
(* what those that follow it do.  For activity and graph: that the records *)
(* of a set, in order, are a sequence with each at its place; that         *)
(* adjacent parts of a sequence put together are a part of it; what one    *)
(* window shows; and that a walk is made of windows with nothing between   *)
(* them.  Of the graph, besides, that a Node is registered after its       *)
(* parent.                                                                 *)
(*                                                                         *)
(* For the readers: that a membership proof holds for the leaf that it was *)
(* made for and for no other; that the graph of a Project is a tree with   *)
(* every edge after its source, and such a tree passes every check; that   *)
(* ids are unique, so that the record of an entry is found; that what      *)
(* passes under the commitments of a graph is that graph; and that the     *)
(* event which is looked up for a record is there and says what it shows.  *)
(***************************************************************************)
EXTENDS ReadModels, ProjectCoreProofs

-----------------------------------------------------------------------------
(* What one request shows *)

\* What division by a shard's size leaves.
LEMMA Quotient ==
    ASSUME NEW a \in Nat, NEW size \in Nat \ {0}
    PROVE  /\ a \div size \in Nat
           /\ (a \div size) * size <= a /\ a < (a \div size) * size + size
  OBVIOUS

\* The multiples of a size below a number are those of its quotient and less.
LEMMA QuotientIsGreatest ==
    ASSUME NEW a \in Nat, NEW size \in Nat \ {0}, NEW i \in Nat, i * size <= a
    PROVE  i <= a \div size
  <1> DEFINE q == a \div size
  <1>1. q \in Nat /\ a < q * size + size
    BY Quotient
  <1> HIDE DEF q
  <1>2. SUFFICES ASSUME i >= q + 1 PROVE FALSE
    BY <1>1
  <1>3. PICK d \in Nat : i = (q + 1) + d
    <2>1. i - (q + 1) \in Nat /\ i = (q + 1) + (i - (q + 1))
      BY <1>1, <1>2
    <2> QED
      BY <2>1
  <1>4. i * size = q * size + size + d * size /\ d * size \in Nat
        /\ q * size \in Nat
    BY <1>1, <1>3
  <1> QED
    BY <1>1, <1>4

\* The events that one request looks at.
Window(count, cursor) ==
    {n \in UNION {Shard(count, i) : i \in ShardsBelow(cursor)} : n < cursor}

\* They are the last ones below the cursor.
LEMMA WindowIsInterval ==
    ASSUME NEW count \in Nat, NEW cursor \in 2..(count + 1)
    PROVE  /\ Window(count, cursor) \subseteq 1..(cursor - 1)
           /\ cursor - 1 \in Window(count, cursor)
           /\ \A n \in Window(count, cursor) : \A m \in n..(cursor - 1) :
                 m \in Window(count, cursor)
  <1> DEFINE size == EVENT_INDEX_SHARD_SIZE
             most == MAX_EVENT_SHARDS_PER_PAGE
             newest == (cursor - 2) \div size
  <1>1. size \in Nat \ {0} /\ most \in Nat \ {0}
    BY EventBoundsArePositive
  <1>2. cursor - 2 \in Nat
    OBVIOUS
  <1>3. /\ newest \in Nat /\ newest * size \in Nat
        /\ newest * size <= cursor - 2 /\ cursor - 2 < newest * size + size
    BY <1>1, <1>2, Quotient
  <1>4. ShardsBelow(cursor) = {i \in 0..newest : i > newest - most}
    BY DEF ShardsBelow
  <1>5. ASSUME NEW i \in Nat
        PROVE  /\ i * size \in Nat
               /\ Shard(count, i) = {n \in (i * size + 1)..(i * size + size) :
                                       n <= count}
    <2>1. i * size \in Nat
      BY <1>1
    <2>2. i * size + 1 + size - 1 = i * size + size
      BY <1>1, <2>1
    <2> QED
      BY <2>1, <2>2 DEF Shard
  <1> HIDE DEF newest, most, size
  <1>6. Window(count, cursor) \subseteq 1..(cursor - 1)
    BY <1>3, <1>4, <1>5 DEF Window
  <1>7. cursor - 1 \in Window(count, cursor)
    <2>1. cursor - 1 \in Shard(count, newest)
      BY <1>1, <1>3, <1>5
    <2>2. newest \in ShardsBelow(cursor)
      BY <1>1, <1>3, <1>4
    <2> QED
      BY <2>1, <2>2 DEF Window
  <1>8. ASSUME NEW n \in Window(count, cursor), NEW m \in n..(cursor - 1)
        PROVE  m \in Window(count, cursor)
    <2>1. PICK i \in ShardsBelow(cursor) : n \in Shard(count, i)
      BY DEF Window
    <2>2. i \in Nat /\ i <= newest /\ i > newest - most
      BY <1>3, <1>4
    <2>3. n \in Nat /\ i * size \in Nat /\ i * size + 1 <= n
      BY <1>1, <1>5, <2>1, <2>2
    <2> DEFINE j == (m - 1) \div size
    <2>4. m - 1 \in Nat /\ i * size <= m - 1 /\ m <= count /\ m < cursor
      BY <2>3
    <2>5. j \in Nat /\ j * size \in Nat
          /\ j * size <= m - 1 /\ m - 1 < j * size + size
      BY <1>1, <2>4, Quotient
    <2>6. i <= j
      BY <1>1, <2>2, <2>4, QuotientIsGreatest
    <2>7. j <= newest
      <3> HIDE DEF j
      <3>1. j * size <= cursor - 2
        BY <2>4, <2>5
      <3> QED
        BY <1>1, <1>2, <2>5, <3>1, QuotientIsGreatest DEF newest
    <2> HIDE DEF j
    <2>8. j \in ShardsBelow(cursor)
      BY <1>1, <1>3, <1>4, <2>2, <2>5, <2>6, <2>7
    <2>9. m \in Shard(count, j)
      BY <1>1, <1>5, <2>4, <2>5
    <2> QED
      BY <2>4, <2>8, <2>9 DEF Window
  <1> QED
    BY <1>6, <1>7, <1>8

\* Where there are enough matches, one of them is the last that is shown.
LEMMA LastOfEnough ==
    ASSUME NEW top \in Nat, NEW hits \in SUBSET (0..top),
           NEW limit \in Nat \ {0}, limit <= Cardinality(hits)
    PROVE  \E n \in hits : Cardinality({h \in hits : h >= n}) = limit
  <1> DEFINE From(k) == {h \in hits : h >= k}
             Few == {k \in Nat : Cardinality(From(k)) < limit}
  <1>0. /\ \A h \in hits : h \in Nat /\ h >= 0 /\ ~ (h >= top + 1)
    OBVIOUS
  <1>1. IsFiniteSet(hits)
    <2>1. IsFiniteSet(0..top)
      BY FS_Interval
    <2> QED
      BY <2>1, FS_Subset
  <1>2. \A k \in Nat : IsFiniteSet(From(k)) /\ Cardinality(From(k)) \in Nat
    BY <1>1, FS_Subset, FS_CardinalityType
  <1>3. top + 1 \in Few
    <2>1. From(top + 1) = {}
      BY <1>0
    <2> QED
      BY <2>1, FS_EmptySet
  <1>4. PICK m \in Few : \A k \in Few : m <= k
    <2> HIDE DEF Few
    <2>1. Few \in SUBSET Nat
      BY DEF Few
    <2> QED
      BY <1>3, <2>1, LeastNumber
  <1>5. m # 0
    <2>1. From(0) = hits
      BY <1>0
    <2>2. 0 \notin Few
      <3>1. Cardinality(hits) \in Nat
        BY <1>1, FS_CardinalityType
      <3> QED
        BY <2>1, <3>1
    <2> QED
      BY <1>4, <2>2
  <1>6. m - 1 \in Nat /\ m - 1 \notin Few
    <2> HIDE DEF Few
    <2>1. m \in Nat
      BY DEF Few
    <2> QED
      BY <1>4, <1>5, <2>1
  <1>7. Cardinality(From(m - 1)) >= limit /\ Cardinality(From(m)) < limit
    <2>1. m \in Nat /\ m - 1 \in Nat
      BY <1>6
    <2>2. Cardinality(From(m)) < limit /\ ~ (Cardinality(From(m - 1)) < limit)
      BY <1>4, <1>6
    <2> HIDE DEF From
    <2> QED
      BY <1>2, <2>1, <2>2
  <1>8. m \in Nat /\ ~ (m - 1 >= m)
    OBVIOUS
  <1>9. ASSUME NEW h \in hits
        PROVE  h >= m - 1 <=> h >= m \/ h = m - 1
    <2>1. h \in Nat
      BY <1>0
    <2> QED
      BY <1>8, <2>1
  <1>10. CASE m - 1 \in hits
    <2>1. From(m - 1) = From(m) \cup {m - 1} /\ m - 1 \notin From(m)
      BY <1>8, <1>9, <1>10, Zenon
    <2>2. Cardinality(From(m - 1)) = Cardinality(From(m)) + 1
      BY <1>2, <1>8, <2>1, FS_AddElement
    <2>3. Cardinality(From(m - 1)) = limit
      BY <1>2, <1>7, <1>8, <2>2
    <2> QED
      BY <1>10, <2>3
  <1>11. CASE m - 1 \notin hits
    <2>1. From(m - 1) = From(m)
      BY <1>9, <1>11, Zenon
    <2>2. Cardinality(From(m)) >= limit
      BY <1>7, <2>1, Zenon
    <2>3. Cardinality(From(m)) \in Nat
      BY <1>2, <1>8
    <2> HIDE DEF From
    <2> QED
      BY <1>7, <2>2, <2>3
  <1> QED
    BY <1>10, <1>11

\* One request shows the matches among the last events below the cursor, as
\* many as were asked for at most, and goes on below the last one it looked at.
LEMMA ScanShowsMatches ==
    ASSUME NEW count \in Nat, NEW cursor \in 2..(count + 1),
           NEW matching \in SUBSET (1..count), NEW limit \in Nat \ {0}
    PROVE  \E last \in 1..(cursor - 1) :
              LET shown == matching \cap (last..(cursor - 1)) IN
              /\ EventScan(count, matching, cursor, limit) =
                   [shown |-> shown, next |-> IF last > 1 THEN last ELSE None]
              /\ Cardinality(shown) <= limit
  <1> DEFINE window == Window(count, cursor)
             hits == window \cap matching
             Shown(n) == {h \in hits : h >= n}
             IsLast(n) == \/ n \in hits /\ Cardinality(Shown(n)) = limit
                          \/ /\ Cardinality(hits) < limit
                             /\ \A w \in window : n <= w
             last == CHOOSE n \in window : IsLast(n)
  <1>1. EventScan(count, matching, cursor, limit) =
          [shown |-> Shown(last), next |-> NextCursor(last, Shown(last), limit)]
    BY DEF EventScan, Window
  <1>2. /\ window \subseteq 1..(cursor - 1) /\ cursor - 1 \in window
        /\ \A n \in window : \A m \in n..(cursor - 1) : m \in window
    BY WindowIsInterval
  <1> HIDE DEF window
  <1>3. cursor \in Nat /\ cursor - 1 \in Nat
    OBVIOUS
  <1>4. hits \in SUBSET (0..(cursor - 1))
    BY <1>2, <1>3
  <1>5. IsFiniteSet(hits) /\ Cardinality(hits) \in Nat
    <2>1. IsFiniteSet(0..(cursor - 1))
      BY <1>3, FS_Interval
    <2> HIDE DEF hits
    <2> QED
      BY <1>4, <2>1, FS_Subset, FS_CardinalityType
  <1>6. \E n \in window : IsLast(n)
    <2>1. CASE Cardinality(hits) < limit
      <3>1. window \in SUBSET Nat /\ window # {}
        BY <1>2
      <3>2. PICK n \in window : \A w \in window : n <= w
        BY <3>1, LeastNumber
      <3> QED
        BY <2>1, <3>2
    <2>2. CASE ~ (Cardinality(hits) < limit)
      <3>1. limit <= Cardinality(hits)
        BY <1>5, <2>2
      <3> HIDE DEF hits
      <3>2. ASSUME NEW H \in SUBSET (0..(cursor - 1)), limit <= Cardinality(H)
            PROVE  \E n \in H : Cardinality({h \in H : h >= n}) = limit
        <4>1. PICK t \in Nat : t = cursor - 1
          BY <1>3
        <4>2. H \in SUBSET (0..t)
          BY <4>1
        <4> QED
          BY <3>2, <4>2, LastOfEnough
      <3>3. \E n \in hits : Cardinality(Shown(n)) = limit
        BY <1>4, <3>1, <3>2
      <3> QED
        BY <3>3 DEF hits
    <2> QED
      BY <2>1, <2>2
  <1>7. last \in window /\ IsLast(last)
    BY <1>6
  <1> HIDE DEF last
  <1>8. last \in 1..(cursor - 1)
    BY <1>2, <1>7
  <1>9. Shown(last) = matching \cap (last..(cursor - 1))
    <2>1. ASSUME NEW h \in window, h >= last
          PROVE  h \in last..(cursor - 1)
      BY <1>2, <1>8, <2>1
    <2>2. ASSUME NEW h \in last..(cursor - 1)
          PROVE  h \in window /\ h >= last
      BY <1>2, <1>7, <1>8
    <2> QED
      BY <2>1, <2>2, Zenon
  <1>10. Cardinality(Shown(last)) <= limit
    <2>1. CASE Cardinality(Shown(last)) = limit
      BY <2>1
    <2>2. CASE Cardinality(hits) < limit
      <3>1. Shown(last) \in SUBSET hits
        OBVIOUS
      <3> HIDE DEF Shown, hits
      <3>2. /\ Cardinality(Shown(last)) <= Cardinality(hits)
            /\ Cardinality(Shown(last)) \in Nat
        BY <1>5, <3>1, FS_Subset, FS_CardinalityType
      <3> QED
        BY <1>5, <2>2, <3>2
    <2> QED
      BY <1>7, <2>1, <2>2
  <1> QED
    BY <1>1, <1>8, <1>9, <1>10 DEF NextCursor

\* What the pages from a cursor on show.
ShowsBelow(walk, cursor, matching, limit) ==
    /\ walk \in Seq(SUBSET Nat)
    /\ UNION {walk[k] : k \in DOMAIN walk} = matching \cap (1..(cursor - 1))
    /\ \A k \in DOMAIN walk : Cardinality(walk[k]) <= limit
    /\ \A j, k \in DOMAIN walk : j < k =>
          \A a \in walk[j], b \in walk[k] : a > b

\* A page before the pages of the events below it.
LEMMA PageBeforeOthers ==
    ASSUME NEW count \in Nat, NEW cursor \in 2..(count + 1),
           NEW matching \in SUBSET (1..count), NEW limit \in Nat \ {0},
           NEW last \in 2..(cursor - 1), NEW walk,
           ShowsBelow(walk, last, matching, limit), NEW shown,
           shown = matching \cap (last..(cursor - 1)),
           Cardinality(shown) <= limit
    PROVE  ShowsBelow(<<shown>> \o walk, cursor, matching, limit)
  <1> DEFINE all == <<shown>> \o walk
  <1>1. /\ walk \in Seq(SUBSET Nat) /\ Len(walk) \in Nat
        /\ DOMAIN walk = 1..Len(walk) /\ shown \in SUBSET Nat
    BY DEF ShowsBelow
  <1>2. /\ all \in Seq(SUBSET Nat) /\ Len(all) = Len(walk) + 1
        /\ all[1] = shown
        /\ \A k \in 1..Len(walk) : all[k + 1] = walk[k]
    BY <1>1
  <1>3. DOMAIN all = 1..(Len(walk) + 1)
    BY <1>2
  <1> HIDE DEF all
  <1>4. \A k \in DOMAIN all : \/ k = 1
                              \/ k - 1 \in DOMAIN walk /\ all[k] = walk[k - 1]
    <2> TAKE k \in DOMAIN all
    <2>1. CASE k = 1
      BY <2>1
    <2>2. CASE k # 1
      <3>1. k - 1 \in 1..Len(walk) /\ (k - 1) + 1 = k
        BY <1>1, <1>3, <2>2
      <3> QED
        BY <1>1, <1>2, <3>1
    <2> QED
      BY <2>1, <2>2
  <1>5. \A k \in DOMAIN walk : k + 1 \in DOMAIN all /\ all[k + 1] = walk[k]
    BY <1>1, <1>2, <1>3
  <1>6. 1 \in DOMAIN all
    BY <1>1, <1>3
  <1>7. \A k \in DOMAIN walk : \A b \in walk[k] : b \in matching /\ b < last
    <2>1. UNION {walk[k] : k \in DOMAIN walk} = matching \cap (1..(last - 1))
      BY DEF ShowsBelow
    <2> QED
      BY <2>1
  <1>8. UNION {all[k] : k \in DOMAIN all} = matching \cap (1..(cursor - 1))
    <2>1. UNION {all[k] : k \in DOMAIN all} =
            shown \cup UNION {walk[k] : k \in DOMAIN walk}
      <3>1. ASSUME NEW k \in DOMAIN all, NEW a \in all[k]
            PROVE  a \in shown \cup UNION {walk[i] : i \in DOMAIN walk}
        BY <1>2, <1>4
      <3>2. shown \subseteq UNION {all[k] : k \in DOMAIN all}
        BY <1>2, <1>6
      <3>3. ASSUME NEW k \in DOMAIN walk, NEW a \in walk[k]
            PROVE  a \in UNION {all[i] : i \in DOMAIN all}
        BY <1>5
      <3> QED
        BY <3>1, <3>2, <3>3
    <2>2. UNION {walk[k] : k \in DOMAIN walk} = matching \cap (1..(last - 1))
      BY DEF ShowsBelow
    <2>3. 1..(cursor - 1) = (1..(last - 1)) \cup (last..(cursor - 1))
      OBVIOUS
    <2> QED
      BY <2>1, <2>2, <2>3
  <1>9. \A k \in DOMAIN all : Cardinality(all[k]) <= limit
    BY <1>2, <1>4 DEF ShowsBelow
  <1>10. ASSUME NEW j \in DOMAIN all, NEW k \in DOMAIN all, j < k,
                NEW a \in all[j], NEW b \in all[k]
         PROVE  a > b
    <2>1. k # 1 /\ k - 1 \in DOMAIN walk /\ all[k] = walk[k - 1]
      BY <1>1, <1>3, <1>4, <1>10
    <2>2. CASE j = 1
      <3>1. a >= last /\ b < last /\ a \in Nat /\ b \in Nat
        BY <1>1, <1>2, <1>7, <2>1, <2>2
      <3> QED
        BY <3>1
    <2>3. CASE j # 1
      <3>1. j - 1 \in DOMAIN walk /\ all[j] = walk[j - 1]
        BY <1>4, <2>3
      <3>2. j - 1 < k - 1
        BY <1>3, <1>10
      <3> QED
        BY <2>1, <3>1, <3>2 DEF ShowsBelow
    <2> QED
      BY <2>2, <2>3
  <1>11. all \in Seq(SUBSET Nat)
    BY <1>2
  <1> QED
    BY <1>8, <1>9, <1>10, <1>11 DEF ShowsBelow, all

\* From the newest event on, the pages show all that match: by induction on the
\* cursor, as each page ends below the one before it.
LEMMA WalkShowsMatches ==
    ASSUME NEW count \in Nat \ {0}, NEW matching \in SUBSET (1..count),
           NEW limit \in Nat \ {0}
    PROVE  ShowsBelow(EventWalk(count, matching, limit), count + 1, matching,
                      limit)
  <1> DEFINE D == 2..(count + 1)
             V == Seq(SUBSET Nat)
             Scan(cursor) == EventScan(count, matching, cursor, limit)
             ends == {c \in D : Scan(c).next = None}
             page == [c \in D |-> <<Scan(c).shown>>]
             next == [c \in D |-> Scan(c).next]
             op == [a \in D \X V |-> page[a[1]] \o a[2]]
             rank == [c \in D |-> c]
             Equation(f) ==
               f = [c \in D |-> IF Scan(c).next = None THEN <<Scan(c).shown>>
                               ELSE <<Scan(c).shown>> \o f[Scan(c).next]]
             from == CHOOSE f : Equation(f)
  <1>1. EventWalk(count, matching, limit) = from[count + 1]
    BY DEF EventWalk
  <1>2. \A c \in D : \E last \in 1..(c - 1) :
           LET shown == matching \cap (last..(c - 1)) IN
           /\ Scan(c) = [shown |-> shown,
                         next |-> IF last > 1 THEN last ELSE None]
           /\ Cardinality(shown) <= limit
    BY ScanShowsMatches
  <1> HIDE DEF Scan
  <1>3. \A c \in D : c \notin ends =>
           next[c] \in D /\ rank[next[c]] < rank[c]
    <2> SUFFICES ASSUME NEW c \in D, c \notin ends
                 PROVE  next[c] \in 2..(c - 1)
      OBVIOUS
    <2>1. PICK last \in 1..(c - 1) :
             LET shown == matching \cap (last..(c - 1)) IN
             /\ Scan(c) = [shown |-> shown,
                           next |-> IF last > 1 THEN last ELSE None]
             /\ Cardinality(shown) <= limit
      BY <1>2
    <2>2. last > 1 /\ next[c] = last
      BY <2>1
    <2> QED
      BY <2>2
  <1>4. PICK g \in [D -> V] : IsRecursive(g, D, ends, page, next, op)
    <2>1. \A c \in D : page[c] \in V
      <3> SUFFICES ASSUME NEW c \in D PROVE Scan(c).shown \in SUBSET Nat
        OBVIOUS
      <3>1. PICK last \in 1..(c - 1) :
               LET shown == matching \cap (last..(c - 1)) IN
               /\ Scan(c) = [shown |-> shown,
                             next |-> IF last > 1 THEN last ELSE None]
               /\ Cardinality(shown) <= limit
        BY <1>2
      <3> QED
        BY <3>1
    <2>2. op \in [D \X V -> V]
      <3> HIDE DEF page, D
      <3>1. \A c \in D, v \in V : page[c] \o v \in V
        BY <2>1
      <3> HIDE DEF V
      <3> QED
        BY <3>1
    <2>3. PICK N \in Nat : N = count + 1
      OBVIOUS
    <2>4. rank \in [D -> 0..N]
      BY <2>3
    <2> HIDE DEF D, V, ends, page, next, op, rank
    <2> QED
      BY <1>3, <2>1, <2>2, <2>4, RecursionIsDefined
  <1>5. from = [c \in D |-> IF Scan(c).next = None THEN <<Scan(c).shown>>
                           ELSE <<Scan(c).shown>> \o from[Scan(c).next]]
    <2>1. \A c \in D : g[c] = IF Scan(c).next = None THEN <<Scan(c).shown>>
                              ELSE <<Scan(c).shown>> \o g[Scan(c).next]
      <3> HIDE DEF V
      <3> QED
        BY <1>3, <1>4 DEF IsRecursive
    <2>2. Equation(g)
      BY <1>4, <2>1
    <2>3. Equation(from)
      BY <2>2, Zenon
    <2> HIDE DEF from, D
    <2> QED
      BY <2>3, Zenon
  <1> HIDE DEF from
  <1> DEFINE G == {n \in D : ShowsBelow(from[n], n, matching, limit)}
  <1>6. ASSUME NEW n \in D, \A m \in D : rank[m] < rank[n] => m \in G
        PROVE  n \in G
    <2> SUFFICES ShowsBelow(from[n], n, matching, limit)
      OBVIOUS
    <2>1. PICK last \in 1..(n - 1) :
             LET shown == matching \cap (last..(n - 1)) IN
             /\ Scan(n) = [shown |-> shown,
                           next |-> IF last > 1 THEN last ELSE None]
             /\ Cardinality(shown) <= limit
      BY <1>2
    <2> DEFINE shown == matching \cap (last..(n - 1))
    <2>2. CASE last = 1
      <3>1. Scan(n).next = None /\ Scan(n).shown = shown
        BY <2>1, <2>2
      <3>2. from[n] = <<shown>>
        BY <1>5, <3>1
      <3>3. shown = matching \cap (1..(n - 1)) /\ shown \in SUBSET Nat
            /\ Cardinality(shown) <= limit
        BY <2>1, <2>2
      <3> HIDE DEF shown
      <3>4. /\ <<shown>> \in Seq(SUBSET Nat)
            /\ DOMAIN <<shown>> = {1} /\ <<shown>>[1] = shown
        BY <3>3
      <3>5. UNION {<<shown>>[k] : k \in {1}} = shown
        BY <3>4
      <3>6. \A j, k \in {1} : ~ (j < k)
        OBVIOUS
      <3> DEFINE walk == <<shown>>
      <3> HIDE DEF walk
      <3>7. ShowsBelow(walk, n, matching, limit)
        BY <3>3, <3>4, <3>5, <3>6 DEF ShowsBelow, walk
      <3> QED
        BY <3>2, <3>7 DEF walk
    <2>3. CASE last # 1
      <3>1. last \in 2..(n - 1) /\ last \in D /\ last \in Nat /\ last < n
        BY <2>3
      <3>2. Scan(n).next = last /\ last # None /\ Scan(n).shown = shown
        BY <2>1, <3>1, NoneIsNoCursor
      <3>3. from[n] = <<shown>> \o from[last]
        <4> HIDE DEF shown
        <4> QED
          BY <1>5, <3>2
      <3>4. ShowsBelow(from[last], last, matching, limit)
        BY <1>6, <3>1
      <3>5. ShowsBelow(<<shown>> \o from[last], n, matching, limit)
        BY <2>1, <3>1, <3>4, PageBeforeOthers
      <3> QED
        BY <3>3, <3>5
    <2> QED
      BY <2>2, <2>3
  <1>7. D \subseteq G
    <2>1. rank \in [D -> Nat]
      OBVIOUS
    <2> HIDE DEF D, rank, G
    <2> QED
      BY <1>6, <2>1, RankInduction
  <1>8. count + 1 \in D
    OBVIOUS
  <1> QED
    BY <1>1, <1>7, <1>8

-----------------------------------------------------------------------------
(* The event list as a whole *)

\* What EventWalkFindsAll says of one Project, one filter and one limit.
FindsAll(p, s, limit) ==
    LET log == LogOf(p)
        matching == Matching(log, s)
        walk == EventWalk(Len(log), matching, limit)
    IN  /\ UNION {walk[k] : k \in DOMAIN walk} = matching
        /\ \A k \in DOMAIN walk : Cardinality(walk[k]) <= limit
        /\ \A j, k \in DOMAIN walk : j < k =>
             \A a \in walk[j], b \in walk[k] : a > b

\* The pages of a Project's log, whatever the filter and the limit.
LEMMA ListFindsAll ==
    ASSUME TypeOK, StateIsFinite, NEW p, NEW s, NEW limit \in Nat \ {0}
    PROVE  FindsAll(p, s, limit)
  <1> DEFINE log == LogOf(p)
             matching == Matching(log, s)
             walk == EventWalk(Len(log), matching, limit)
  <1>1. Len(log) \in Nat \ {0} /\ DOMAIN log = 1..Len(log)
    BY LogIsSequence
  <1>2. matching \in SUBSET (1..Len(log))
    BY <1>1 DEF Matching
  <1> HIDE DEF log, matching
  <1>3. ShowsBelow(walk, Len(log) + 1, matching, limit)
    BY <1>1, <1>2, WalkShowsMatches
  <1>4. matching \cap (1..((Len(log) + 1) - 1)) = matching
    <2>1. PICK n \in Nat : n = Len(log)
      BY <1>1
    <2>2. (n + 1) - 1 = n
      OBVIOUS
    <2> QED
      BY <1>2, <2>1, <2>2, Zenon
  <1> HIDE DEF walk
  <1>5. /\ UNION {walk[k] : k \in DOMAIN walk} = matching
        /\ \A k \in DOMAIN walk : Cardinality(walk[k]) <= limit
        /\ \A j, k \in DOMAIN walk : j < k =>
             \A a \in walk[j], b \in walk[k] : a > b
    BY <1>3, <1>4, Zenon DEF ShowsBelow
  <1> QED
    BY <1>5, Zenon DEF FindsAll, walk, matching, log

\* Whatever a Project has recorded, a client that follows the cursors of its
\* event list is shown every event that matches the filter exactly once, newest
\* first, and no more than it asked for at a time.
THEOREM EventListsAreComplete == Spec => []EventWalkFindsAll
  <1>1. TypeOK /\ StateIsFinite => EventWalkFindsAll
    <2> SUFFICES ASSUME TypeOK, StateIsFinite
                 PROVE  EventWalkFindsAll
      OBVIOUS
    <2>1. {1, EVENT_INDEX_SHARD_SIZE} \subseteq Nat \ {0}
      BY EventBoundsArePositive
    <2>2. \A p, s : \A limit \in {1, EVENT_INDEX_SHARD_SIZE} :
             FindsAll(p, s, limit)
      BY <2>1, ListFindsAll
    <2> QED
      BY <2>2, Zenon DEF EventWalkFindsAll, FindsAll
  <1> QED
    BY <1>1, ProjectStateTypes, RecordsStayFinite, PTL

-----------------------------------------------------------------------------
(* Parts of a sequence *)

\* Adjacent parts of a sequence, one after another, are a part of it.
LEMMA FlattenOfParts ==
    ASSUME NEW E, NEW g \in Seq(E), NEW N \in Nat,
           NEW b \in [0..N -> 0..Len(g)],
           \A k \in 1..N : b[k - 1] <= b[k]
    PROVE  FlattenSeq([k \in 1..N |-> SubSeq(g, b[k - 1] + 1, b[k])])
             = SubSeq(g, b[0] + 1, b[N])
  <1> DEFINE seqs == [k \in 1..N |-> SubSeq(g, b[k - 1] + 1, b[k])]
  <1>1. Len(seqs) = N
    OBVIOUS
  <1>2. CASE N = 0
    <2>1. FlattenSeq(seqs) = seqs /\ seqs = <<>>
      BY <1>1, <1>2 DEF FlattenSeq
    <2>2. SubSeq(g, b[0] + 1, b[N]) = <<>>
      <3>1. b[0] + 1 \in Int /\ b[0] \in Int /\ b[0] < b[0] + 1 /\ b[N] = b[0]
        BY <1>2
      <3> QED
        BY <3>1, SubSeqEmpty
    <2> QED
      BY <2>1, <2>2
  <1>3. CASE N # 0
    <2> DEFINE D == 1..N
               Equation(f) ==
                 f = [i \in D |-> IF i = 1 THEN seqs[i]
                                 ELSE f[i - 1] \o seqs[i]]
               flatten == CHOOSE f : Equation(f)
               upTo == [i \in D |-> SubSeq(g, b[0] + 1, b[i])]
    <2>1. FlattenSeq(seqs) = flatten[N]
      BY <1>1, <1>3 DEF FlattenSeq
    <2>2. \A i \in D : b[0] <= b[i]
      <3> DEFINE G == {i \in D : b[0] <= b[i]}
                 rank == [i \in D |-> i]
      <3>1. ASSUME NEW i \in D, \A j \in D : rank[j] < rank[i] => j \in G
            PROVE  i \in G
        <4>1. b[i - 1] <= b[i] /\ i - 1 \in 0..N /\ i \in 0..N
          OBVIOUS
        <4>2. b[0] <= b[i - 1]
          <5>1. CASE i = 1
            BY <5>1
          <5>2. CASE i # 1
            <6>1. i - 1 \in D /\ rank[i - 1] < rank[i]
              BY <5>2
            <6> QED
              BY <3>1, <6>1
          <5> QED
            BY <5>1, <5>2
        <4>3. b[0] \in Nat /\ b[i - 1] \in Nat /\ b[i] \in Nat
          BY <4>1
        <4> QED
          BY <4>1, <4>2, <4>3
      <3>2. rank \in [D -> Nat]
        OBVIOUS
      <3>3. D \subseteq G
        <4> HIDE DEF G, D, rank
        <4> QED
          BY <3>1, <3>2, RankInduction
      <3> QED
        BY <3>3
    <2>3. \A i \in D : upTo[i] = IF i = 1 THEN seqs[i]
                                ELSE upTo[i - 1] \o seqs[i]
      <3> SUFFICES ASSUME NEW i \in D
                   PROVE  upTo[i] = IF i = 1 THEN seqs[i]
                                    ELSE upTo[i - 1] \o seqs[i]
        OBVIOUS
      <3>1. upTo[i] = SubSeq(g, b[0] + 1, b[i])
            /\ seqs[i] = SubSeq(g, b[i - 1] + 1, b[i])
        OBVIOUS
      <3>2. CASE i = 1
        <4>1. i - 1 = 0
          BY <3>2
        <4> QED
          BY <3>1, <3>2, <4>1
      <3>3. CASE i # 1
        <4>1. i - 1 \in D /\ i \in 0..N /\ i - 1 \in 0..N /\ 0 \in 0..N
          BY <3>3
        <4>2. upTo[i - 1] = SubSeq(g, b[0] + 1, b[i - 1])
          BY <4>1
        <4>3. b[0] <= b[i - 1] /\ b[i - 1] <= b[i]
          BY <2>2, <4>1
        <4>4. b[0] \in 0..Len(g) /\ b[i - 1] \in 0..Len(g) /\ b[i] \in 0..Len(g)
          BY <4>1
        <4>5. /\ b[0] + 1 \in 1..(Len(g) + 1)
              /\ b[i - 1] \in ((b[0] + 1) - 1)..Len(g)
              /\ b[i] \in b[i - 1]..Len(g)
          BY <4>3, <4>4
        <4> HIDE DEF upTo, seqs
        <4> QED
          BY <3>1, <3>3, <4>2, <4>5, ConcatAdjacentSubSeq
      <3> QED
        BY <3>2, <3>3
    <2>4. Equation(upTo)
      BY <2>3, Zenon
    <2>5. Equation(flatten)
      BY <2>4, Zenon
    <2> HIDE DEF flatten
    <2>6. \A i \in D : flatten[i] = IF i = 1 THEN seqs[i]
                                   ELSE flatten[i - 1] \o seqs[i]
      BY <2>5
    <2> DEFINE G == {i \in D : flatten[i] = upTo[i]}
               rank == [i \in D |-> i]
    <2>7. ASSUME NEW i \in D, \A j \in D : rank[j] < rank[i] => j \in G
          PROVE  i \in G
      <3>1. CASE i = 1
        BY <2>3, <2>6, <3>1
      <3>2. CASE i # 1
        <4>1. i - 1 \in D /\ rank[i - 1] < rank[i]
          BY <3>2
        <4>2. flatten[i - 1] = upTo[i - 1]
          BY <2>7, <4>1
        <4>3. /\ flatten[i] = flatten[i - 1] \o seqs[i]
              /\ upTo[i] = upTo[i - 1] \o seqs[i]
          <5> HIDE DEF upTo, seqs
          <5> QED
            BY <2>3, <2>6, <3>2
        <4> HIDE DEF upTo, seqs
        <4> QED
          BY <4>2, <4>3
      <3> QED
        BY <3>1, <3>2
    <2>8. rank \in [D -> Nat]
      OBVIOUS
    <2>9. D \subseteq G
      <3> HIDE DEF G, D, rank
      <3> QED
        BY <2>7, <2>8, RankInduction
    <2>10. N \in D
      BY <1>3
    <2>11. flatten[N] = upTo[N] /\ upTo[N] = SubSeq(g, b[0] + 1, b[N])
      BY <2>9, <2>10
    <2> QED
      BY <2>1, <2>11
  <1> QED
    BY <1>2, <1>3

\* Between the bounds of adjacent parts every number lies in just one of them.
LEMMA PartOf ==
    ASSUME NEW N \in Nat, NEW b \in [0..N -> Nat],
           \A k \in 1..N : b[k - 1] <= b[k],
           NEW j \in Nat, b[0] < j, j <= b[N]
    PROVE  \E k \in 1..N : /\ b[k - 1] < j /\ j <= b[k]
                           /\ \A i \in 0..N : j <= b[i] => k <= i
  <1> DEFINE S == {i \in 0..N : j <= b[i]}
  <1>1. S \in SUBSET Nat /\ N \in S
    OBVIOUS
  <1>2. PICK k \in S : \A i \in S : k <= i
    <2> HIDE DEF S
    <2> QED
      BY <1>1, LeastNumber
  <1>3. k # 0
    <2>1. b[0] \in Nat
      OBVIOUS
    <2> QED
      BY <2>1
  <1>4. k \in 1..N /\ k - 1 \in 0..N /\ k - 1 \notin S
    BY <1>2, <1>3
  <1>5. ~ (j <= b[k - 1]) /\ b[k - 1] \in Nat
    BY <1>4
  <1>6. b[k - 1] < j
    BY <1>5
  <1>7. j <= b[k] /\ \A i \in 0..N : j <= b[i] => k <= i
    BY <1>2
  <1> QED
    BY <1>4, <1>6, <1>7

-----------------------------------------------------------------------------
(* Records in order *)

\* What is listed by position is a sequence.
LEMMA ListIsSequence ==
    ASSUME NEW n \in Nat, NEW f, f = [i \in 1..n |-> f[i]]
    PROVE  /\ f \in Seq({f[i] : i \in 1..n})
           /\ Len(f) = n /\ DOMAIN f = 1..n
  OBVIOUS

\* A sequence is its own first part.
LEMMA ComputedIsSame ==
    ASSUME NEW E, NEW s \in Seq(E)
    PROVE  Computed(s) = s
  BY SubSeqFull DEF Computed

\* How many records of S were recorded before x.
Rank(S, x) == Cardinality({y \in S : Before(y, x)})

\* The records of a finite set, in whatever order, are a sequence.
LEMMA InOrderIsSequence ==
    ASSUME NEW S, IsFiniteSet(S)
    PROVE  /\ Cardinality(S) \in Nat
           /\ InOrder(S) = [i \in 1..Cardinality(S) |->
                              CHOOSE x \in S : Rank(S, x) = i - 1]
           /\ \E E : InOrder(S) \in Seq(E)
           /\ Len(InOrder(S)) = Cardinality(S)
           /\ DOMAIN InOrder(S) = 1..Cardinality(S)
  <1> DEFINE n == Cardinality(S)
             f == [i \in 1..n |-> CHOOSE x \in S : Rank(S, x) = i - 1]
  <1>1. n \in Nat
    BY FS_CardinalityType
  <1>2. InOrder(S) = Computed(f)
    BY Zenon DEF InOrder, Rank
  <1>3. f = [i \in 1..n |-> f[i]]
    OBVIOUS
  <1> HIDE DEF f, n
  <1>4. f \in Seq({f[i] : i \in 1..n}) /\ Len(f) = n /\ DOMAIN f = 1..n
    BY <1>1, <1>3, ListIsSequence
  <1>5. InOrder(S) = f
    BY <1>2, <1>4, ComputedIsSame
  <1> USE DEF f, n
  <1> QED
    BY <1>1, <1>4, <1>5, Zenon

\* Before is an order of the records of S.
Ordered(S) ==
    /\ \A x \in S : ~ Before(x, x)
    /\ \A x, y \in S : x = y \/ Before(x, y) \/ Before(y, x)
    /\ \A x, y, z \in S : Before(x, y) /\ Before(y, z) => Before(x, z)

\* What was recorded later has more records before it.
LEMMA RankGrows ==
    ASSUME NEW S, IsFiniteSet(S), Ordered(S),
           NEW x \in S, NEW y \in S, Before(x, y)
    PROVE  /\ Rank(S, x) \in Nat /\ Rank(S, y) \in Nat
           /\ Rank(S, x) < Rank(S, y) /\ Rank(S, y) < Cardinality(S)
  <1> DEFINE A == {z \in S : Before(z, x)}
             B == {z \in S : Before(z, y)}
  <1>1. A \in SUBSET B /\ x \in B /\ x \notin A
    BY DEF Ordered
  <1>2. B \in SUBSET S /\ y \notin B
    BY DEF Ordered
  <1> HIDE DEF A, B
  <1>3. IsFiniteSet(B) /\ Cardinality(B) \in Nat
        /\ Cardinality(B) <= Cardinality(S)
        /\ (Cardinality(S) = Cardinality(B) => S = B)
        /\ Cardinality(S) \in Nat
    BY <1>2, FS_Subset, FS_CardinalityType
  <1>4. IsFiniteSet(A) /\ Cardinality(A) \in Nat
        /\ Cardinality(A) <= Cardinality(B)
        /\ (Cardinality(B) = Cardinality(A) => B = A)
    BY <1>1, <1>3, FS_Subset, FS_CardinalityType
  <1>5. Cardinality(A) < Cardinality(B) /\ Cardinality(B) < Cardinality(S)
    BY <1>1, <1>2, <1>3, <1>4
  <1> QED
    BY <1>3, <1>4, <1>5 DEF Rank, A, B

\* Every record has a rank below their number.
LEMMA RankIsPlace ==
    ASSUME NEW S, IsFiniteSet(S), Ordered(S), NEW x \in S
    PROVE  Rank(S, x) \in 0..(Cardinality(S) - 1)
  <1> DEFINE A == {z \in S : Before(z, x)}
  <1>1. A \in SUBSET S /\ x \notin A
    BY DEF Ordered
  <1> HIDE DEF A
  <1>2. Cardinality(A) \in Nat /\ Cardinality(A) <= Cardinality(S)
        /\ (Cardinality(S) = Cardinality(A) => S = A)
        /\ Cardinality(S) \in Nat
    BY <1>1, FS_Subset, FS_CardinalityType
  <1>3. Cardinality(A) < Cardinality(S)
    BY <1>1, <1>2
  <1> QED
    BY <1>2, <1>3 DEF Rank, A

\* In order, every record stands once in the list, at the place of its rank.
LEMMA InOrderLists ==
    ASSUME NEW S, IsFiniteSet(S), Ordered(S)
    PROVE  /\ \A i \in 1..Cardinality(S) :
                InOrder(S)[i] \in S /\ Rank(S, InOrder(S)[i]) = i - 1
           /\ \A x \in S : \E i \in 1..Cardinality(S) : InOrder(S)[i] = x
           /\ \A i, j \in 1..Cardinality(S) :
                Before(InOrder(S)[i], InOrder(S)[j]) => i < j
  <1> DEFINE n == Cardinality(S)
             places == 0..(n - 1)
             rank == [x \in S |-> Rank(S, x)]
  <1>1. n \in Nat
    BY FS_CardinalityType
  <1>2. rank \in [S -> places]
    BY RankIsPlace
  <1>3. rank \in Injection(S, places)
    <2>1. ASSUME NEW x \in S, NEW y \in S, rank[x] = rank[y], x # y
          PROVE  FALSE
      <3>1. Before(x, y) \/ Before(y, x)
        BY <2>1 DEF Ordered
      <3>2. rank[x] # rank[y]
        BY <3>1, RankGrows
      <3> QED
        BY <2>1, <3>2
    <2> HIDE DEF rank, places
    <2> QED
      BY <1>2, <2>1 DEF Injection, IsInjective
  <1>4. IsFiniteSet(places) /\ Cardinality(places) = n
    <2>1. 0 \in Int /\ n - 1 \in Int
      BY <1>1
    <2>2. Cardinality(places) = IF 0 > n - 1 THEN 0 ELSE (n - 1) - 0 + 1
      BY <2>1, FS_Interval
    <2>3. IsFiniteSet(places)
      BY <2>1, FS_Interval
    <2> HIDE DEF n, places
    <2> QED
      BY <1>1, <2>2, <2>3
  <1>5. rank \in Surjection(S, places)
    <2> HIDE DEF rank, places
    <2> QED
      BY <1>3, <1>4, FS_Injection
  <1>6. \A k \in places : \E x \in S : Rank(S, x) = k
    BY <1>5 DEF Surjection
  <1>7. ASSUME NEW i \in 1..n
        PROVE  InOrder(S)[i] \in S /\ Rank(S, InOrder(S)[i]) = i - 1
    <2>1. InOrder(S)[i] = CHOOSE x \in S : Rank(S, x) = i - 1
      BY InOrderIsSequence
    <2>2. i - 1 \in places
      <3> HIDE DEF n
      <3> QED
        BY <1>1
    <2>3. \E x \in S : Rank(S, x) = i - 1
      BY <1>6, <2>2
    <2> QED
      BY <2>1, <2>3, Zenon
  <1>8. ASSUME NEW x \in S
        PROVE  \E i \in 1..n : InOrder(S)[i] = x
    <2>1. Rank(S, x) \in 0..(n - 1)
      BY RankIsPlace
    <2> DEFINE i == Rank(S, x) + 1
    <2>2. i \in 1..n /\ Rank(S, x) = i - 1
      <3> HIDE DEF n
      <3> QED
        BY <1>1, <2>1
    <2> HIDE DEF i
    <2>3. InOrder(S)[i] \in S /\ Rank(S, InOrder(S)[i]) = Rank(S, x)
      BY <1>7, <2>2
    <2>4. InOrder(S)[i] = x
      <3> SUFFICES ASSUME InOrder(S)[i] # x PROVE FALSE
        OBVIOUS
      <3>1. Before(InOrder(S)[i], x) \/ Before(x, InOrder(S)[i])
        BY <2>3 DEF Ordered
      <3>2. Rank(S, InOrder(S)[i]) # Rank(S, x)
        BY <2>3, <3>1, RankGrows
      <3> QED
        BY <2>3, <3>2
    <2> QED
      BY <2>2, <2>4
  <1>9. ASSUME NEW i \in 1..n, NEW j \in 1..n,
               Before(InOrder(S)[i], InOrder(S)[j])
        PROVE  i < j
    <2>1. Rank(S, InOrder(S)[i]) < Rank(S, InOrder(S)[j])
      BY <1>7, <1>9, RankGrows
    <2>2. i - 1 < j - 1
      BY <1>7, <2>1
    <2> HIDE DEF n
    <2> QED
      BY <1>1, <2>2
  <1> QED
    BY <1>7, <1>8, <1>9, Zenon

-----------------------------------------------------------------------------
(* The windows of activity *)

\* A smaller multiple of a size has a smaller factor.
LEMMA Multiples ==
    ASSUME NEW i \in Nat, NEW j \in Nat, NEW size \in Nat \ {0}, i <= j
    PROVE  /\ i * size \in Nat /\ j * size \in Nat /\ i * size <= j * size
           /\ (i + 1) * size = i * size + size
  <1>1. PICK d \in Nat : j = i + d
    <2>1. j - i \in Nat /\ j = i + (j - i)
      OBVIOUS
    <2> QED
      BY <2>1
  <1>2. j * size = i * size + d * size /\ d * size \in Nat /\ i * size \in Nat
    BY <1>1
  <1>3. (i + 1) * size = i * size + size
    OBVIOUS
  <1> QED
    BY <1>2, <1>3

\* Where page i of a list of n entries ends.
PageEnd(n, i, size) == IF (i + 1) * size < n THEN (i + 1) * size ELSE n

\* Adjacent pages, one after another, are a part of the list.
LEMMA PagesFlatten ==
    ASSUME NEW E, NEW s \in Seq(E), NEW size \in Nat \ {0},
           NEW first \in Nat, NEW last \in Nat, first <= last,
           last * size < Len(s)
    PROVE  FlattenSeq([k \in 1..(last - first + 1) |->
                         PageOf(s, first + k - 1, size)])
             = SubSeq(s, first * size + 1, PageEnd(Len(s), last, size))
  <1> DEFINE N == last - first + 1
             b == [k \in 0..N |-> IF k = 0 THEN first * size
                                 ELSE PageEnd(Len(s), first + k - 1, size)]
  <1>1. N \in Nat /\ N # 0 /\ Len(s) \in Nat
    OBVIOUS
  <1>2. ASSUME NEW k \in 1..N
        PROVE  /\ first + k - 1 \in Nat
               /\ (first + k - 1) * size \in Nat
               /\ (first + k - 1) * size < Len(s)
               /\ first * size \in Nat
               /\ first * size <= (first + k - 1) * size
               /\ (first + k - 1 + 1) * size = (first + k - 1) * size + size
    <2>1. /\ first + k - 1 \in Nat /\ first + k - 1 <= last
          /\ first <= first + k - 1
      OBVIOUS
    <2> DEFINE i == first + k - 1
    <2> HIDE DEF i, N
    <2>2. /\ i * size \in Nat /\ i * size <= last * size /\ last * size \in Nat
          /\ (i + 1) * size = i * size + size
          /\ first * size <= i * size /\ first * size \in Nat
      BY <2>1, Multiples DEF i
    <2>3. i * size < Len(s)
      BY <1>1, <2>2
    <2> QED
      BY <2>1, <2>2, <2>3 DEF i
  <1>3. ASSUME NEW k \in 1..N
        PROVE  /\ b[k - 1] = (first + k - 1) * size
               /\ b[k] = PageEnd(Len(s), first + k - 1, size)
               /\ b[k] \in 0..Len(s) /\ b[k - 1] <= b[k]
    <2>1. b[k] = PageEnd(Len(s), first + k - 1, size)
      OBVIOUS
    <2>2. /\ PageEnd(Len(s), first + k - 1, size) \in 0..Len(s)
          /\ (first + k - 1) * size <= PageEnd(Len(s), first + k - 1, size)
      <3> DEFINE i == first + k - 1
      <3>1. /\ i * size \in Nat /\ i * size < Len(s)
            /\ (i + 1) * size = i * size + size
        BY <1>2
      <3> HIDE DEF i
      <3>2. PICK x \in Nat : x = i * size
        BY <3>1
      <3> QED
        BY <1>1, <3>1, <3>2 DEF PageEnd
    <2>3. b[k - 1] = (first + k - 1) * size
      <3>1. CASE k = 1
        <4>1. k - 1 = 0 /\ first + k - 1 = first
          BY <3>1
        <4> QED
          BY <4>1
      <3>2. CASE k # 1
        <4>1. /\ k - 1 \in 1..N /\ k - 1 # 0
              /\ first + (k - 1) - 1 + 1 = first + k - 1
          BY <3>2
        <4>2. b[k - 1] = PageEnd(Len(s), first + (k - 1) - 1, size)
          BY <4>1
        <4>3. (first + (k - 1) - 1 + 1) * size < Len(s)
          BY <1>2, <4>1
        <4> QED
          BY <4>1, <4>2, <4>3 DEF PageEnd
      <3> QED
        BY <3>1, <3>2
    <2> HIDE DEF b
    <2> QED
      BY <2>1, <2>2, <2>3
  <1>4. b \in [0..N -> 0..Len(s)]
    <2>1. b[0] = first * size /\ 1 \in 1..N
      BY <1>1
    <2>2. first * size \in 0..Len(s)
      <3>1. /\ first * size \in Nat /\ first * size <= (first + 1 - 1) * size
            /\ (first + 1 - 1) * size \in Nat /\ (first + 1 - 1) * size < Len(s)
        BY <1>2, <2>1
      <3> QED
        BY <1>1, <3>1
    <2>3. \A k \in 0..N : k = 0 \/ k \in 1..N
      OBVIOUS
    <2>4. \A k \in 0..N : b[k] \in 0..Len(s)
      BY <1>3, <2>1, <2>2, <2>3
    <2>5. b = [k \in 0..N |-> b[k]]
      OBVIOUS
    <2> HIDE DEF b, N
    <2> QED
      BY <2>4, <2>5
  <1>5. \A k \in 1..N : PageOf(s, first + k - 1, size)
                          = SubSeq(s, b[k - 1] + 1, b[k])
    BY <1>3, Zenon DEF PageOf, PageEnd
  <1>6. [k \in 1..N |-> PageOf(s, first + k - 1, size)]
          = [k \in 1..N |-> SubSeq(s, b[k - 1] + 1, b[k])]
    <2> HIDE DEF b, N
    <2> QED
      BY <1>5, Zenon
  <1>7. FlattenSeq([k \in 1..N |-> SubSeq(s, b[k - 1] + 1, b[k])])
          = SubSeq(s, b[0] + 1, b[N])
    <2> HIDE DEF b, N
    <2> QED
      BY <1>1, <1>3, <1>4, FlattenOfParts
  <1>8. b[0] = first * size /\ b[N] = PageEnd(Len(s), last, size)
    <2>1. N \in 1..N /\ first + N - 1 = last
      BY <1>1
    <2> QED
      BY <1>1, <1>3, <2>1
  <1> QED
    BY <1>6, <1>7, <1>8

\* A window is the part of the list from its offset on, and is followed by the
\* rest.
LEMMA ActivityWindowShows ==
    ASSUME NEW E, NEW s \in Seq(E), NEW limit \in Nat \ {0},
           NEW offset \in 0..Len(s)
    PROVE  \E end \in offset..Len(s) :
             /\ offset < Len(s) => offset < end
             /\ ActivityWindow(s, offset, limit).entries
                  = SubSeq(s, offset + 1, end)
             /\ ActivityWindow(s, offset, limit).next
                  = IF end < Len(s) THEN end ELSE None
  <1> DEFINE size == NODE_ACTIVITY_PAGE_SIZE
             end == IF offset + limit < Len(s) THEN offset + limit ELSE Len(s)
             first == offset \div size
             read == FlattenSeq([k \in 1..(LastPage(end) - first + 1) |->
                                   PageOf(s, first + k - 1, size)])
             upto == IF end - first * size < Len(read)
                     THEN end - first * size ELSE Len(read)
             shown == IF offset >= end THEN <<>>
                      ELSE SubSeq(read, offset - first * size + 1, upto)
             next == IF end < Len(s) THEN end ELSE None
  <1>1. ActivityWindow(s, offset, limit) = [entries |-> shown, next |-> next]
    BY Zenon DEF ActivityWindow
  <1>2. /\ ActivityWindow(s, offset, limit).entries = shown
        /\ ActivityWindow(s, offset, limit).next = next
    <2> HIDE DEF shown, next
    <2> QED
      BY <1>1
  <1>3. /\ end \in offset..Len(s) /\ (offset < Len(s) => offset < end)
        /\ Len(s) \in Nat
    OBVIOUS
  <1>4. size \in Nat \ {0}
    BY ActivityPageSizeIsPositive
  <1> HIDE DEF end, size
  <1>5. shown = SubSeq(s, offset + 1, end)
    <2>1. CASE offset >= end
      <3>1. end < offset + 1 /\ end \in Int /\ offset + 1 \in Int
        BY <1>3, <2>1
      <3>2. SubSeq(s, offset + 1, end) = <<>>
        BY <3>1, SubSeqEmpty
      <3> QED
        BY <2>1, <3>2
    <2>2. CASE ~ (offset >= end)
      <3> DEFINE last == LastPage(end)
                 to == PageEnd(Len(s), last, size)
      <3>1. offset \in Nat /\ end - 1 \in Nat /\ offset <= end - 1
            /\ end \in Nat /\ end <= Len(s)
        BY <1>3, <2>2
      <3>2. /\ first \in Nat /\ first * size <= offset /\ first * size \in Nat
            /\ offset < first * size + size
        BY <1>4, <3>1, Quotient, Multiples
      <3>3. last = (end - 1) \div size
        BY DEF LastPage, size
      <3>4. /\ last \in Nat /\ last * size <= end - 1 /\ last * size \in Nat
            /\ end - 1 < last * size + size
            /\ (last + 1) * size = last * size + size
        BY <1>4, <3>1, <3>3, Quotient, Multiples
      <3>5. first <= last
        <4>1. first * size <= end - 1
          BY <3>1, <3>2
        <4> QED
          BY <1>4, <3>1, <3>2, <3>3, <4>1, QuotientIsGreatest
      <3> HIDE DEF first, last
      <3>6. to \in Nat /\ end <= to /\ to <= Len(s)
        <4>1. PICK x \in Nat : x = last * size
          BY <3>4
        <4> QED
          BY <1>3, <1>4, <3>1, <3>4, <4>1 DEF PageEnd
      <3> HIDE DEF to
      <3>7. read = SubSeq(s, first * size + 1, to)
        <4>1. last * size < Len(s)
          BY <1>3, <3>1, <3>4
        <4> QED
          BY <1>4, <3>2, <3>4, <3>5, <4>1, PagesFlatten DEF last, to
      <3>8. PICK z \in Nat : z = first * size
        BY <3>2
      <3> HIDE DEF read
      <3>9. /\ z <= offset /\ offset < end /\ end <= to /\ to <= Len(s)
            /\ Len(s) \in Nat /\ read = SubSeq(s, z + 1, to)
        BY <1>3, <2>2, <3>1, <3>2, <3>6, <3>7, <3>8
      <3>10. Len(read) = to - z
        <4>1. /\ z + 1 \in Int /\ to \in Int /\ z + 1 <= to
              /\ \A i \in (z + 1)..to : s[i] \in E
          BY <3>1, <3>6, <3>9
        <4>2. Len(read) = to - (z + 1) + 1
          BY <3>9, <4>1, SubSeqProperties
        <4> QED
          BY <3>6, <4>2
      <3>11. upto = end - z
        BY <3>1, <3>6, <3>8, <3>9, <3>10
      <3>12. SubSeq(read, offset - z + 1, end - z) = SubSeq(s, offset + 1, end)
        <4>1. /\ z + 1 \in 1..Len(s) /\ to \in 1..Len(s)
              /\ offset - z + 1 \in 1..(to - (z + 1) + 1)
              /\ end - z \in 1..(to - (z + 1) + 1)
              /\ (z + 1) + (offset - z + 1) - 1 = offset + 1
              /\ (z + 1) + (end - z) - 1 = end
          BY <3>1, <3>6, <3>9
        <4>2. SubSeq(SubSeq(s, z + 1, to), offset - z + 1, end - z)
                = SubSeq(s, (z + 1) + (offset - z + 1) - 1,
                         (z + 1) + (end - z) - 1)
          BY <4>1, SubSeqOfSubSeq, SMTT(20)
        <4> QED
          BY <3>9, <4>1, <4>2
      <3> QED
        BY <2>2, <3>8, <3>11, <3>12
    <2> QED
      BY <2>1, <2>2
  <1> HIDE DEF shown
  <1>6. /\ ActivityWindow(s, offset, limit).entries = SubSeq(s, offset + 1, end)
        /\ ActivityWindow(s, offset, limit).next
             = IF end < Len(s) THEN end ELSE None
    BY <1>5, <1>2, Zenon
  <1> QED
    BY <1>3, <1>6, Zenon

\* Following the cursors of a list shows all of it, in order.
LEMMA ActivityWalkShowsList ==
    ASSUME NEW E, NEW s \in Seq(E), NEW limit \in Nat \ {0}, None \notin Nat
    PROVE  ActivityWalk(s, limit) = s
  <1> DEFINE n == Len(s)
             D == 0..n
             window(c) == ActivityWindow(s, c, limit)
             Equation(f) ==
               f = [c \in D |-> IF window(c).next = None THEN window(c).entries
                               ELSE window(c).entries \o f[window(c).next]]
             from == CHOOSE f : Equation(f)
             rest == [c \in D |-> SubSeq(s, c + 1, n)]
  <1>1. ActivityWalk(s, limit) = from[0]
    BY Zenon DEF ActivityWalk
  <1>2. n \in Nat
    OBVIOUS
  <1>3. ASSUME NEW c \in D
        PROVE  \/ /\ window(c).next = None
                  /\ window(c).entries = rest[c]
               \/ /\ window(c).next # None
                  /\ window(c).next \in D /\ c < window(c).next
                  /\ rest[c] = window(c).entries \o rest[window(c).next]
    <2>1. PICK end \in c..n :
            /\ c < n => c < end
            /\ window(c).entries = SubSeq(s, c + 1, end)
            /\ window(c).next = IF end < n THEN end ELSE None
      BY ActivityWindowShows
    <2>2. end \in D /\ end \in Nat /\ end <= n /\ c \in Nat /\ c <= end
      BY <1>2
    <2> HIDE DEF window
    <2>3. CASE end < n
      <3>1. window(c).next = end /\ end # None /\ c < end
        BY <1>2, <2>1, <2>2, <2>3
      <3>2. c + 1 \in 1..(n + 1) /\ end \in ((c + 1) - 1)..n /\ n \in end..n
        BY <1>2, <2>2
      <3>3. SubSeq(s, c + 1, end) \o SubSeq(s, end + 1, n)
              = SubSeq(s, c + 1, n)
        BY <3>2, ConcatAdjacentSubSeq
      <3> QED
        BY <2>1, <2>2, <3>1, <3>3
    <2>4. CASE ~ (end < n)
      <3>1. end = n
        BY <1>2, <2>2, <2>4
      <3> QED
        BY <2>1, <2>4, <3>1
    <2> QED
      BY <2>3, <2>4
  <1>4. Equation(rest)
    <2>1. \A c \in D : rest[c] = IF window(c).next = None
                                THEN window(c).entries
                                ELSE window(c).entries \o rest[window(c).next]
      <3> HIDE DEF window, rest, D
      <3> QED
        BY <1>3, Zenon
    <2>2. rest = [c \in D |-> rest[c]]
      OBVIOUS
    <2> HIDE DEF window, rest, D
    <2> QED
      BY <2>1, <2>2
  <1>5. Equation(from)
    BY <1>4, Zenon
  <1> HIDE DEF from
  <1>6. \A c \in D : from[c] = IF window(c).next = None THEN window(c).entries
                              ELSE window(c).entries \o from[window(c).next]
    <2> HIDE DEF window, D
    <2> QED
      BY <1>5
  <1> DEFINE G == {c \in D : from[c] = rest[c]}
             rank == [c \in D |-> n - c]
  <1>7. ASSUME NEW c \in D, \A d \in D : rank[d] < rank[c] => d \in G
        PROVE  c \in G
    <2>1. CASE window(c).next = None
      BY <1>3, <1>6, <2>1
    <2>2. CASE window(c).next # None
      <3> DEFINE d == window(c).next
      <3>1. d \in D /\ c < d /\ rest[c] = window(c).entries \o rest[d]
        BY <1>3, <2>2
      <3>2. from[c] = window(c).entries \o from[d]
        BY <1>6, <2>2
      <3> HIDE DEF window, d
      <3>3. rank[d] < rank[c]
        BY <1>2, <3>1
      <3>4. from[d] = rest[d]
        BY <1>7, <3>1, <3>3
      <3> QED
        BY <3>1, <3>2, <3>4
    <2> QED
      BY <2>1, <2>2
  <1>8. D \subseteq G
    <2>1. rank \in [D -> Nat]
      BY <1>2
    <2> HIDE DEF D, G, rank
    <2> QED
      BY <1>7, <2>1, RankInduction
  <1>9. 0 \in D /\ rest[0] = SubSeq(s, 1, n) /\ SubSeq(s, 1, n) = s
    BY <1>2, SubSeqFull
  <1> QED
    BY <1>1, <1>8, <1>9

\* The entries of a kind that a Project has.
Rows(p, kind) ==
    CASE kind = "runs" -> RunRows(p)
      [] kind = "evidence" -> EvidenceRows(p)
      [] kind = "comparisons" -> ComparisonRows(p)
      [] kind = "decisions" -> DecisionRows(p)
      [] kind = "coaching" -> CoachingRows(p)
      [] kind = "reviews" -> {w \in reviews : w.project = p}

\* The entry x is one that belongs to the Node s.
IsOf(s, kind, x) ==
    CASE kind = "runs" ->
           x.source = s \/ (x.outcome = "completed" /\ x.node = s)
      [] kind = "comparisons" -> Relates(x, s)
      [] kind = "coaching" -> x.source = s
      [] kind = "reviews" -> x.target.kind = "node" => x.target.of = s
      [] OTHER -> TRUE

\* A list of activity holds entries of its kind that belong to its Node.
LEMMA EntriesAreRows ==
    ASSUME NEW p, NEW s, NEW kind \in ActivityKind
    PROVE  \E S \in SUBSET Rows(p, kind) :
             /\ NodeEntries(p, s)[kind] = InOrder(S)
             /\ \A x \in S : IsOf(s, kind, x)
  <1> DEFINE runIds == {r.id : r \in NodeRuns(p, s)}
             related == {c \in ComparisonRows(p) : Relates(c, s)}
             comparisonIds == {c.id : c \in related}
             of == CASE kind = "runs" -> NodeRuns(p, s)
                     [] kind = "evidence" ->
                          {e \in EvidenceRows(p) : e.run \in runIds}
                     [] kind = "comparisons" -> related
                     [] kind = "decisions" ->
                          {d \in DecisionRows(p) :
                             s \in d.nodes \/ d.comparison \in comparisonIds}
                     [] kind = "coaching" ->
                          {q \in CoachingRows(p) : q.source = s}
                     [] kind = "reviews" ->
                          {w \in {x \in reviews : x.project = p} :
                             \/ w.target.kind = "node" /\ w.target.of = s
                             \/ /\ w.target.kind = "run"
                                /\ w.target.of \in runIds
                             \/ /\ w.target.kind = "comparison"
                                /\ w.target.of \in comparisonIds}
  <1>1. NodeEntries(p, s)[kind] = InOrder(of)
    BY Zenon DEF NodeEntries
  <1>2. of \in SUBSET Rows(p, kind) /\ \A x \in of : IsOf(s, kind, x)
    <2> HIDE DEF runIds, comparisonIds
    <2>1. CASE kind = "runs"
      BY <2>1 DEF Rows, IsOf, NodeRuns
    <2>2. CASE kind = "evidence"
      BY <2>2 DEF Rows, IsOf
    <2>3. CASE kind = "comparisons"
      BY <2>3 DEF Rows, IsOf
    <2>4. CASE kind = "decisions"
      BY <2>4 DEF Rows, IsOf
    <2>5. CASE kind = "coaching"
      BY <2>5 DEF Rows, IsOf
    <2>6. CASE kind = "reviews"
      BY <2>6 DEF Rows, IsOf
    <2> QED
      BY <2>1, <2>2, <2>3, <2>4, <2>5, <2>6 DEF ActivityKind
  <1> HIDE DEF of
  <1> QED
    BY <1>1, <1>2, Zenon

\* A Project has finitely many entries of each kind.
LEMMA RowsAreFinite ==
    ASSUME StateIsFinite, NEW p, NEW kind \in ActivityKind
    PROVE  IsFiniteSet(Rows(p, kind))
  <1> DEFINE R == {x \in RunId : runs[x] # None /\ runs[x].project = p}
             C == {x \in comparisons : x.project = p}
             Q == {x \in ProposalId : proposals[x] # None
                                      /\ proposals[x].project = p}
             row == [r \in R |-> [id |-> r, source |-> runs[r].source,
                                  outcome |-> runs[r].status,
                                  node |-> runs[r].result]]
             pair == [c \in C |-> [id |-> c.id, anchor |-> c.anchor,
                                   nodes |-> c.nodes]]
             coached == [q \in Q |-> [id |-> q, source |-> proposals[q].source]]
  <1>1. /\ R \in SUBSET Started /\ C \in SUBSET comparisons
        /\ Q \in SUBSET Proposed
    BY DEF Started, Proposed
  <1>2. IsFiniteSet(R) /\ IsFiniteSet(C) /\ IsFiniteSet(Q)
    BY <1>1, FS_Subset DEF StateIsFinite
  <1>3. /\ RunRows(p) = {row[r] : r \in R}
        /\ ComparisonRows(p) = {pair[c] : c \in C}
        /\ CoachingRows(p) = {coached[q] : q \in Q}
    BY Zenon DEF RunRows, ComparisonRows, CoachingRows
  <1> HIDE DEF R, C, Q, row, pair, coached
  <1>4. /\ IsFiniteSet(RunRows(p)) /\ IsFiniteSet(ComparisonRows(p))
        /\ IsFiniteSet(CoachingRows(p))
    BY <1>2, <1>3, ImageIsFinite
  <1>5. /\ EvidenceRows(p) \in SUBSET evidence
        /\ DecisionRows(p) \in SUBSET decisions
        /\ {w \in reviews : w.project = p} \in SUBSET reviews
    BY DEF EvidenceRows, DecisionRows
  <1>6. /\ IsFiniteSet(EvidenceRows(p)) /\ IsFiniteSet(DecisionRows(p))
        /\ IsFiniteSet({w \in reviews : w.project = p})
    BY <1>5, FS_Subset DEF StateIsFinite
  <1> QED
    BY <1>4, <1>6 DEF Rows, ActivityKind

\* Every list of activity is a sequence.
LEMMA ActivityListIsSequence ==
    ASSUME StateIsFinite, NEW p, NEW s, NEW kind \in ActivityKind
    PROVE  \E E : NodeEntries(p, s)[kind] \in Seq(E)
  <1>1. PICK S \in SUBSET Rows(p, kind) : NodeEntries(p, s)[kind] = InOrder(S)
    BY EntriesAreRows
  <1>2. IsFiniteSet(S)
    BY <1>1, RowsAreFinite, FS_Subset
  <1> QED
    BY <1>1, <1>2, InOrderIsSequence

\* Every list of activity of every Node is shown as a whole.
LEMMA ActivityListsAreShown ==
    ASSUME StateIsFinite
    PROVE  ActivityWalkShowsAll
  <1>1. ASSUME NEW p, NEW s, NEW kind \in ActivityKind,
               NEW limit \in 1..NODE_ACTIVITY_PAGE_SIZE
        PROVE  ActivityWalk(NodeEntries(p, s)[kind], limit)
                 = NodeEntries(p, s)[kind]
    <2>1. limit \in Nat \ {0}
      BY ActivityPageSizeIsPositive
    <2> QED
      BY <2>1, ActivityListIsSequence, ActivityWalkShowsList, NoneIsNoCursor
  <1> QED
    BY <1>1, Zenon DEF ActivityWalkShowsAll

-----------------------------------------------------------------------------
(* The windows of the graph *)

\* A window ends where its page does, or the Nodes do, or as many are shown as
\* were asked for.
LEMMA WindowEndIsLeast ==
    ASSUME NEW n \in Nat, NEW offset \in 0..n, NEW limit \in Nat \ {0}
    PROVE  /\ WindowEnd(n, offset, limit) \in offset..n
           /\ offset < n => offset < WindowEnd(n, offset, limit)
           /\ WindowEnd(n, offset, limit)
                <= (offset \div GRAPH_PAGE_SIZE + 1) * GRAPH_PAGE_SIZE
  <1> DEFINE page == (offset \div GRAPH_PAGE_SIZE + 1) * GRAPH_PAGE_SIZE
             ends == {n, offset + limit, page}
  <1>1. page \in Nat /\ offset < page
    <2> DEFINE a == offset \div GRAPH_PAGE_SIZE
               size == GRAPH_PAGE_SIZE
    <2>1. /\ size \in Nat \ {0}
          /\ a \in Nat /\ offset < a * size + size
      BY GraphPageSizeIsPositive, Quotient
    <2>2. (a + 1) * size = a * size + size /\ a * size \in Nat
      <3> HIDE DEF a, size
      <3> QED
        BY <2>1, Multiples
    <2>3. page = (a + 1) * size
      OBVIOUS
    <2> HIDE DEF a, size, page
    <2> QED
      BY <2>1, <2>2, <2>3
  <1>2. WindowEnd(n, offset, limit)
          = CHOOSE e \in ends : e <= n /\ e <= offset + limit /\ e <= page
    BY Zenon DEF WindowEnd
  <1> HIDE DEF page
  <1>3. \E e \in ends : e <= n /\ e <= offset + limit /\ e <= page
    <2>1. n \in Nat /\ offset + limit \in Nat
      OBVIOUS
    <2>2. CASE n <= offset + limit /\ n <= page
      BY <2>1, <2>2
    <2>3. CASE offset + limit <= n /\ offset + limit <= page
      BY <2>1, <2>3
    <2>4. CASE page <= n /\ page <= offset + limit
      BY <1>1, <2>1, <2>4
    <2> QED
      BY <1>1, <2>1, <2>2, <2>3, <2>4
  <1>4. PICK e \in ends : /\ e <= n /\ e <= offset + limit /\ e <= page
                          /\ WindowEnd(n, offset, limit) = e
    <2> HIDE DEF ends
    <2> QED
      BY <1>2, <1>3, Zenon
  <1>5. e \in Nat /\ offset <= e /\ (offset < n => offset < e)
    BY <1>1, <1>4
  <1> QED
    BY <1>4, <1>5 DEF page

\* There is a page for every Node.
LEMMA PageOfNode ==
    ASSUME NEW n \in Nat, NEW offset \in Nat, offset < n,
           NEW size \in Nat \ {0}
    PROVE  offset \div size + 1 \in 1..Pages(n, size)
  <1> DEFINE a == offset \div size
  <1>1. a \in Nat /\ a * size <= offset /\ a * size \in Nat
        /\ (a + 1) * size = a * size + size
    BY Quotient, Multiples
  <1> HIDE DEF a
  <1>2. (a + 1) * size <= n + size - 1 /\ n + size - 1 \in Nat /\ a + 1 \in Nat
    BY <1>1
  <1>3. a + 1 <= Pages(n, size) /\ Pages(n, size) \in Nat
    BY <1>2, QuotientIsGreatest, Quotient DEF Pages
  <1> QED
    BY <1>1, <1>3 DEF a

\* The Nodes that graph pages are cut from: numbered from 0 on, as many as are
\* registered.
LEMMA GraphIsListed ==
    ASSUME NEW p, NEW S, S = {n \in nodes : n.project = p}, IsFiniteSet(S)
    PROVE  /\ \E E : Graph(p).nodes \in Seq(E)
           /\ Len(Graph(p).nodes) = Cardinality(S)
           /\ Cardinality(S) \in Nat
           /\ \A i \in 1..Cardinality(S) :
                /\ Graph(p).nodes[i].sha = InOrder(S)[i].sha
                /\ Graph(p).nodes[i].ordinal = i - 1
           /\ Graph(p).edges = GraphEdges(p)
           /\ Graph(p).activeRuns = ActiveRuns(p)
           /\ DOMAIN Graph(p).leaves
                = 1..Pages(Cardinality(S), GRAPH_PAGE_SIZE)
  <1> DEFINE order == InOrder(S)
             place(s) == (CHOOSE i \in DOMAIN order : order[i].sha = s) - 1
             listed == [i \in DOMAIN order |->
               [sha |-> order[i].sha, kind |-> order[i].kind,
                parent |-> order[i].parent, origin |-> order[i].origin,
                ordinal |-> i - 1,
                parentOrdinal |-> IF order[i].kind = "root" THEN None
                                  ELSE place(order[i].parent),
                status |-> NodeStatus(p, order[i])]]
             gnodes == Computed(listed)
             cut == [k \in 1..Pages(Len(order), GRAPH_PAGE_SIZE) |->
                      IdentityLeaves(PageOf(gnodes, k - 1, GRAPH_PAGE_SIZE))]
             n == Cardinality(S)
  <1>1. Graph(p) = [root |-> rootSha[p], nodes |-> gnodes,
                    edges |-> GraphEdges(p), activeRuns |-> ActiveRuns(p),
                    leaves |-> Computed(cut)]
    BY Zenon DEF Graph
  <1>2. n \in Nat /\ Len(order) = n /\ DOMAIN order = 1..n
    BY InOrderIsSequence
  <1> HIDE DEF order, place
  <1>3. /\ listed = [i \in 1..n |-> listed[i]]
        /\ \A i \in 1..n : /\ listed[i].sha = order[i].sha
                           /\ listed[i].ordinal = i - 1
    BY <1>2
  <1> HIDE DEF listed, n
  <1>4. /\ listed \in Seq({listed[i] : i \in 1..n}) /\ Len(listed) = n
    BY <1>2, <1>3, ListIsSequence
  <1>5. gnodes = listed
    BY <1>4, ComputedIsSame
  <1> HIDE DEF gnodes
  <1>6. DOMAIN Computed(cut) = 1..Pages(n, GRAPH_PAGE_SIZE)
    <2> DEFINE m == Pages(n, GRAPH_PAGE_SIZE)
    <2>1. m \in Nat
      <3>1. n + GRAPH_PAGE_SIZE - 1 \in Nat
        BY <1>2, GraphPageSizeIsPositive
      <3> QED
        BY <3>1, GraphPageSizeIsPositive, Quotient DEF Pages
    <2>2. cut = [k \in 1..m |-> cut[k]]
      BY <1>2
    <2> HIDE DEF cut, m
    <2>3. cut \in Seq({cut[k] : k \in 1..m}) /\ DOMAIN cut = 1..m
      BY <2>1, <2>2, ListIsSequence
    <2>4. Computed(cut) = cut
      BY <2>3, ComputedIsSame
    <2> QED
      BY <2>3, <2>4 DEF m
  <1> HIDE DEF cut
  <1>7. /\ Graph(p).nodes = gnodes /\ Graph(p).edges = GraphEdges(p)
        /\ Graph(p).activeRuns = ActiveRuns(p)
        /\ Graph(p).leaves = Computed(cut)
    BY <1>1
  <1> QED
    BY <1>2, <1>3, <1>4, <1>5, <1>6, <1>7 DEF n, order

\* The elements of s from one place to another, by their places.
IsPart(part, s, from, to) ==
    /\ DOMAIN part = 1..(to - from)
    /\ \A k \in 1..(to - from) : /\ from + k \in (from + 1)..to
                                 /\ part[k] = s[from + k]

LEMMA PartOfList ==
    ASSUME NEW E, NEW s \in Seq(E), NEW from \in Nat, NEW to \in Nat,
           from <= to, to <= Len(s)
    PROVE  IsPart(SubSeq(s, from + 1, to), s, from, to)
  <1> DEFINE part == SubSeq(s, from + 1, to)
             N == to - from
  <1>1. /\ from + 1 \in Int /\ to \in Int
        /\ \A i \in (from + 1)..to : s[i] \in E
        /\ to - (from + 1) + 1 = N /\ N \in Nat
    OBVIOUS
  <1>2. /\ part \in Seq(E)
        /\ Len(part) = IF from + 1 <= to THEN to - (from + 1) + 1 ELSE 0
        /\ \A k \in 1..(to - (from + 1) + 1) :
             part[k] = s[(from + 1) + k - 1]
    BY <1>1, SubSeqProperties
  <1>3. \A k \in 1..N : /\ (from + 1) + k - 1 = from + k
                        /\ from + k \in (from + 1)..to
    OBVIOUS
  <1>4. DOMAIN part = 1..Len(part)
    BY <1>2
  <1>5. Len(part) = N
    BY <1>1, <1>2
  <1> HIDE DEF part, N
  <1> QED
    BY <1>1, <1>2, <1>3, <1>4, <1>5 DEF part, N, IsPart

\* What stands in pages is what is shown: a graph with its Nodes numbered.
IsNumbered(graph) ==
    /\ \E E : graph.nodes \in Seq(E)
    /\ \A i \in 1..Len(graph.nodes) : graph.nodes[i].ordinal = i - 1

\* The edges into the Nodes from one place to another, and their active Runs.
EdgesInto(graph, from, to) ==
    {e \in graph.edges :
       \E i \in (from + 1)..to : e.target = graph.nodes[i].sha}
RunsOf(graph, from, to) ==
    {r \in graph.activeRuns :
       \E i \in (from + 1)..to : runs[r].source = graph.nodes[i].sha}

\* A window shows the Nodes from its offset to its end, with what belongs to
\* them.
WindowShows(graph, w, offset, end) ==
    /\ w.nodes = SubSeq(graph.nodes, offset + 1, end)
    /\ w.edges = EdgesInto(graph, offset, end)
    /\ w.activeRuns = RunsOf(graph, offset, end)

\* The Nodes of a page from an offset to an end, as they are kept.
Kept(mine, offset, end) ==
    [k \in DOMAIN mine |-> IF mine[k].ordinal \in offset..(end - 1)
                           THEN <<mine[k]>> ELSE <<>>]

\* A page with the Nodes of s from one place to another keeps those from the
\* offset to the end of a window.
PageKeeps(s, first, to, offset, end) ==
    LET mine == SubSeq(s, first + 1, to)
    IN  /\ DOMAIN mine = 1..(to - first)
        /\ \A k \in 1..(to - first) : mine[k] = s[first + k]
        /\ FlattenSeq(Kept(mine, offset, end)) = SubSeq(s, offset + 1, end)

\* Of the Nodes of its page a window shows those from its offset to its end.
LEMMA WindowNodes ==
    ASSUME NEW E, NEW s \in Seq(E),
           \A i \in 1..Len(s) : s[i].ordinal = i - 1,
           NEW first \in Nat, NEW to \in Nat, to <= Len(s),
           NEW offset \in Nat, NEW end \in Nat,
           first <= offset, offset < end, end <= to
    PROVE  PageKeeps(s, first, to, offset, end)
  <1> DEFINE mine == SubSeq(s, first + 1, to)
             N == to - first
             b == [k \in 0..N |-> IF first + k <= offset THEN offset
                                 ELSE IF first + k <= end THEN first + k
                                 ELSE end]
             part == [k \in DOMAIN mine |->
                        IF mine[k].ordinal \in offset..(end - 1)
                        THEN <<mine[k]>> ELSE <<>>]
             between == [k \in 1..N |-> SubSeq(s, b[k - 1] + 1, b[k])]
  <1>1. /\ DOMAIN mine = 1..N /\ N \in Nat
        /\ \A k \in 1..N : mine[k] = s[first + k]
    <2>1. first <= to /\ N \in Nat
      OBVIOUS
    <2>2. IsPart(mine, s, first, to)
      BY <2>1, PartOfList
    <2> HIDE DEF mine
    <2> QED
      BY <2>1, <2>2 DEF IsPart
  <1> HIDE DEF mine
  <1>2. /\ b \in [0..N -> 0..Len(s)]
        /\ \A k \in 1..N : b[k - 1] <= b[k]
        /\ b[0] = offset /\ b[N] = end
    <2>1. \A k \in 0..N : b[k] \in 0..Len(s)
      OBVIOUS
    <2>2. b \in [0..N -> 0..Len(s)]
      BY <2>1
    <2>3. b[0] = offset /\ b[N] = end
      OBVIOUS
    <2>4. ASSUME NEW k \in 1..N PROVE b[k - 1] <= b[k]
      <3>1. k - 1 \in 0..N /\ k \in 0..N /\ first + (k - 1) = first + k - 1
        OBVIOUS
      <3>2. /\ b[k] = IF first + k <= offset THEN offset
                      ELSE IF first + k <= end THEN first + k ELSE end
            /\ b[k - 1] = IF first + (k - 1) <= offset THEN offset
                          ELSE IF first + (k - 1) <= end THEN first + (k - 1)
                          ELSE end
        BY <3>1
      <3> HIDE DEF b
      <3> QED
        BY <3>1, <3>2
    <2> QED
      BY <2>2, <2>3, <2>4
  <1>3. ASSUME NEW k \in 1..N
        PROVE  part[k] = between[k]
    <2>1. /\ mine[k] = s[first + k] /\ first + k \in 1..Len(s)
          /\ mine[k].ordinal = first + k - 1
      BY <1>1
    <2>2. /\ part[k] = IF mine[k].ordinal \in offset..(end - 1)
                       THEN <<mine[k]>> ELSE <<>>
          /\ between[k] = SubSeq(s, b[k - 1] + 1, b[k])
      BY <1>1
    <2>3. k - 1 \in 0..N /\ k \in 0..N /\ first + (k - 1) = first + k - 1
      OBVIOUS
    <2>4. /\ b[k] = IF first + k <= offset THEN offset
                    ELSE IF first + k <= end THEN first + k ELSE end
          /\ b[k - 1] = IF first + (k - 1) <= offset THEN offset
                        ELSE IF first + (k - 1) <= end THEN first + (k - 1)
                        ELSE end
      BY <2>3
    <2> HIDE DEF b, part, between
    <2>5. CASE offset < first + k /\ first + k <= end
      <3>1. b[k] = first + k /\ b[k - 1] + 1 = first + k
        BY <2>4, <2>5
      <3>2. mine[k].ordinal \in offset..(end - 1)
        BY <2>1, <2>5
      <3>3. SubSeq(s, first + k, first + k) = <<s[first + k]>>
        <4>1. PICK m \in 1..Len(s) : m = first + k
          BY <2>1
        <4>2. SubSeq(s, m, m) = <<s[m]>> \o SubSeq(s, m + 1, m)
          BY SubSeqRecursiveFirst
        <4>3. SubSeq(s, m + 1, m) = <<>>
          BY SubSeqEmpty
        <4>4. s[m] \in E
          OBVIOUS
        <4>5. <<s[m]>> \o <<>> = <<s[m]>>
          BY <4>4
        <4> QED
          BY <4>1, <4>2, <4>3, <4>5
      <3> QED
        BY <2>1, <2>2, <3>1, <3>2, <3>3
    <2>6. CASE ~ (offset < first + k /\ first + k <= end)
      <3>1. b[k] = b[k - 1] /\ b[k] \in Nat
        BY <2>4, <2>6
      <3>2. mine[k].ordinal \notin offset..(end - 1)
        BY <2>1, <2>6
      <3>3. SubSeq(s, b[k] + 1, b[k]) = <<>>
        <4>1. b[k] + 1 \in Int /\ b[k] \in Int /\ b[k] < b[k] + 1
          BY <3>1
        <4> QED
          BY <4>1, SubSeqEmpty
      <3> QED
        BY <2>2, <3>1, <3>2, <3>3
    <2> QED
      BY <2>5, <2>6
  <1>4. part = between
    <2>1. part = [k \in 1..N |-> part[k]]
      BY <1>1
    <2>2. between = [k \in 1..N |-> between[k]]
      BY SMTT(30)
    <2> HIDE DEF part, between
    <2> QED
      BY <1>3, <2>1, <2>2
  <1>5. FlattenSeq(between) = SubSeq(s, b[0] + 1, b[N])
    <2> HIDE DEF b, N
    <2> QED
      BY <1>1, <1>2, FlattenOfParts
  <1>6. FlattenSeq(part) = SubSeq(s, offset + 1, end)
    <2> HIDE DEF part, between, b
    <2> QED
      BY <1>2, <1>4, <1>5
  <1> HIDE DEF b, between
  <1> QED
    BY <1>1, <1>6, Zenon DEF mine, part, N, Kept, PageKeeps

\* The pages of a graph, as they are stored.
IsPaged(pages, graph) ==
    /\ DOMAIN pages = 1..Pages(Len(graph.nodes), GRAPH_PAGE_SIZE)
    /\ \A k \in DOMAIN pages : pages[k] = GraphPage(graph, k - 1)

\* What a request for Nodes from an offset on is answered with.
LEMMA GraphWindowShows ==
    ASSUME NEW graph, IsNumbered(graph), NEW pages, IsPaged(pages, graph),
           NEW limit \in Nat \ {0},
           NEW offset \in 0..(Len(graph.nodes) - 1)
    PROVE  LET n == Len(graph.nodes)
               w == GraphWindow(pages, n, offset, limit)
               end == WindowEnd(n, offset, limit)
           IN  /\ WindowShows(graph, w, offset, end)
               /\ w.next = IF end < n THEN end ELSE None
  <1> DEFINE n == Len(graph.nodes)
             size == GRAPH_PAGE_SIZE
             a == offset \div size
             page == pages[a + 1]
             end == WindowEnd(n, offset, limit)
             shown == FlattenSeq([k \in DOMAIN page.nodes |->
                        IF page.nodes[k].ordinal \in offset..(end - 1)
                        THEN <<page.nodes[k]>> ELSE <<>>])
             shas == {shown[k].sha : k \in DOMAIN shown}
             w == [nodes |-> shown,
                   edges |-> {e \in page.edges : e.target \in shas},
                   activeRuns |-> {r \in page.activeRuns :
                                     runs[r].source \in shas},
                   next |-> IF end < n THEN end ELSE None]
  <1>1. GraphWindow(pages, n, offset, limit) = w
    BY Zenon DEF GraphWindow
  <1>2. PICK E : graph.nodes \in Seq(E)
    BY DEF IsNumbered
  <1>3. n \in Nat /\ offset \in Nat /\ offset < n
    BY <1>2
  <1>4. size \in Nat \ {0}
    BY GraphPageSizeIsPositive
  <1>5. /\ end \in offset..n /\ offset < end /\ end <= (a + 1) * size
    <2>1. offset \in 0..n
      BY <1>3
    <2> HIDE DEF n
    <2> QED
      BY <1>3, <2>1, WindowEndIsLeast, Zenon DEF end
  <1>6. /\ a \in Nat /\ a * size <= offset /\ a * size \in Nat
        /\ (a + 1) * size = a * size + size
    BY <1>3, <1>4, Quotient, Multiples
  <1>7. a + 1 \in DOMAIN pages
    <2> HIDE DEF n, a
    <2> QED
      BY <1>3, <1>4, PageOfNode DEF IsPaged, n, a
  <1> HIDE DEF a, end
  <1>8. page = GraphPage(graph, a)
    BY <1>6, <1>7 DEF IsPaged
  <1> DEFINE first == a * size
             to == PageEnd(n, a, size)
             mine == SubSeq(graph.nodes, first + 1, to)
             targets == {mine[k].sha : k \in DOMAIN mine}
  <1>9. /\ page.nodes = mine
        /\ page.edges = {e \in graph.edges : e.target \in targets}
        /\ page.activeRuns = {r \in graph.activeRuns :
                                runs[r].source \in targets}
    <2>1. /\ GraphPage(graph, a).nodes = PageOf(graph.nodes, a, size)
          /\ GraphPage(graph, a).edges
               = {e \in graph.edges :
                    e.target \in {PageOf(graph.nodes, a, size)[k].sha :
                                    k \in DOMAIN PageOf(graph.nodes, a, size)}}
          /\ GraphPage(graph, a).activeRuns
               = {r \in graph.activeRuns :
                    runs[r].source \in
                      {PageOf(graph.nodes, a, size)[k].sha :
                         k \in DOMAIN PageOf(graph.nodes, a, size)}}
      BY DEF GraphPage
    <2>2. PageOf(graph.nodes, a, size) = mine
      BY Zenon DEF PageOf, PageEnd
    <2> HIDE DEF mine, page
    <2> QED
      BY <1>8, <2>1, <2>2
  <1> HIDE DEF page
  <1>10. /\ first \in Nat /\ to \in Nat /\ first <= offset
         /\ end <= to /\ to <= n /\ end \in Nat
    <2>1. PICK x \in Nat : x = a * size
      BY <1>6
    <2> HIDE DEF n
    <2> QED
      BY <1>3, <1>4, <1>5, <1>6, <2>1 DEF PageEnd
  <1>11. /\ DOMAIN mine = 1..(to - first)
         /\ \A k \in 1..(to - first) : mine[k] = graph.nodes[first + k]
         /\ FlattenSeq([k \in DOMAIN mine |->
              IF mine[k].ordinal \in offset..(end - 1)
              THEN <<mine[k]>> ELSE <<>>])
              = SubSeq(graph.nodes, offset + 1, end)
    <2>1. \A i \in 1..Len(graph.nodes) : graph.nodes[i].ordinal = i - 1
      BY DEF IsNumbered
    <2>2. to <= Len(graph.nodes) /\ offset < end
      BY <1>5, <1>10
    <2>3. first <= offset /\ end <= to
      BY <1>10
    <2>4. first \in Nat /\ to \in Nat /\ offset \in Nat /\ end \in Nat
      BY <1>3, <1>10
    <2> HIDE DEF first, to, n
    <2>5. PageKeeps(graph.nodes, first, to, offset, end)
      BY <1>2, <2>1, <2>2, <2>3, <2>4, WindowNodes
    <2> QED
      BY <2>5, Zenon DEF PageKeeps, Kept
  <1>12. shown = SubSeq(graph.nodes, offset + 1, end)
    <2> HIDE DEF mine
    <2> QED
      BY <1>9, <1>11
  <1> HIDE DEF shown
  <1>13. shas = {graph.nodes[i].sha : i \in (offset + 1)..end}
    <2>1. /\ offset + 1 \in Int /\ end \in Int /\ offset + 1 <= end
          /\ end - (offset + 1) + 1 = end - offset
          /\ \A i \in (offset + 1)..end : graph.nodes[i] \in E
      BY <1>2, <1>3, <1>5
    <2>2. /\ shown \in Seq(E) /\ Len(shown) = end - (offset + 1) + 1
          /\ \A k \in 1..(end - (offset + 1) + 1) :
               shown[k] = graph.nodes[(offset + 1) + k - 1]
      BY <1>12, <2>1, SubSeqProperties
    <2>3. DOMAIN shown = 1..(end - offset)
      BY <2>1, <2>2
    <2>4. \A k \in 1..(end - offset) :
             /\ offset + k \in (offset + 1)..end
             /\ shown[k] = graph.nodes[offset + k]
      <3> TAKE k \in 1..(end - offset)
      <3>1. /\ offset + k \in (offset + 1)..end
            /\ (offset + 1) + k - 1 = offset + k
        BY <1>3, <1>10
      <3> QED
        BY <2>1, <2>2, <3>1
    <2>5. \A i \in (offset + 1)..end :
             i - offset \in 1..(end - offset) /\ offset + (i - offset) = i
      BY <1>3, <1>10
    <2>6. \A i \in (offset + 1)..end : \E k \in DOMAIN shown :
             shown[k] = graph.nodes[i]
      BY <2>3, <2>4, <2>5
    <2>7. \A k \in DOMAIN shown : \E i \in (offset + 1)..end :
             shown[k] = graph.nodes[i]
      BY <2>3, <2>4
    <2> QED
      BY <2>6, <2>7
  <1>14. shas \subseteq targets
    <2>1. ASSUME NEW i \in (offset + 1)..end
          PROVE  graph.nodes[i].sha \in targets
      <3>1. /\ i - first \in 1..(to - first) /\ first + (i - first) = i
        <4> HIDE DEF first, to
        <4> QED
          BY <1>3, <1>10
      <3>2. mine[i - first] = graph.nodes[i] /\ i - first \in DOMAIN mine
        BY <1>11, <3>1
      <3> HIDE DEF mine
      <3> QED
        BY <3>2
    <2> HIDE DEF targets
    <2> QED
      BY <1>13, <2>1
  <1>15. /\ {e \in page.edges : e.target \in shas}
              = EdgesInto(graph, offset, end)
         /\ {r \in page.activeRuns : runs[r].source \in shas}
              = RunsOf(graph, offset, end)
    <2>1. /\ {e \in page.edges : e.target \in shas}
               = {e \in graph.edges : e.target \in shas}
          /\ {r \in page.activeRuns : runs[r].source \in shas}
               = {r \in graph.activeRuns : runs[r].source \in shas}
      <3> HIDE DEF shas, targets
      <3> QED
        BY <1>9, <1>14
    <2> HIDE DEF shas
    <2> QED
      BY <1>13, <2>1 DEF EdgesInto, RunsOf
  <1> HIDE DEF shas
  <1>16. /\ w.nodes = SubSeq(graph.nodes, offset + 1, end)
         /\ w.edges = EdgesInto(graph, offset, end)
         /\ w.activeRuns = RunsOf(graph, offset, end)
         /\ w.next = IF end < n THEN end ELSE None
    BY <1>12, <1>15
  <1> HIDE DEF w
  <1> QED
    BY <1>1, <1>16 DEF WindowShows, end, n

\* A walk from an offset on: windows, one after another, up to the last Node.
IsWalk(graph, walk, offset) ==
    LET n == Len(graph.nodes) IN
    \E N \in Nat \ {0} : \E b \in [0..N -> 0..n] :
       /\ DOMAIN walk = 1..N
       /\ b[0] = offset /\ b[N] = n
       /\ \A k \in 1..N : b[k - 1] <= b[k]
                          /\ WindowShows(graph, walk[k], b[k - 1], b[k])

\* A window that ends with the last Node is a walk.
LEMMA LastWindow ==
    ASSUME NEW graph, NEW n \in Nat, n = Len(graph.nodes),
           NEW offset \in 0..n, NEW w, WindowShows(graph, w, offset, n)
    PROVE  IsWalk(graph, <<w>>, offset)
  <1> DEFINE b == [k \in 0..1 |-> IF k = 0 THEN offset ELSE n]
             walk == <<w>>
  <1>1. b \in [0..1 -> 0..n] /\ b[0] = offset /\ b[1] = n
    OBVIOUS
  <1>2. DOMAIN walk = 1..1 /\ walk[1] = w
    OBVIOUS
  <1> HIDE DEF b, walk
  <1>3. ASSUME NEW k \in 1..1
        PROVE  /\ b[k - 1] <= b[k]
               /\ WindowShows(graph, walk[k], b[k - 1], b[k])
    <2>1. k = 1 /\ k - 1 = 0
      OBVIOUS
    <2> QED
      BY <1>1, <1>2, <2>1
  <1>4. 1 \in Nat \ {0}
    OBVIOUS
  <1>5. IsWalk(graph, walk, offset)
    BY <1>1, <1>2, <1>3, <1>4 DEF IsWalk
  <1> QED
    BY <1>5 DEF walk

\* A window before a walk from its end is a walk from its offset.
LEMMA WindowBefore ==
    ASSUME NEW graph, NEW n \in Nat, n = Len(graph.nodes), NEW V,
           NEW offset \in 0..n, NEW end \in 0..n, offset <= end,
           NEW w \in V, WindowShows(graph, w, offset, end),
           NEW rest \in Seq(V), IsWalk(graph, rest, end)
    PROVE  IsWalk(graph, <<w>> \o rest, offset)
  <1> DEFINE IsRest(N, b) ==
               /\ DOMAIN rest = 1..N
               /\ b[0] = end /\ b[N] = n
               /\ \A k \in 1..N : b[k - 1] <= b[k]
                                  /\ WindowShows(graph, rest[k], b[k - 1], b[k])
  <1>1. PICK N \in Nat \ {0} : \E b \in [0..N -> 0..n] : IsRest(N, b)
    BY DEF IsWalk
  <1>2. PICK b \in [0..N -> 0..n] :
          /\ DOMAIN rest = 1..N
          /\ b[0] = end /\ b[N] = n
          /\ \A k \in 1..N : b[k - 1] <= b[k]
                             /\ WindowShows(graph, rest[k], b[k - 1], b[k])
    BY <1>1
  <1> DEFINE walk == <<w>> \o rest
             c == [k \in 0..(N + 1) |-> IF k = 0 THEN offset ELSE b[k - 1]]
  <1>3. /\ DOMAIN walk = 1..(N + 1) /\ walk[1] = w
        /\ \A k \in 2..(N + 1) : walk[k] = rest[k - 1]
    <2>1. Len(rest) = N /\ <<w>> \in Seq(V) /\ Len(<<w>>) = 1
      BY <1>2
    <2> QED
      BY <2>1
  <1>4. /\ c \in [0..(N + 1) -> 0..n] /\ c[0] = offset /\ c[1] = end
        /\ c[N + 1] = n
        /\ \A k \in 1..(N + 1) : c[k] = b[k - 1]
    <2>1. \A k \in 1..(N + 1) : k - 1 \in 0..N
      OBVIOUS
    <2>2. \A k \in 0..(N + 1) : c[k] \in 0..n
      BY <2>1
    <2>3. c[0] = offset /\ \A k \in 1..(N + 1) : c[k] = b[k - 1]
      OBVIOUS
    <2>4. c = [k \in 0..(N + 1) |-> c[k]]
      OBVIOUS
    <2>5. 1 \in 1..(N + 1) /\ 1 - 1 = 0 /\ N + 1 \in 1..(N + 1)
          /\ (N + 1) - 1 = N
      OBVIOUS
    <2> HIDE DEF c
    <2>6. c[1] = end /\ c[N + 1] = n
      BY <1>2, <2>3, <2>5
    <2> QED
      BY <2>2, <2>3, <2>4, <2>6
  <1> HIDE DEF walk, c
  <1>5. ASSUME NEW k \in 1..(N + 1)
        PROVE  /\ c[k - 1] <= c[k]
               /\ WindowShows(graph, walk[k], c[k - 1], c[k])
    <2>1. CASE k = 1
      <3>1. k - 1 = 0
        BY <2>1
      <3> QED
        BY <1>3, <1>4, <2>1, <3>1
    <2>2. CASE k # 1
      <3>1. k - 1 \in 1..N /\ k \in 2..(N + 1) /\ k - 1 \in 1..(N + 1)
        BY <2>2
      <3>2. /\ c[k] = b[k - 1] /\ c[k - 1] = b[(k - 1) - 1]
            /\ walk[k] = rest[k - 1]
        BY <1>3, <1>4, <3>1
      <3> QED
        BY <1>2, <3>1, <3>2
    <2> QED
      BY <2>1, <2>2
  <1>6. N + 1 \in Nat \ {0}
    OBVIOUS
  <1>7. IsWalk(graph, walk, offset)
    BY <1>3, <1>4, <1>5, <1>6 DEF IsWalk
  <1> QED
    BY <1>7 DEF walk

\* Following the cursors from the first Node on is a walk.
LEMMA GraphWalkIsWalk ==
    ASSUME NEW graph, IsNumbered(graph), NEW pages, IsPaged(pages, graph),
           NEW limit \in Nat \ {0}, Len(graph.nodes) > 0
    PROVE  IsWalk(graph, GraphWalk(pages, Len(graph.nodes), limit), 0)
  <1> DEFINE n == Len(graph.nodes)
             D == 0..n
             window == [c \in D |-> GraphWindow(pages, n, c, limit)]
             W == {window[c] : c \in D}
             V == Seq(W)
             ends == {c \in D : window[c].next = None}
             first == [c \in D |-> <<window[c]>>]
             next == [c \in D |-> window[c].next]
             op == [x \in D \X V |-> <<window[x[1]]>> \o x[2]]
             rank == [c \in D |-> n - c]
             Equation(f) ==
               f = [c \in D |->
                     IF GraphWindow(pages, n, c, limit).next = None
                     THEN <<GraphWindow(pages, n, c, limit)>>
                     ELSE <<GraphWindow(pages, n, c, limit)>>
                          \o f[GraphWindow(pages, n, c, limit).next]]
             from == CHOOSE f : Equation(f)
  <1>1. GraphWalk(pages, n, limit) = from[0]
    BY Zenon DEF GraphWalk
  <1>2. n \in Nat /\ n > 0
    BY DEF IsNumbered
  <1> HIDE DEF n
  <1>3. ASSUME NEW c \in D
        PROVE  LET end == WindowEnd(n, c, limit)
               IN  /\ end \in c..n /\ (c < n => c < end)
                   /\ window[c].next = IF end < n THEN end ELSE None
                   /\ c < n => WindowShows(graph, window[c], c, end)
    <2> DEFINE end == WindowEnd(n, c, limit)
    <2>1. end \in c..n /\ (c < n => c < end)
      BY <1>2, WindowEndIsLeast
    <2>2. window[c] = GraphWindow(pages, n, c, limit)
      OBVIOUS
    <2>3. GraphWindow(pages, n, c, limit).next = IF end < n THEN end ELSE None
      BY DEF GraphWindow
    <2>4. ASSUME c < n
          PROVE  WindowShows(graph, GraphWindow(pages, n, c, limit), c, end)
      <3>1. c \in 0..(Len(graph.nodes) - 1)
        BY <1>2, <2>4 DEF n
      <3> QED
        BY <3>1, GraphWindowShows DEF n
    <2> HIDE DEF window, end
    <2> QED
      BY <2>1, <2>2, <2>3, <2>4 DEF end
  <1>4. ASSUME NEW c \in D
        PROVE  \/ /\ c \in ends
                  /\ c < n => WindowShows(graph, window[c], c, n)
               \/ /\ c \notin ends /\ c < n
                  /\ next[c] \in D /\ c < next[c] /\ next[c] < n
                  /\ WindowShows(graph, window[c], c, next[c])
    <2> DEFINE end == WindowEnd(n, c, limit)
    <2>1. /\ end \in c..n /\ (c < n => c < end)
          /\ window[c].next = IF end < n THEN end ELSE None
          /\ c < n => WindowShows(graph, window[c], c, end)
      BY <1>3
    <2>2. next[c] = window[c].next
      OBVIOUS
    <2>3. c \in ends <=> window[c].next = None
      OBVIOUS
    <2> HIDE DEF window, end, next, ends
    <2>4. end \in Nat /\ end # None
      BY <1>2, <2>1, NoneIsNoCursor
    <2>5. CASE end < n
      BY <1>2, <2>1, <2>2, <2>3, <2>4, <2>5
    <2>6. CASE ~ (end < n)
      <3>1. end = n
        BY <1>2, <2>1, <2>4, <2>6
      <3> QED
        BY <2>1, <2>3, <2>6, <3>1
    <2> QED
      BY <2>5, <2>6
  <1>5. /\ op \in [D \X V -> V]
        /\ \A c \in D : window[c] \in W /\ first[c] = <<window[c]>>
                        /\ first[c] \in V
    <2>1. \A c \in D : window[c] \in W
      OBVIOUS
    <2> HIDE DEF W, window
    <2>2. ASSUME NEW c \in D, NEW v \in V
          PROVE  <<window[c]>> \o v \in V
      BY <2>1
    <2>3. \A c \in D : <<window[c]>> \in V
      BY <2>1
    <2> HIDE DEF D, V
    <2> QED
      BY <2>1, <2>2, <2>3
  <1>6. rank \in [D -> 0..n]
    BY <1>2
  <1>7. \A c \in D : c \notin ends => next[c] \in D /\ rank[next[c]] < rank[c]
    <2> SUFFICES ASSUME NEW c \in D, c \notin ends
                 PROVE  next[c] \in D /\ rank[next[c]] < rank[c]
      OBVIOUS
    <2>1. next[c] \in D /\ c < next[c]
      BY <1>4
    <2> HIDE DEF next
    <2> QED
      BY <1>2, <2>1
  <1>8. PICK g \in [D -> V] : IsRecursive(g, D, ends, first, next, op)
    <2>1. \A c \in D : c \in ends => first[c] \in V
      BY <1>5
    <2> HIDE DEF D, V, ends, first, next, op, rank
    <2> QED
      BY <1>2, <1>5, <1>6, <1>7, <2>1, RecursionIsDefined
  <1>9. ASSUME NEW f
        PROVE  Equation(f) <=>
                 f = [c \in D |-> IF c \in ends THEN <<window[c]>>
                                 ELSE <<window[c]>> \o f[next[c]]]
    <2>1. \A c \in D : /\ window[c] = GraphWindow(pages, n, c, limit)
                       /\ next[c] = GraphWindow(pages, n, c, limit).next
                       /\ c \in ends <=>
                            GraphWindow(pages, n, c, limit).next = None
      OBVIOUS
    <2> HIDE DEF window, next, ends
    <2>2. [c \in D |-> IF GraphWindow(pages, n, c, limit).next = None
                       THEN <<GraphWindow(pages, n, c, limit)>>
                       ELSE <<GraphWindow(pages, n, c, limit)>>
                            \o f[GraphWindow(pages, n, c, limit).next]]
          = [c \in D |-> IF c \in ends THEN <<window[c]>>
                         ELSE <<window[c]>> \o f[next[c]]]
      <3> HIDE DEF D
      <3> QED
        BY <2>1
    <2> QED
      BY <2>2
  <1>10. Equation(g)
    <2>1. \A c \in D : g[c] = IF c \in ends THEN <<window[c]>>
                             ELSE <<window[c]>> \o g[next[c]]
      <3> SUFFICES ASSUME NEW c \in D
                   PROVE  g[c] = IF c \in ends THEN <<window[c]>>
                                 ELSE <<window[c]>> \o g[next[c]]
        OBVIOUS
      <3>1. g[c] = IF c \in ends THEN first[c] ELSE op[<<c, g[next[c]]>>]
        <4> HIDE DEF D, V, ends, first, next, op
        <4> QED
          BY <1>8 DEF IsRecursive
      <3>2. CASE c \in ends
        BY <1>5, <3>1, <3>2
      <3>3. CASE c \notin ends
        <4>1. g[next[c]] \in V
          BY <1>7, <1>8, <3>3
        <4>2. op[<<c, g[next[c]]>>] = <<window[c]>> \o g[next[c]]
          <5> HIDE DEF V, D, window, next
          <5> QED
            BY <4>1
        <4> HIDE DEF ends, first, next, op, window
        <4> QED
          BY <3>1, <3>3, <4>2
      <3> QED
        BY <3>2, <3>3
    <2>2. g = [c \in D |-> g[c]]
      BY <1>8
    <2>3. g = [c \in D |-> IF c \in ends THEN <<window[c]>>
                           ELSE <<window[c]>> \o g[next[c]]]
      <3> HIDE DEF D, ends, window, next
      <3> QED
        BY <2>1, <2>2
    <2> HIDE DEF Equation
    <2> QED
      BY <1>9, <2>3, Zenon
  <1>11. Equation(from)
    BY <1>10, Zenon
  <1> HIDE DEF from
  <1>12. \A c \in D : from[c] = IF c \in ends THEN <<window[c]>>
                               ELSE <<window[c]>> \o from[next[c]]
    <2>1. from = [c \in D |-> IF c \in ends THEN <<window[c]>>
                             ELSE <<window[c]>> \o from[next[c]]]
      <3> HIDE DEF Equation
      <3> QED
        BY <1>9, <1>11, Zenon
    <2> HIDE DEF D, ends, window, next
    <2> QED
      BY <2>1
  <1> DEFINE G == {c \in D : from[c] \in V
                             /\ (c < n => IsWalk(graph, from[c], c))}
  <1>13. ASSUME NEW c \in D, \A d \in D : rank[d] < rank[c] => d \in G
         PROVE  c \in G
    <2>1. window[c] \in W /\ <<window[c]>> \in V
      BY <1>5
    <2>2. CASE c \in ends
      <3>1. from[c] = <<window[c]>>
        BY <1>12, <2>2
      <3>2. ASSUME c < n PROVE IsWalk(graph, <<window[c]>>, c)
        <4>1. WindowShows(graph, window[c], c, n)
          BY <1>4, <2>2, <3>2
        <4> HIDE DEF window
        <4> QED
          BY <1>2, <4>1, LastWindow DEF n
      <3> HIDE DEF window, V
      <3> QED
        BY <2>1, <3>1, <3>2
    <2>3. CASE c \notin ends
      <3> DEFINE d == next[c]
      <3>1. /\ d \in D /\ c < d /\ d < n /\ c < n
            /\ WindowShows(graph, window[c], c, d)
        BY <1>4, <2>3
      <3>2. from[c] = <<window[c]>> \o from[d]
        BY <1>12, <2>3
      <3>3. rank[d] < rank[c]
        BY <1>7, <2>3
      <3>4. from[d] \in V /\ IsWalk(graph, from[d], d)
        BY <1>13, <3>1, <3>3
      <3> HIDE DEF d, window, W
      <3>5. <<window[c]>> \o from[d] \in V
        BY <2>1, <3>4
      <3>6. IsWalk(graph, <<window[c]>> \o from[d], c)
        <4>1. c \in 0..n /\ d \in 0..n /\ c <= d
          BY <1>2, <3>1
        <4> QED
          BY <1>2, <2>1, <3>1, <3>4, <4>1, WindowBefore DEF n
      <3> HIDE DEF V
      <3> QED
        BY <3>2, <3>5, <3>6
    <2> QED
      BY <2>2, <2>3
  <1>14. D \subseteq G
    <2>1. rank \in [D -> Nat]
      BY <1>2
    <2> HIDE DEF D, rank, G
    <2> QED
      BY <1>13, <2>1, RankInduction
  <1>15. 0 \in D /\ 0 < n
    BY <1>2
  <1> QED
    BY <1>1, <1>14, <1>15 DEF n

\* A walk from the first Node on shows all Nodes in order, and of each edge and
\* Run that belongs to one.
LEMMA WalkIsComplete ==
    ASSUME NEW graph, IsNumbered(graph), NEW walk, IsWalk(graph, walk, 0),
           \A e \in graph.edges : \E i \in 1..Len(graph.nodes) :
              e.target = graph.nodes[i].sha,
           \A r \in graph.activeRuns : \E i \in 1..Len(graph.nodes) :
              runs[r].source = graph.nodes[i].sha
    PROVE  /\ FlattenSeq([k \in DOMAIN walk |-> walk[k].nodes]) = graph.nodes
           /\ UNION {walk[k].edges : k \in DOMAIN walk} = graph.edges
           /\ UNION {walk[k].activeRuns : k \in DOMAIN walk} = graph.activeRuns
  <1> DEFINE n == Len(graph.nodes)
             IsBound(N, b) ==
               /\ DOMAIN walk = 1..N
               /\ b[0] = 0 /\ b[N] = n
               /\ \A k \in 1..N : b[k - 1] <= b[k]
                                  /\ WindowShows(graph, walk[k], b[k - 1], b[k])
  <1>1. PICK E : graph.nodes \in Seq(E)
    BY DEF IsNumbered
  <1>2. n \in Nat
    BY <1>1
  <1>3. PICK N \in Nat \ {0} : \E b \in [0..N -> 0..n] : IsBound(N, b)
    BY DEF IsWalk
  <1>4. PICK b \in [0..N -> 0..n] : IsBound(N, b)
    BY <1>3
  <1>5. FlattenSeq([k \in DOMAIN walk |-> walk[k].nodes]) = graph.nodes
    <2>1. [k \in DOMAIN walk |-> walk[k].nodes]
            = [k \in 1..N |-> SubSeq(graph.nodes, b[k - 1] + 1, b[k])]
      BY <1>4 DEF WindowShows
    <2>2. FlattenSeq([k \in 1..N |-> SubSeq(graph.nodes, b[k - 1] + 1, b[k])])
            = SubSeq(graph.nodes, b[0] + 1, b[N])
      BY <1>1, <1>4, FlattenOfParts
    <2>3. SubSeq(graph.nodes, 1, n) = graph.nodes
      BY <1>1, SubSeqFull
    <2>4. b[0] + 1 = 1 /\ b[N] = n
      BY <1>4
    <2> QED
      BY <2>1, <2>2, <2>3, <2>4
  <1>6. ASSUME NEW i \in 1..n
        PROVE  \E k \in 1..N : i \in (b[k - 1] + 1)..b[k]
    <2>1. i \in Nat /\ b[0] < i /\ i <= b[N] /\ b \in [0..N -> Nat]
      BY <1>2, <1>4
    <2>2. PICK k \in 1..N : b[k - 1] < i /\ i <= b[k]
      BY <1>4, <2>1, PartOf
    <2>3. k - 1 \in 0..N /\ k \in 0..N
      OBVIOUS
    <2>4. b[k - 1] \in Nat /\ b[k] \in Nat
      BY <2>1, <2>3
    <2>5. i \in (b[k - 1] + 1)..b[k]
      BY <2>1, <2>2, <2>4
    <2> QED
      BY <2>5
  <1> HIDE DEF n
  <1>7. UNION {walk[k].edges : k \in DOMAIN walk} = graph.edges
    <2>1. \A k \in DOMAIN walk :
             walk[k].edges = EdgesInto(graph, b[k - 1], b[k])
      BY <1>4 DEF WindowShows
    <2>2. \A k \in DOMAIN walk : walk[k].edges \subseteq graph.edges
      BY <2>1 DEF EdgesInto
    <2>3. ASSUME NEW e \in graph.edges
          PROVE  \E k \in DOMAIN walk : e \in walk[k].edges
      <3>1. PICK i \in 1..n : e.target = graph.nodes[i].sha
        BY DEF n
      <3>2. PICK k \in 1..N : i \in (b[k - 1] + 1)..b[k]
        BY <1>6
      <3>3. e \in EdgesInto(graph, b[k - 1], b[k])
        BY <3>1, <3>2 DEF EdgesInto
      <3>4. k \in DOMAIN walk
        BY <1>4
      <3> QED
        BY <2>1, <3>3, <3>4
    <2> QED
      BY <2>2, <2>3
  <1>8. UNION {walk[k].activeRuns : k \in DOMAIN walk} = graph.activeRuns
    <2>1. \A k \in DOMAIN walk :
             walk[k].activeRuns = RunsOf(graph, b[k - 1], b[k])
      BY <1>4 DEF WindowShows
    <2>2. \A k \in DOMAIN walk : walk[k].activeRuns \subseteq graph.activeRuns
      BY <2>1 DEF RunsOf
    <2>3. ASSUME NEW r \in graph.activeRuns
          PROVE  \E k \in DOMAIN walk : r \in walk[k].activeRuns
      <3>1. PICK i \in 1..n : runs[r].source = graph.nodes[i].sha
        BY DEF n
      <3>2. PICK k \in 1..N : i \in (b[k - 1] + 1)..b[k]
        BY <1>6
      <3>3. r \in RunsOf(graph, b[k - 1], b[k])
        BY <3>1, <3>2 DEF RunsOf
      <3>4. k \in DOMAIN walk
        BY <1>4
      <3> QED
        BY <2>1, <3>3, <3>4
    <2> QED
      BY <2>2, <2>3
  <1> QED
    BY <1>5, <1>7, <1>8

\* Where each edge leads to a later Node than it comes from, a walk shows its
\* source before, or in the same window.
LEMMA SourceIsShown ==
    ASSUME NEW graph, IsNumbered(graph), NEW walk, IsWalk(graph, walk, 0),
           \A e \in graph.edges : \A i \in 1..Len(graph.nodes) :
              e.target = graph.nodes[i].sha =>
                \E j \in 1..(i - 1) : e.source = graph.nodes[j].sha
    PROVE  \A k \in DOMAIN walk : \A e \in walk[k].edges :
              \E j \in 1..k : e.source \in {walk[j].nodes[x].sha :
                                              x \in DOMAIN walk[j].nodes}
  <1> DEFINE n == Len(graph.nodes)
             IsBound(N, b) ==
               /\ DOMAIN walk = 1..N
               /\ b[0] = 0 /\ b[N] = n
               /\ \A k \in 1..N : b[k - 1] <= b[k]
                                  /\ WindowShows(graph, walk[k], b[k - 1], b[k])
  <1>1. PICK E : graph.nodes \in Seq(E)
    BY DEF IsNumbered
  <1>2. n \in Nat
    BY <1>1
  <1>3. PICK N \in Nat \ {0} : \E b \in [0..N -> 0..n] : IsBound(N, b)
    BY DEF IsWalk
  <1>4. PICK b \in [0..N -> 0..n] : IsBound(N, b)
    BY <1>3
  <1> DEFINE shown(j) == {walk[j].nodes[m].sha : m \in DOMAIN walk[j].nodes}
  <1>5. SUFFICES \A k \in 1..N : \A e \in walk[k].edges :
                   \E j \in 1..k : e.source \in shown(j)
    <2>1. ASSUME NEW k \in DOMAIN walk, NEW e \in walk[k].edges
          PROVE  \E j \in 1..k : e.source \in shown(j)
      <3>1. DOMAIN walk = 1..N
        BY <1>4
      <3> HIDE DEF IsBound, shown
      <3> QED
        BY <3>1
    <2> QED
      BY <2>1, Zenon
  <1> SUFFICES ASSUME NEW k \in 1..N, NEW e \in walk[k].edges
               PROVE  \E j \in 1..k : e.source \in shown(j)
    OBVIOUS
  <1> HIDE DEF n
  <1>6. k - 1 \in 0..N /\ k \in 0..N
    OBVIOUS
  <1>7. PICK i \in (b[k - 1] + 1)..b[k] : /\ e \in graph.edges
                                          /\ e.target = graph.nodes[i].sha
    <2>1. walk[k].edges = EdgesInto(graph, b[k - 1], b[k])
      BY <1>4 DEF WindowShows
    <2> HIDE DEF IsBound
    <2> QED
      BY <2>1 DEF EdgesInto
  <1>8. i \in 1..n /\ i <= b[k]
    <2>1. b[k - 1] \in 0..n /\ b[k] \in 0..n
      BY <1>4, <1>6
    <2> QED
      BY <1>2, <1>7, <2>1
  <1>9. PICK p \in 1..(i - 1) : e.source = graph.nodes[p].sha
    BY <1>7, <1>8 DEF n
  <1>10. p \in Nat /\ b[0] < p /\ p <= b[N] /\ p <= b[k]
         /\ b \in [0..N -> Nat]
    <2>1. b[k] \in 0..n /\ b[0] = 0 /\ b[N] = n
      BY <1>4, <1>6
    <2>2. b \in [0..N -> Nat]
      BY <1>2, <1>4
    <2> QED
      BY <1>2, <1>8, <1>9, <2>1, <2>2
  <1>11. PICK j \in 1..N : /\ b[j - 1] < p /\ p <= b[j]
                           /\ \A m \in 0..N : p <= b[m] => j <= m
    <2>1. \A m \in 1..N : b[m - 1] <= b[m]
      BY <1>4
    <2>2. N \in Nat
      OBVIOUS
    <2> QED
      BY <1>10, <2>1, <2>2, PartOf
  <1>12. j \in 1..k
    BY <1>6, <1>10, <1>11
  <1>13. walk[j].nodes = SubSeq(graph.nodes, b[j - 1] + 1, b[j])
    BY <1>4 DEF WindowShows
  <1> DEFINE from == b[j - 1]
             to == b[j]
             x == p - from
  <1>14. from \in Nat /\ to \in Nat /\ to <= n /\ from < p /\ p <= to
    <2>1. j - 1 \in 0..N /\ j \in 0..N
      OBVIOUS
    <2>2. b[j - 1] \in 0..n /\ b[j] \in 0..n
      BY <1>4, <2>1
    <2> QED
      BY <1>2, <1>11, <2>2
  <1> HIDE DEF from, to
  <1>15. /\ x \in DOMAIN SubSeq(graph.nodes, from + 1, to)
         /\ SubSeq(graph.nodes, from + 1, to)[x] = graph.nodes[p]
    <2>1. from <= to /\ to <= Len(graph.nodes)
      BY <1>14 DEF n
    <2>2. x \in 1..(to - from) /\ from + x = p
      BY <1>10, <1>14
    <2>3. IsPart(SubSeq(graph.nodes, from + 1, to), graph.nodes, from, to)
      BY <1>1, <1>14, <2>1, PartOfList
    <2> HIDE DEF x
    <2> QED
      BY <2>2, <2>3, Zenon DEF IsPart
  <1>16. x \in DOMAIN walk[j].nodes /\ walk[j].nodes[x] = graph.nodes[p]
    BY <1>13, <1>15 DEF from, to
  <1> HIDE DEF x
  <1>17. e.source \in shown(j)
    BY <1>9, <1>16
  <1> HIDE DEF shown
  <1> QED
    BY <1>12, <1>17

-----------------------------------------------------------------------------
(* The Nodes and the Runs that a graph is made of *)

\* What Before stands for, of Nodes: which was registered first.
NewNodesAreLast ==
    \A n \in nodes' \ nodes :
       ~ Before(n, n) /\ \A m \in nodes : Before(m, n) /\ ~ Before(n, m)
NodesInOrder == [][NewNodesAreLast]_vars

\* A Run's source is a Node of its Project.
SourcesRegistered ==
    \A r \in RunId : runs[r] # None => HasNode(runs[r].project, runs[r].source)

\* Nodes are in order, parents first.
ParentsFirst ==
    /\ Ordered(nodes)
    /\ \A m, n \in nodes :
         n.kind # "root" /\ m.project = n.project /\ m.sha = n.parent =>
           Before(m, n)

\* What the windows of the graph rest on besides.
GraphInv == IsFiniteSet(nodes) /\ SourcesRegistered /\ ParentsFirst

\* No command moves a Run, and a Run starts at a Node.
LEMMA SourcesStayRegistered ==
    ASSUME TypeOK, TypeOK', SourcesRegistered, [Next]_vars,
           nodes \subseteq nodes'
    PROVE  SourcesRegistered'
  <1> DEFINE Later(run) == \E n \in nodes' : /\ n.project = run.project
                                            /\ n.sha = run.source
  <1>1. \A r \in RunId : runs[r] # None => Later(runs[r])
    BY DEF SourcesRegistered, HasNode
  <1>2. SUFFICES \A r \in RunId : runs'[r] # None => Later(runs'[r])
    BY DEF SourcesRegistered, HasNode
  <1>3. CASE \A r \in RunId : ~ RunCommand(r)
    <2>1. runs' = runs
      BY <1>3, OthersKeepRuns
    <2> HIDE DEF Later
    <2> QED
      BY <1>1, <2>1
  <1>4. CASE \E r \in RunId : RunCommand(r)
    <2>1. PICK u \in RunId : RunCommand(u)
      BY <1>4
    <2>2. \A r \in RunId \ {u} : runs'[r] = runs[r]
      BY <2>1, RunCommandIsLocal
    <2> DEFINE Stays == /\ runs[u] # None
                        /\ runs'[u].project = runs[u].project
                        /\ runs'[u].source = runs[u].source
    <2>3. ASSUME NEW p \in Project, NEW s \in Sha, NEW g \in Goal,
                 StartRun(u, p, s, g)
          PROVE  Later(runs'[u])
      <3>1. runs'[u].project = p /\ runs'[u].source = s /\ HasNode(p, s)
        BY <2>3 DEF StartRun, TypeOK
      <3> QED
        BY <3>1 DEF HasNode
    <2>4. ASSUME NEW s \in Sha, NEW t \in Tree, NEW plan \in Plan,
                 CompleteRun(u, s, t, plan)
          PROVE  Stays
      <3>1. IsRunning(u) /\ runs[u] # None
        BY <2>4 DEF CompleteRun, ResultValid, IsRunning
      <3>2. runs'[u] = [runs[u] EXCEPT !.status = "completed", !.result = s]
        BY <2>4 DEF CompleteRun, TypeOK
      <3>3. runs[u] \in Run
        BY <3>1, RunEnds
      <3> QED
        BY <3>1, <3>2, <3>3 DEF Run
    <2>5. ASSUME FailRun(u) \/ CancelRun(u)
          PROVE  Stays
      <3>1. IsRunning(u) /\ runs[u] # None
        BY <2>5 DEF FailRun, CancelRun, IsRunning
      <3>2. \/ runs'[u] = [runs[u] EXCEPT !.status = "failed"]
            \/ runs'[u] = [runs[u] EXCEPT !.status = "canceled"]
        BY <2>5 DEF FailRun, CancelRun, TypeOK
      <3>3. runs[u] \in Run
        BY <3>1, RunEnds
      <3> QED
        BY <3>1, <3>2, <3>3 DEF Run
    <2>6. CASE \/ \E k \in CheckpointId : CheckpointRun(k, u)
               \/ \E e \in EvidenceId, target \in Criterion \cup {None} :
                    AttachRunEvidence(e, u, target)
      <3>1. runs' = runs
        BY <2>6 DEF CheckpointRun, AttachRunEvidence
      <3> HIDE DEF Later
      <3> QED
        BY <1>1, <3>1
    <2>7. Stays => Later(runs'[u])
      BY <1>1
    <2>8. Later(runs'[u]) => \A r \in RunId : runs'[r] # None => Later(runs'[r])
      <3> HIDE DEF Later
      <3> QED
        BY <1>1, <2>2
    <2> HIDE DEF Later, Stays
    <2> QED
      BY <2>1, <2>3, <2>4, <2>5, <2>6, <2>7, <2>8 DEF RunCommand
  <1> QED
    BY <1>3, <1>4

\* A Node that is registered after all others keeps them in order.
LEMMA ParentsStayFirst ==
    ASSUME ParentsFirst, NodeGraphValid, NEW n, nodes' = nodes \cup {n},
           n \notin nodes, ~ HasNode(n.project, n.sha),
           n.kind # "root" => HasNode(n.project, n.parent),
           ~ Before(n, n),
           \A m \in nodes : Before(m, n) /\ ~ Before(n, m)
    PROVE  ParentsFirst'
  <1>1. Ordered(nodes')
    BY DEF ParentsFirst, Ordered
  <1>2. ASSUME NEW m \in nodes', NEW k \in nodes', k.kind # "root",
               m.project = k.project, m.sha = k.parent
        PROVE  Before(m, k)
    <2>1. CASE m \in nodes /\ k \in nodes
      BY <1>2, <2>1 DEF ParentsFirst
    <2>2. CASE m \in nodes /\ k = n
      BY <2>2
    <2>3. CASE m = n
      <3>1. k \in nodes => HasNode(k.project, k.parent)
        BY <1>2 DEF NodeGraphValid, ParentsRegistered
      <3>2. HasNode(k.project, k.parent)
        BY <1>2, <3>1
      <3> QED
        BY <1>2, <2>3, <3>2
    <2> QED
      BY <2>1, <2>2, <2>3
  <1> QED
    BY <1>1, <1>2 DEF ParentsFirst, Ordered

\* A step that registers Nodes in order keeps what the graph rests on.
LEMMA GraphInductive ==
    ASSUME TreeInv, TreeInv', GraphInv, [Next]_vars, NewNodesAreLast
    PROVE  GraphInv'
  <1>1. Changes
    BY EveryStepChanges DEF TreeInv
  <1>2. CASE nodes' = nodes
    <2>1. SourcesRegistered'
      BY <1>2, SourcesStayRegistered DEF TreeInv, GraphInv
    <2> QED
      BY <1>2, <2>1 DEF GraphInv, ParentsFirst, Ordered
  <1>3. CASE nodes' # nodes
    <2>1. PICK n : /\ nodes' = nodes \cup {n}
                   /\ n.kind # "root" => HasNode(n.project, n.parent)
      BY <1>1, <1>3, OneMoreNode
    <2>2. n \in nodes' \ nodes
      BY <1>3, <2>1
    <2>3. ~ HasNode(n.project, n.sha)
      <3> SUFFICES ASSUME HasNode(n.project, n.sha) PROVE FALSE
        OBVIOUS
      <3>1. PICK m \in nodes : m.project = n.project /\ m.sha = n.sha
        BY DEF HasNode
      <3>2. m \in nodes' /\ n \in nodes' /\ m # n
        BY <2>1, <2>2
      <3> QED
        BY <3>1, <3>2 DEF TreeInv, NodeGraphValid, NodesUnique
    <2>4. ParentsFirst'
      BY <2>1, <2>2, <2>3, ParentsStayFirst
         DEF TreeInv, GraphInv, NewNodesAreLast
    <2>5. SourcesRegistered'
      BY <2>1, SourcesStayRegistered DEF TreeInv, GraphInv
    <2>6. IsFiniteSet(nodes')
      BY <2>1, FS_AddElement DEF GraphInv
    <2> QED
      BY <2>4, <2>5, <2>6 DEF GraphInv
  <1> QED
    BY <1>2, <1>3

\* The Nodes of a Project are finite in number and stand in the order in which
\* they were registered.
LEMMA ProjectIsOrdered ==
    ASSUME GraphInv, NEW p, NEW S, S = {n \in nodes : n.project = p}
    PROVE  IsFiniteSet(S) /\ Ordered(S)
  <1>1. S \in SUBSET nodes
    OBVIOUS
  <1> QED
    BY <1>1, FS_Subset DEF GraphInv, ParentsFirst, Ordered

\* Each Node of a Project has its place, and its parent an earlier one.
LEMMA NodesHavePlaces ==
    ASSUME TreeInv, GraphInv, NEW p \in Project
    PROVE  /\ IsNumbered(Graph(p))
           /\ \A n \in nodes : n.project = p =>
                \E i \in 1..Len(Graph(p).nodes) : Graph(p).nodes[i].sha = n.sha
           /\ \A n \in nodes : n.project = p /\ n.kind # "root" =>
                \A i \in 1..Len(Graph(p).nodes) :
                  Graph(p).nodes[i].sha = n.sha =>
                    \E j \in 1..(i - 1) : Graph(p).nodes[j].sha = n.parent
  <1> DEFINE S == {n \in nodes : n.project = p}
             order == InOrder(S)
             N == Cardinality(S)
  <1>1. IsFiniteSet(S) /\ Ordered(S)
    BY ProjectIsOrdered
  <1>2. /\ \E E : Graph(p).nodes \in Seq(E)
        /\ Len(Graph(p).nodes) = N /\ N \in Nat
        /\ \A i \in 1..N : /\ Graph(p).nodes[i].sha = order[i].sha
                           /\ Graph(p).nodes[i].ordinal = i - 1
    BY <1>1, GraphIsListed
  <1>3. /\ \A i \in 1..N : order[i] \in S
        /\ \A x \in S : \E i \in 1..N : order[i] = x
        /\ \A i, j \in 1..N : Before(order[i], order[j]) => i < j
    <2> HIDE DEF S
    <2> QED
      BY <1>1, InOrderLists
  <1>4. IsNumbered(Graph(p))
    BY <1>2 DEF IsNumbered
  <1> HIDE DEF N, order
  <1>5. ASSUME NEW n \in nodes, n.project = p
        PROVE  \E i \in 1..N : Graph(p).nodes[i].sha = n.sha
    BY <1>2, <1>3, <1>5
  <1>6. ASSUME NEW n \in nodes, n.project = p, n.kind # "root",
               NEW i \in 1..N, Graph(p).nodes[i].sha = n.sha
        PROVE  \E j \in 1..(i - 1) : Graph(p).nodes[j].sha = n.parent
    <2>1. order[i] \in nodes /\ order[i].project = p /\ order[i].sha = n.sha
      BY <1>2, <1>3, <1>6
    <2>2. order[i] = n
      BY <1>6, <2>1 DEF TreeInv, NodeGraphValid, NodesUnique
    <2>3. PICK m \in nodes : m.project = p /\ m.sha = n.parent
      BY <1>6 DEF TreeInv, NodeGraphValid, ParentsRegistered, HasNode
    <2>4. Before(m, n)
      BY <1>6, <2>3 DEF GraphInv, ParentsFirst
    <2>5. PICK j \in 1..N : order[j] = m
      BY <1>3, <2>3
    <2>6. j < i
      BY <1>3, <2>2, <2>4, <2>5
    <2>7. j \in 1..(i - 1) /\ Graph(p).nodes[j].sha = n.parent
      BY <1>2, <2>3, <2>5, <2>6
    <2> QED
      BY <2>7
  <1> QED
    BY <1>2, <1>4, <1>5, <1>6

\* The windows of every Project's graph show all of it.
LEMMA GraphsAreShown ==
    ASSUME TreeInv, GraphInv
    PROVE  GraphWalkShowsAll
  <1> SUFFICES ASSUME NEW p \in Project, rootSha[p] # None,
                      NEW limit \in 1..GRAPH_PAGE_SIZE
               PROVE  LET graph == Graph(p)
                          pages == Computed([k \in DOMAIN graph.leaves |->
                                               GraphPage(graph, k - 1)])
                          walk == GraphWalk(pages, Len(graph.nodes), limit)
                          shown(k) == {walk[k].nodes[j].sha :
                                         j \in DOMAIN walk[k].nodes}
                      IN
                      /\ FlattenSeq([k \in DOMAIN walk |-> walk[k].nodes])
                           = graph.nodes
                      /\ UNION {walk[k].edges : k \in DOMAIN walk}
                           = graph.edges
                      /\ UNION {walk[k].activeRuns : k \in DOMAIN walk}
                           = graph.activeRuns
                      /\ \A k \in DOMAIN walk : \A e \in walk[k].edges :
                           \E j \in 1..k : e.source \in shown(j)
    BY Zenon DEF GraphWalkShowsAll
  <1> DEFINE S == {n \in nodes : n.project = p}
             graph == Graph(p)
             N == Pages(Cardinality(S), GRAPH_PAGE_SIZE)
             listed == [k \in DOMAIN graph.leaves |-> GraphPage(graph, k - 1)]
             pages == Computed(listed)
             walk == GraphWalk(pages, Len(graph.nodes), limit)
  <1>1. IsFiniteSet(S) /\ Cardinality(S) \in Nat
    BY ProjectIsOrdered, FS_CardinalityType
  <1>2. /\ Len(graph.nodes) = Cardinality(S)
        /\ graph.edges = GraphEdges(p) /\ graph.activeRuns = ActiveRuns(p)
        /\ DOMAIN graph.leaves = 1..N
    BY <1>1, GraphIsListed
  <1>3. /\ IsNumbered(graph)
        /\ \A n \in S : \E i \in 1..Len(graph.nodes) :
             graph.nodes[i].sha = n.sha
        /\ \A n \in S : n.kind # "root" =>
             \A i \in 1..Len(graph.nodes) : graph.nodes[i].sha = n.sha =>
               \E j \in 1..(i - 1) : graph.nodes[j].sha = n.parent
    BY NodesHavePlaces
  <1>4. limit \in Nat \ {0}
    BY GraphPageSizeIsPositive
  <1>5. Len(graph.nodes) > 0
    <2>1. PICK n \in S : TRUE
      BY DEF TreeInv, NodeGraphValid, RootsDeclared
    <2>2. PICK i \in 1..Len(graph.nodes) : graph.nodes[i].sha = n.sha
      BY <1>3
    <2>3. Len(graph.nodes) \in Nat
      BY <1>1, <1>2
    <2> QED
      BY <2>2, <2>3
  <1>6. \A e \in graph.edges : \E n \in S :
           n.kind # "root" /\ e.source = n.parent /\ e.target = n.sha
    <2>1. \A e \in GraphEdges(p) : \E n \in S :
             n.kind # "root" /\ e.source = n.parent /\ e.target = n.sha
      BY DEF GraphEdges
    <2> QED
      BY <1>2, <2>1
  <1>7. \A r \in graph.activeRuns : \E n \in S : runs[r].source = n.sha
    <2>1. \A r \in ActiveRuns(p) : \E n \in S : runs[r].source = n.sha
      BY DEF ActiveRuns, IsRunning, GraphInv, SourcesRegistered, HasNode
    <2> QED
      BY <1>2, <2>1
  <1> HIDE DEF graph, S
  <1>8. IsPaged(pages, graph)
    <2>1. N \in Nat
      <3>1. Cardinality(S) + GRAPH_PAGE_SIZE - 1 \in Nat
        BY <1>1, GraphPageSizeIsPositive
      <3> QED
        BY <3>1, GraphPageSizeIsPositive, Quotient DEF Pages
    <2>2. listed = [k \in 1..N |-> listed[k]]
          /\ \A k \in 1..N : listed[k] = GraphPage(graph, k - 1)
      BY <1>2
    <2> HIDE DEF listed
    <2>3. listed \in Seq({listed[k] : k \in 1..N}) /\ DOMAIN listed = 1..N
      <3> HIDE DEF N
      <3> QED
        BY <2>1, <2>2, ListIsSequence
    <2>4. pages = listed
      BY <2>3, ComputedIsSame
    <2> HIDE DEF pages
    <2> QED
      BY <1>2, <2>2, <2>3, <2>4 DEF IsPaged
  <1> HIDE DEF pages
  <1>9. IsWalk(graph, walk, 0)
    BY <1>3, <1>4, <1>5, <1>8, GraphWalkIsWalk
  <1> HIDE DEF walk
  <1>10. /\ FlattenSeq([k \in DOMAIN walk |-> walk[k].nodes]) = graph.nodes
         /\ UNION {walk[k].edges : k \in DOMAIN walk} = graph.edges
         /\ UNION {walk[k].activeRuns : k \in DOMAIN walk} = graph.activeRuns
    <2>1. /\ \A e \in graph.edges : \E i \in 1..Len(graph.nodes) :
               e.target = graph.nodes[i].sha
          /\ \A r \in graph.activeRuns : \E i \in 1..Len(graph.nodes) :
               runs[r].source = graph.nodes[i].sha
      BY <1>3, <1>6, <1>7
    <2> QED
      BY <1>3, <1>9, <2>1, WalkIsComplete
  <1>11. \A k \in DOMAIN walk : \A e \in walk[k].edges :
            \E j \in 1..k : e.source \in {walk[j].nodes[x].sha :
                                            x \in DOMAIN walk[j].nodes}
    <2>1. \A e \in graph.edges : \A i \in 1..Len(graph.nodes) :
             e.target = graph.nodes[i].sha =>
               \E j \in 1..(i - 1) : e.source = graph.nodes[j].sha
      <3> SUFFICES ASSUME NEW e \in graph.edges, NEW i \in 1..Len(graph.nodes),
                          e.target = graph.nodes[i].sha
                   PROVE  \E j \in 1..(i - 1) : e.source = graph.nodes[j].sha
        OBVIOUS
      <3>1. PICK n \in S : n.kind # "root" /\ e.source = n.parent
                           /\ e.target = n.sha
        BY <1>6
      <3>2. PICK j \in 1..(i - 1) : graph.nodes[j].sha = n.parent
        BY <1>3, <3>1
      <3> QED
        BY <3>1, <3>2
    <2> QED
      BY <1>3, <1>9, <2>1, SourceIsShown
  <1> QED
    BY <1>10, <1>11, Zenon DEF walk, pages, listed, graph

\* What a Project's graph rests on is so from the first state on, if every Node
\* is recorded after those that were registered before it.
LEMMA GraphInvariant == Spec /\ NodesInOrder => []GraphInv
  <1>1. Init => GraphInv
    BY FS_EmptySet DEF Init, GraphInv, SourcesRegistered, ParentsFirst, Ordered
  <1>2. TreeInv /\ TreeInv' /\ GraphInv /\ [Next]_vars
        /\ [NewNodesAreLast]_vars
        => GraphInv'
    <2> SUFFICES ASSUME TreeInv, TreeInv', GraphInv, [Next]_vars,
                        [NewNodesAreLast]_vars
                 PROVE  GraphInv'
      OBVIOUS
    <2>1. CASE UNCHANGED vars
      BY <2>1 DEF vars, GraphInv, SourcesRegistered, HasNode, ParentsFirst,
                  Ordered
    <2>2. CASE ~ UNCHANGED vars
      BY <2>2, GraphInductive
    <2> QED
      BY <2>1, <2>2
  <1> QED
    BY <1>1, <1>2, TreeInvariant, PTL DEF Spec, NodesInOrder

\* A client that follows the cursors of a Project's graph, of any activity of a
\* Node, or of a filtered event list, is shown all there is, in the order in
\* which it was recorded: of the graph every Node once, and every edge with a
\* source that was shown.
THEOREM WindowsAreComplete == Spec /\ NodesInOrder => []WindowsShowAll
  <1>1. EventWalkFindsAll /\ TreeInv /\ GraphInv /\ StateIsFinite
        => WindowsShowAll
    BY GraphsAreShown, ActivityListsAreShown DEF WindowsShowAll
  <1> QED
    BY <1>1, EventListsAreComplete, TreeInvariant, GraphInvariant,
       RecordsStayFinite, PTL

-----------------------------------------------------------------------------
(* Commitments: what is committed to can be proven, and nothing else *)

\* Half of what is more than one is less, and at least one.
LEMMA HalfUpIsLess ==
    ASSUME NEW n \in Nat
    PROVE  /\ HalfUp(n) \in Nat
           /\ n > 1 => HalfUp(n) \in 1..(n - 1)
           /\ \A i \in 0..(n - 1) : i \div 2 \in 0..(HalfUp(n) - 1)
  BY DEF HalfUp

\* The depth of a tree is that of the next level and one.
LEMMA DepthIsDefined ==
    ASSUME NEW n \in Nat
    PROVE  \E d \in [0..n -> Nat] :
             /\ Depth(n) = d[n]
             /\ \A m \in 0..n :
                  d[m] = IF m <= 1 THEN 0 ELSE d[HalfUp(m)] + 1
  <1> DEFINE D == 0..n
             ends == {m \in D : m <= 1}
             first == [m \in D |-> 0]
             next == [m \in D |-> IF m <= 1 THEN m ELSE HalfUp(m)]
             op == [x \in D \X Nat |-> x[2] + 1]
             rank == [m \in D |-> m]
             Equation(f) ==
               f = [m \in D |-> IF m <= 1 THEN 0 ELSE f[HalfUp(m)] + 1]
  <1>1. \A m \in D : m \notin ends => next[m] \in D /\ rank[next[m]] < rank[m]
    <2> SUFFICES ASSUME NEW m \in D, m > 1
                 PROVE  next[m] \in D /\ rank[next[m]] < rank[m]
      OBVIOUS
    <2>1. HalfUp(m) \in 1..(m - 1)
      BY HalfUpIsLess
    <2>2. HalfUp(m) \in D /\ HalfUp(m) < m /\ next[m] = HalfUp(m)
      BY <2>1
    <2> QED
      BY <2>2
  <1>2. PICK f \in [D -> Nat] : IsRecursive(f, D, ends, first, next, op)
    <2>1. op \in [D \X Nat -> Nat] /\ rank \in [D -> 0..n]
      OBVIOUS
    <2>2. \A m \in D : m \in ends => first[m] \in Nat
      OBVIOUS
    <2> HIDE DEF D, ends, first, next, op, rank
    <2> QED
      BY <1>1, <2>1, <2>2, RecursionIsDefined
  <1>3. \A m \in D : f[m] = IF m <= 1 THEN 0 ELSE f[HalfUp(m)] + 1
    <2> SUFFICES ASSUME NEW m \in D
                 PROVE  f[m] = IF m <= 1 THEN 0 ELSE f[HalfUp(m)] + 1
      OBVIOUS
    <2>1. f[m] = IF m \in ends THEN first[m] ELSE op[<<m, f[next[m]]>>]
      BY <1>2 DEF IsRecursive
    <2>2. CASE m <= 1
      BY <2>1, <2>2
    <2>3. CASE m > 1
      <3>1. next[m] = HalfUp(m) /\ next[m] \in D /\ m \notin ends
        <4>1. next[m] = HalfUp(m) /\ m \notin ends
          BY <2>3
        <4> HIDE DEF D, ends, next
        <4> QED
          BY <1>1, <4>1
      <3>2. op[<<m, f[next[m]]>>] = f[next[m]] + 1
        BY <3>1
      <3> QED
        BY <2>1, <2>3, <3>1, <3>2
    <2> QED
      BY <2>2, <2>3
  <1>4. Equation(f)
    BY <1>3
  <1> DEFINE d == CHOOSE g : Equation(g)
  <1>5. Equation(d)
    BY <1>4, Zenon
  <1>6. Depth(n) = d[n]
    BY DEF Depth
  <1> HIDE DEF d
  <1>7. DOMAIN d = D
    BY <1>5
  <1>8. \A m \in D : d[m] = IF m <= 1 THEN 0 ELSE d[HalfUp(m)] + 1
    BY <1>5
  <1> DEFINE G == {m \in D : d[m] = f[m]}
  <1>9. ASSUME NEW m \in D, \A k \in D : rank[k] < rank[m] => k \in G
        PROVE  m \in G
    <2>1. CASE m <= 1
      BY <1>3, <1>8, <2>1
    <2>2. CASE m > 1
      <3>1. HalfUp(m) \in D /\ rank[HalfUp(m)] < rank[m]
        BY <1>1, <2>2
      <3>2. d[HalfUp(m)] = f[HalfUp(m)]
        BY <1>9, <3>1
      <3> QED
        BY <1>3, <1>8, <2>2, <3>2
    <2> QED
      BY <2>1, <2>2
  <1>10. D \subseteq G
    <2>1. rank \in [D -> Nat]
      OBVIOUS
    <2> HIDE DEF D, G, rank
    <2> QED
      BY <1>9, <2>1, RankInduction
  <1>11. d \in [D -> Nat]
    <2>1. \A m \in D : d[m] \in Nat
      BY <1>10
    <2>2. d = [m \in D |-> d[m]]
      BY <1>5
    <2> QED
      BY <2>1, <2>2
  <1> QED
    BY <1>6, <1>8, <1>11

\* Every level of a tree follows from the one below it.
LEMMA LevelsAreDefined ==
    ASSUME NEW leaves, NEW N \in Nat, N = Depth(Len(leaves))
    PROVE  /\ Levels(leaves)[0] = leaves
           /\ \A k \in 1..N :
                Levels(leaves)[k] = NextLevel(Levels(leaves)[k - 1])
  <1> DEFINE Equation(f, n) ==
               f = [k \in 0..n |-> IF k = 0 THEN leaves
                                   ELSE NextLevel(f[k - 1])]
             D == Nat
             G == {n \in D : \E f : Equation(f, n)}
             rank == [n \in D |-> n]
  <1>1. ASSUME NEW n \in D, \A m \in D : rank[m] < rank[n] => m \in G
        PROVE  n \in G
    <2>1. CASE n = 0
      <3> DEFINE f == [k \in 0..0 |-> leaves]
      <3>1. Equation(f, 0)
        OBVIOUS
      <3> QED
        BY <2>1, <3>1
    <2>2. CASE n # 0
      <3>1. n - 1 \in Nat /\ rank[n - 1] < rank[n]
        BY <2>2
      <3>2. PICK f : Equation(f, n - 1)
        BY <1>1, <3>1
      <3> DEFINE g == [k \in 0..n |-> IF k = 0 THEN leaves
                                      ELSE NextLevel(f[k - 1])]
      <3>3. \A k \in 0..n : k # 0 => k - 1 \in 0..n /\ g[k - 1] = f[k - 1]
        <4> SUFFICES ASSUME NEW k \in 0..n, k # 0
                     PROVE  k - 1 \in 0..n /\ g[k - 1] = f[k - 1]
          OBVIOUS
        <4>1. k - 1 \in 0..(n - 1) /\ k - 1 \in 0..n
          OBVIOUS
        <4>2. f[k - 1] = IF k - 1 = 0 THEN leaves
                         ELSE NextLevel(f[k - 1 - 1])
          BY <3>2, <4>1
        <4>3. g[k - 1] = IF k - 1 = 0 THEN leaves
                         ELSE NextLevel(f[k - 1 - 1])
          BY <4>1
        <4> QED
          BY <4>1, <4>2, <4>3
      <3>4. Equation(g, n)
        <4>1. \A k \in 0..n : (IF k = 0 THEN leaves ELSE NextLevel(f[k - 1]))
                 = (IF k = 0 THEN leaves ELSE NextLevel(g[k - 1]))
          BY <3>3, Zenon
        <4> QED
          BY <4>1, Zenon
      <3> HIDE DEF g
      <3> QED
        BY <3>4
    <2> QED
      BY <2>1, <2>2
  <1>2. D \subseteq G
    <2>1. rank \in [D -> Nat]
      OBVIOUS
    <2> HIDE DEF D, G, rank
    <2> QED
      BY <1>1, <2>1, RankInduction
  <1>3. \E f : Equation(f, N)
    BY <1>2
  <1> DEFINE level == CHOOSE f : Equation(f, N)
  <1>4. Equation(level, N)
    BY <1>3, Zenon
  <1>5. Levels(leaves) = level
    BY DEF Levels
  <1> HIDE DEF level
  <1>6. level[0] = leaves
    BY <1>4
  <1>7. \A k \in 1..N : level[k] = NextLevel(level[k - 1])
    BY <1>4
  <1> QED
    BY <1>5, <1>6, <1>7

\* On the level above, the place of a digest is half of what it was.
LEMMA PathIsDefined ==
    ASSUME NEW leaf \in Nat, NEW N \in Nat
    PROVE  /\ PathOf(leaf, N)[0] = leaf
           /\ \A k \in 1..N : PathOf(leaf, N)[k] = PathOf(leaf, N)[k - 1] \div 2
  <1> DEFINE D == 0..N
             ends == {0}
             first == [k \in D |-> leaf]
             next == [k \in D |-> k - 1]
             op == [x \in D \X Nat |-> x[2] \div 2]
             rank == [k \in D |-> k]
             Equation(f) ==
               f = [k \in D |-> IF k = 0 THEN leaf ELSE f[k - 1] \div 2]
  <1>1. PICK f \in [D -> Nat] : IsRecursive(f, D, ends, first, next, op)
    <2>1. op \in [D \X Nat -> Nat] /\ rank \in [D -> 0..N]
      OBVIOUS
    <2>2. \A k \in D : k \in ends => first[k] \in Nat
      OBVIOUS
    <2>3. \A k \in D : k \notin ends =>
             next[k] \in D /\ rank[next[k]] < rank[k]
      OBVIOUS
    <2> HIDE DEF D, ends, first, next, op, rank
    <2> QED
      BY <2>1, <2>2, <2>3, RecursionIsDefined
  <1>2. \A k \in D : f[k] = IF k = 0 THEN leaf ELSE f[k - 1] \div 2
    <2> SUFFICES ASSUME NEW k \in D
                 PROVE  f[k] = IF k = 0 THEN leaf ELSE f[k - 1] \div 2
      OBVIOUS
    <2>1. f[k] = IF k \in ends THEN first[k] ELSE op[<<k, f[next[k]]>>]
      BY <1>1 DEF IsRecursive
    <2>2. CASE k = 0
      BY <2>1, <2>2
    <2>3. CASE k # 0
      <3>1. next[k] = k - 1 /\ k - 1 \in D
        BY <2>3
      <3>2. op[<<k, f[k - 1]>>] = f[k - 1] \div 2
        BY <3>1
      <3> QED
        BY <2>1, <2>3, <3>1, <3>2
    <2> QED
      BY <2>2, <2>3
  <1>3. Equation(f)
    BY <1>2
  <1> DEFINE at == CHOOSE g : Equation(g)
  <1>4. Equation(at)
    BY <1>3, Zenon
  <1>5. PathOf(leaf, N) = at
    BY DEF PathOf
  <1> HIDE DEF at
  <1>6. at[0] = leaf /\ \A k \in 1..N : at[k] = at[k - 1] \div 2
    BY <1>4
  <1> QED
    BY <1>5, <1>6

\* What a verifier has after one more sibling.
Climbed(below, sibling) ==
    [digest |-> IF below.index % 2 = 1
                THEN BranchDigest(sibling.digest, below.digest)
                ELSE BranchDigest(below.digest, sibling.digest),
     index |-> below.index \div 2,
     count |-> HalfUp(below.count)]

\* A verifier climbs from level to level.
LEMMA ClimbIsDefined ==
    ASSUME NEW digest, NEW leaf, NEW count, NEW siblings, NEW N \in Nat,
           N = Len(siblings)
    PROVE  /\ Climb(digest, leaf, count, siblings)[0] =
                [digest |-> digest, index |-> leaf, count |-> count]
           /\ \A k \in 1..N : Climb(digest, leaf, count, siblings)[k] =
                Climbed(Climb(digest, leaf, count, siblings)[k - 1],
                        siblings[k])
  <1> DEFINE start == [digest |-> digest, index |-> leaf, count |-> count]
             Equation(f, n) ==
               f = [k \in 0..n |-> IF k = 0 THEN start
                                   ELSE Climbed(f[k - 1], siblings[k])]
             D == Nat
             G == {n \in D : \E f : Equation(f, n)}
             rank == [n \in D |-> n]
  <1> HIDE DEF start
  <1>1. ASSUME NEW n \in D, \A m \in D : rank[m] < rank[n] => m \in G
        PROVE  n \in G
    <2>1. CASE n = 0
      <3> DEFINE f == [k \in 0..0 |-> start]
      <3>1. Equation(f, 0)
        OBVIOUS
      <3> QED
        BY <2>1, <3>1
    <2>2. CASE n # 0
      <3>1. n - 1 \in Nat /\ rank[n - 1] < rank[n]
        BY <2>2
      <3>2. PICK f : Equation(f, n - 1)
        BY <1>1, <3>1
      <3> DEFINE g == [k \in 0..n |-> IF k = 0 THEN start
                                      ELSE Climbed(f[k - 1], siblings[k])]
      <3>3. \A k \in 0..n : k # 0 => k - 1 \in 0..n /\ g[k - 1] = f[k - 1]
        <4> SUFFICES ASSUME NEW k \in 0..n, k # 0
                     PROVE  k - 1 \in 0..n /\ g[k - 1] = f[k - 1]
          OBVIOUS
        <4>1. k - 1 \in 0..(n - 1) /\ k - 1 \in 0..n
          OBVIOUS
        <4>2. f[k - 1] = IF k - 1 = 0 THEN start
                         ELSE Climbed(f[k - 1 - 1], siblings[k - 1])
          BY <3>2, <4>1
        <4>3. g[k - 1] = IF k - 1 = 0 THEN start
                         ELSE Climbed(f[k - 1 - 1], siblings[k - 1])
          BY <4>1
        <4> QED
          BY <4>1, <4>2, <4>3
      <3>4. Equation(g, n)
        <4>1. \A k \in 0..n :
                 (IF k = 0 THEN start ELSE Climbed(f[k - 1], siblings[k]))
                 = (IF k = 0 THEN start ELSE Climbed(g[k - 1], siblings[k]))
          BY <3>3, Zenon
        <4> QED
          BY <4>1, Zenon
      <3> HIDE DEF g
      <3> QED
        BY <3>4
    <2> QED
      BY <2>1, <2>2
  <1>2. D \subseteq G
    <2>1. rank \in [D -> Nat]
      OBVIOUS
    <2> HIDE DEF D, G, rank
    <2> QED
      BY <1>1, <2>1, RankInduction
  <1>3. \E f : Equation(f, N)
    BY <1>2
  <1> DEFINE at == CHOOSE f : Equation(f, N)
  <1>4. Equation(at, N)
    BY <1>3, Zenon
  <1>5. Climb(digest, leaf, count, siblings) = at
    BY DEF Climb, Climbed, start
  <1> HIDE DEF at
  <1>6. at[0] = start
    BY <1>4
  <1>7. \A k \in 1..N : at[k] = Climbed(at[k - 1], siblings[k])
    BY <1>4
  <1> QED
    BY <1>5, <1>6, <1>7 DEF start

\* The next level lists, for each two digests, what commits to both.
LEMMA NextLevelIsList ==
    ASSUME NEW level, NEW W \in Nat, W = Len(level)
    PROVE  /\ Len(NextLevel(level)) = HalfUp(W)
           /\ \A j \in 1..HalfUp(W) : NextLevel(level)[j] =
                BranchDigest(level[2 * j - 1],
                             IF 2 * j <= W THEN level[2 * j]
                             ELSE level[2 * j - 1])
  <1> DEFINE f == NextLevel(level)
  <1>1. f = [j \in 1..HalfUp(W) |->
               BranchDigest(level[2 * j - 1],
                            IF 2 * j <= W THEN level[2 * j]
                            ELSE level[2 * j - 1])]
    BY DEF NextLevel
  <1>2. HalfUp(W) \in Nat
    BY HalfUpIsLess
  <1>3. f = [j \in 1..HalfUp(W) |-> f[j]]
    BY <1>1
  <1>4. Len(f) = HalfUp(W)
    <2> HIDE DEF f
    <2> QED
      BY <1>2, <1>3, ListIsSequence
  <1>5. \A j \in 1..HalfUp(W) : f[j] =
           BranchDigest(level[2 * j - 1],
                        IF 2 * j <= W THEN level[2 * j] ELSE level[2 * j - 1])
    BY <1>1
  <1> QED
    BY <1>4, <1>5

\* What a leaf is part of has a place on every level, and at the top it is the
\* root.
LEMMA PathStaysInTree ==
    ASSUME NEW E, NEW leaves \in Seq(E), NEW leaf \in 0..(Len(leaves) - 1),
           NEW N, N = Depth(Len(leaves)), NEW level, level = Levels(leaves),
           NEW path, path = PathOf(leaf, N)
    PROVE  /\ N \in Nat /\ path[N] = 0
           /\ level[0] = leaves
           /\ \A k \in 1..N : level[k] = NextLevel(level[k - 1])
           /\ path[0] = leaf
           /\ \A k \in 1..N : path[k] = path[k - 1] \div 2
           /\ \A k \in 0..N : /\ Len(level[k]) \in Nat
                              /\ path[k] \in 0..(Len(level[k]) - 1)
  <1> DEFINE n == Len(leaves)
  <1>1. n \in Nat \ {0} /\ leaf \in Nat
    OBVIOUS
  <1>2. PICK d \in [0..n -> Nat] :
           /\ N = d[n]
           /\ \A m \in 0..n : d[m] = IF m <= 1 THEN 0 ELSE d[HalfUp(m)] + 1
    BY <1>1, DepthIsDefined
  <1>3. N \in Nat
    BY <1>1, <1>2
  <1>4. level[0] = leaves
        /\ \A k \in 1..N : level[k] = NextLevel(level[k - 1])
    BY <1>3, LevelsAreDefined
  <1>5. path[0] = leaf /\ \A k \in 1..N : path[k] = path[k - 1] \div 2
    BY <1>1, <1>3, PathIsDefined
  <1> DEFINE Stands(k) == \E W \in 1..n : /\ Len(level[k]) = W
                                          /\ d[W] = N - k
                                          /\ path[k] \in 0..(W - 1)
  <1>6. Stands(0)
    <2>1. Len(level[0]) = n /\ d[n] = N - 0 /\ n \in 1..n
      BY <1>1, <1>2, <1>3, <1>4
    <2>2. path[0] \in 0..(n - 1)
      BY <1>5
    <2> HIDE DEF n
    <2> QED
      BY <2>1, <2>2
  <1>7. ASSUME NEW k \in 1..N, Stands(k - 1)
        PROVE  Stands(k)
    <2> DEFINE below == level[k - 1]
               at == path[k - 1]
    <2>1. PICK W \in 1..n : /\ Len(below) = W /\ d[W] = N - (k - 1)
                            /\ at \in 0..(W - 1)
      BY <1>7
    <2>2. W \in 0..n /\ W \in Nat
      BY <1>1
    <2>3. W > 1
      <3>1. d[W] # 0
        BY <1>3, <2>1
      <3>2. d[W] = IF W <= 1 THEN 0 ELSE d[HalfUp(W)] + 1
        BY <1>2, <2>2
      <3> QED
        BY <2>2, <3>1, <3>2
    <2>4. HalfUp(W) \in 1..(W - 1) /\ at \div 2 \in 0..(HalfUp(W) - 1)
      <3> HIDE DEF below, at
      <3> QED
        BY <2>1, <2>2, <2>3, HalfUpIsLess
    <2>5. HalfUp(W) \in 1..n
      BY <2>4
    <2>6. d[HalfUp(W)] = N - k
      <3>1. d[W] = d[HalfUp(W)] + 1
        BY <1>2, <2>2, <2>3
      <3>2. d[HalfUp(W)] \in Nat
        BY <2>5
      <3>3. d[W] = N - (k - 1)
        BY <2>1
      <3> HIDE DEF n
      <3> QED
        BY <1>3, <3>1, <3>2, <3>3
    <2>7. level[k] = NextLevel(below) /\ path[k] = at \div 2
      BY <1>4, <1>5
    <2>8. Len(level[k]) = HalfUp(W)
      <3> HIDE DEF below, at
      <3> QED
        BY <2>1, <2>2, <2>7, NextLevelIsList
    <2> HIDE DEF below, at, n
    <2> QED
      BY <2>4, <2>5, <2>6, <2>7, <2>8
  <1> DEFINE D == 0..N
             G == {k \in D : Stands(k)}
             rank == [k \in D |-> k]
  <1>8. D \subseteq G
    <2>1. ASSUME NEW k \in D, \A j \in D : rank[j] < rank[k] => j \in G
          PROVE  k \in G
      <3> HIDE DEF Stands
      <3>1. CASE k = 0
        BY <1>6, <3>1
      <3>2. CASE k # 0
        <4>1. k - 1 \in D /\ rank[k - 1] < rank[k] /\ k \in 1..N
          BY <3>2, <1>3
        <4>2. Stands(k - 1)
          BY <2>1, <4>1
        <4> QED
          BY <1>7, <4>1, <4>2
      <3> QED
        BY <3>1, <3>2
    <2>2. rank \in [D -> Nat]
      OBVIOUS
    <2> HIDE DEF D, G, rank
    <2> QED
      BY <2>1, <2>2, RankInduction
  <1>9. ASSUME NEW k \in 0..N
        PROVE  /\ Len(level[k]) \in Nat
               /\ path[k] \in 0..(Len(level[k]) - 1)
    <2>1. Stands(k)
      <3> HIDE DEF Stands
      <3> QED
        BY <1>8
    <2> QED
      BY <1>1, <2>1
  <1>10. path[N] = 0
    <2>1. Stands(N)
      <3>1. N \in D
        BY <1>3
      <3> HIDE DEF Stands
      <3> QED
        BY <1>8, <3>1
    <2>2. PICK W \in 1..n : d[W] = N - N /\ path[N] \in 0..(W - 1)
      BY <2>1
    <2>3. W = 1
      <3>1. CASE W > 1
        <4>1. W \in 0..n /\ W \in Nat /\ HalfUp(W) \in 1..(W - 1)
          BY <1>1, <3>1, HalfUpIsLess
        <4>2. d[W] = d[HalfUp(W)] + 1 /\ HalfUp(W) \in 0..n
          BY <1>2, <3>1, <4>1
        <4>3. d[HalfUp(W)] \in Nat
          BY <4>2
        <4> QED
          BY <1>3, <2>2, <4>2, <4>3
      <3> QED
        BY <3>1
    <2> QED
      BY <2>2, <2>3
  <1> QED
    BY <1>3, <1>4, <1>5, <1>9, <1>10

\* The sibling of the digest at a place of a level.
SiblingOf(level, at) ==
    IF at % 2 = 1
    THEN [side |-> "left", digest |-> level[at]]
    ELSE [side |-> "right",
          digest |-> level[IF at + 2 <= Len(level) THEN at + 2
                           ELSE Len(level)]]

\* With its sibling, a digest makes the one at half its place on the next level.
LEMMA SiblingsMakeNextLevel ==
    ASSUME NEW level, NEW W \in Nat, W = Len(level),
           NEW at \in 0..(W - 1)
    PROVE  LET sibling == SiblingOf(level, at)
               below == [digest |-> level[at + 1], index |-> at, count |-> W]
           IN  /\ Climbed(below, sibling) =
                    [digest |-> NextLevel(level)[(at \div 2) + 1],
                     index |-> at \div 2, count |-> HalfUp(W)]
               /\ sibling.side = IF at % 2 = 1 THEN "left" ELSE "right"
               /\ at % 2 = 0 /\ at + 1 >= W => sibling.digest = level[at + 1]
  <1> DEFINE half == at \div 2
             next == NextLevel(level)
             sibling == SiblingOf(level, at)
             below == [digest |-> level[at + 1], index |-> at, count |-> W]
  <1>1. half + 1 \in 1..HalfUp(W)
    BY DEF HalfUp
  <1>2. next[half + 1] =
          BranchDigest(level[2 * (half + 1) - 1],
                       IF 2 * (half + 1) <= W THEN level[2 * (half + 1)]
                       ELSE level[2 * (half + 1) - 1])
    <2> HIDE DEF half, next
    <2>1. \A j \in 1..HalfUp(W) : NextLevel(level)[j] =
                BranchDigest(level[2 * j - 1],
                             IF 2 * j <= W THEN level[2 * j]
                             ELSE level[2 * j - 1])
      BY NextLevelIsList
    <2> QED
      BY <1>1, <2>1 DEF next
  <1>3. CASE at % 2 = 1
    <2>1. /\ 2 * (half + 1) - 1 = at /\ 2 * (half + 1) = at + 1
          /\ 2 * (half + 1) <= W
      BY <1>3
    <2>2. next[half + 1] = BranchDigest(level[at], level[at + 1])
      <3> HIDE DEF half, next
      <3> QED
        BY <1>2, <2>1
    <2>3. sibling = [side |-> "left", digest |-> level[at]]
      BY <1>3 DEF SiblingOf
    <2>4. Climbed(below, sibling).digest = next[half + 1]
      BY <1>3, <2>2, <2>3 DEF Climbed
    <2>5. sibling.side = "left" /\ ~ (at % 2 = 0)
      BY <1>3, <2>3
    <2> HIDE DEF next, sibling
    <2> QED
      BY <1>3, <2>4, <2>5 DEF Climbed, next, sibling
  <1>4. CASE at % 2 # 1
    <2>1. /\ 2 * (half + 1) - 1 = at + 1 /\ 2 * (half + 1) = at + 2
          /\ at % 2 = 0
      BY <1>4
    <2>2. next[half + 1] = BranchDigest(level[at + 1],
             IF at + 2 <= W THEN level[at + 2] ELSE level[at + 1])
      <3> HIDE DEF half, next
      <3> QED
        BY <1>2, <2>1
    <2>3. sibling = [side |-> "right",
                     digest |-> level[IF at + 2 <= W THEN at + 2 ELSE W]]
      BY <1>4 DEF SiblingOf
    <2>4. ~ (at + 2 <= W) => W = at + 1
      OBVIOUS
    <2>5. sibling.digest = IF at + 2 <= W THEN level[at + 2] ELSE level[at + 1]
      <3>1. CASE at + 2 <= W
        BY <2>3, <3>1
      <3>2. CASE ~ (at + 2 <= W)
        BY <2>3, <2>4, <3>2
      <3> QED
        BY <3>1, <3>2
    <2>6. Climbed(below, sibling).digest = next[half + 1]
      <3> HIDE DEF sibling, next, half
      <3> QED
        BY <1>4, <2>2, <2>5 DEF Climbed
    <2>7. sibling.side = "right"
      BY <2>3
    <2>8. at + 1 >= W => sibling.digest = level[at + 1]
      BY <2>5
    <2> HIDE DEF next, sibling
    <2> QED
      BY <1>4, <2>6, <2>7, <2>8 DEF Climbed, next, sibling
  <1> QED
    BY <1>3, <1>4

\* Every leaf is proven by its siblings to be committed to: on its way up, a
\* verifier has on each level the digest that stands there.
THEOREM ProofsHold ==
    ASSUME NEW E, NEW leaves \in Seq(E), NEW leaf \in 0..(Len(leaves) - 1)
    PROVE  ProofHolds(leaves[leaf + 1], leaf, Len(leaves),
                      ProofOf(leaves, leaf), RootOf(leaves))
  <1> DEFINE n == Len(leaves)
             N == Depth(n)
             siblings == ProofOf(leaves, leaf)
             level == Levels(leaves)
             path == PathOf(leaf, N)
             climb == Climb(leaves[leaf + 1], leaf, n, siblings)
  <1>1. /\ N \in Nat /\ path[N] = 0
        /\ level[0] = leaves
        /\ \A k \in 1..N : level[k] = NextLevel(level[k - 1])
        /\ path[0] = leaf
        /\ \A k \in 1..N : path[k] = path[k - 1] \div 2
        /\ \A k \in 0..N : /\ Len(level[k]) \in Nat
                           /\ path[k] \in 0..(Len(level[k]) - 1)
    BY PathStaysInTree, Zenon
  <1>2. /\ Len(siblings) = N
        /\ \A k \in 1..N : siblings[k] = SiblingOf(level[k - 1], path[k - 1])
    <2>1. siblings = [k \in 1..N |-> SiblingOf(level[k - 1], path[k - 1])]
      BY DEF ProofOf, SiblingOf
    <2> HIDE DEF siblings, level, path, N
    <2>2. \A k \in 1..N : siblings[k] = SiblingOf(level[k - 1], path[k - 1])
      BY <2>1, Zenon
    <2>3. siblings = [k \in 1..N |-> siblings[k]]
      BY <2>1
    <2>4. Len(siblings) = N
      BY <1>1, <2>3, ListIsSequence
    <2> QED
      BY <2>2, <2>4
  <1>3. /\ climb[0] = [digest |-> leaves[leaf + 1], index |-> leaf,
                       count |-> n]
        /\ \A k \in 1..N : climb[k] = Climbed(climb[k - 1], siblings[k])
    <2> DEFINE digest == leaves[leaf + 1]
               c == Climb(digest, leaf, n, siblings)
    <2>1. N = Len(siblings) /\ N \in Nat
      BY <1>1, <1>2
    <2> HIDE DEF digest, siblings, N, n
    <2>2. /\ c[0] = [digest |-> digest, index |-> leaf, count |-> n]
          /\ \A k \in 1..N : c[k] = Climbed(c[k - 1], siblings[k])
      BY <2>1, ClimbIsDefined
    <2> QED
      BY <2>2 DEF digest
  <1> HIDE DEF N, siblings, level, path, climb
  <1> DEFINE Stands(k) == climb[k] = [digest |-> level[k][path[k] + 1],
                                      index |-> path[k],
                                      count |-> Len(level[k])]
             Correct(k) ==
               LET below == climb[k - 1] IN
               /\ siblings[k].side =
                    IF below.index % 2 = 1 THEN "left" ELSE "right"
               /\ below.index % 2 = 0 /\ below.index + 1 >= below.count =>
                    siblings[k].digest = below.digest
  <1>4. Stands(0)
    BY <1>1, <1>3
  <1>5. ASSUME NEW k \in 1..N, Stands(k - 1)
        PROVE  Stands(k) /\ Correct(k)
    <2> DEFINE below == level[k - 1]
               at == path[k - 1]
               W == Len(below)
    <2>1. W \in Nat /\ at \in 0..(W - 1)
      <3>1. k - 1 \in 0..N
        BY <1>1
      <3> QED
        BY <1>1, <3>1
    <2>2. /\ climb[k - 1] = [digest |-> below[at + 1], index |-> at,
                             count |-> W]
          /\ climb[k] = Climbed(climb[k - 1], siblings[k])
      BY <1>3, <1>5
    <2>3. level[k] = NextLevel(below) /\ path[k] = at \div 2
          /\ siblings[k] = SiblingOf(below, at)
      BY <1>1, <1>2
    <2> HIDE DEF below, at
    <2>4. Len(level[k]) = HalfUp(W)
      <3> HIDE DEF W
      <3> QED
        BY <2>1, <2>3, NextLevelIsList DEF W
    <2>5. LET from == [digest |-> below[at + 1], index |-> at, count |-> W]
          IN  /\ Climbed(from, siblings[k]) =
                   [digest |-> NextLevel(below)[(at \div 2) + 1],
                    index |-> at \div 2, count |-> HalfUp(W)]
              /\ siblings[k].side = IF at % 2 = 1 THEN "left" ELSE "right"
              /\ at % 2 = 0 /\ at + 1 >= W =>
                   siblings[k].digest = below[at + 1]
      BY <2>1, <2>3, SiblingsMakeNextLevel, Zenon
    <2>6. Stands(k)
      BY <2>2, <2>3, <2>4, <2>5
    <2>7. Correct(k)
      BY <2>2, <2>5
    <2> QED
      BY <2>6, <2>7
  <1> DEFINE D == 0..N
             G == {k \in D : Stands(k)}
             rank == [k \in D |-> k]
  <1>6. D \subseteq G
    <2>1. ASSUME NEW k \in D, \A j \in D : rank[j] < rank[k] => j \in G
          PROVE  k \in G
      <3> HIDE DEF Stands, Correct
      <3>1. CASE k = 0
        BY <1>4, <3>1
      <3>2. CASE k # 0
        <4>1. k - 1 \in D /\ rank[k - 1] < rank[k] /\ k \in 1..N
          BY <3>2, <1>1
        <4>2. Stands(k - 1)
          BY <2>1, <4>1
        <4> QED
          BY <1>5, <4>1, <4>2
      <3> QED
        BY <3>1, <3>2
    <2>2. rank \in [D -> Nat]
      OBVIOUS
    <2> HIDE DEF D, G, rank
    <2> QED
      BY <2>1, <2>2, RankInduction
  <1>7. \A k \in 1..N : Correct(k)
    <2> SUFFICES ASSUME NEW k \in 1..N
                 PROVE  Correct(k)
      OBVIOUS
    <2>1. k - 1 \in D
      BY <1>1
    <2> HIDE DEF Stands, Correct
    <2> QED
      BY <1>5, <1>6, <2>1
  <1>8. climb[N].digest = RootOf(leaves)
    <2>1. N \in D
      BY <1>1
    <2>2. Stands(N)
      <3> HIDE DEF Stands
      <3> QED
        BY <1>6, <2>1
    <2>3. RootOf(leaves) = level[N][1]
      BY DEF RootOf, level, N
    <2> QED
      BY <1>1, <2>2, <2>3
  <1>9. /\ Len(siblings) = Depth(n)
        /\ \A k \in 1..Len(siblings) : Correct(k)
        /\ climb[Len(siblings)].digest = RootOf(leaves)
    <2> HIDE DEF n, Correct
    <2> QED
      BY <1>2, <1>7, <1>8 DEF N
  <1> HIDE DEF n
  <1> QED
    BY <1>9, Zenon DEF ProofHolds, climb, siblings, n

\* A digest that makes, with whatever is beside it, the one at half its place
\* on the next level is the one that stands at its place.
LEMMA ClimbedFrom ==
    ASSUME NEW level, NEW W \in Nat, W = Len(level), NEW at \in 0..(W - 1),
           NEW below, below.index = at, NEW sibling,
           Climbed(below, sibling).digest = NextLevel(level)[(at \div 2) + 1]
    PROVE  below.digest = level[at + 1]
  <1> DEFINE half == at \div 2
             next == NextLevel(level)
  <1>1. half + 1 \in 1..HalfUp(W)
    BY DEF HalfUp
  <1>2. next[half + 1] =
          BranchDigest(level[2 * (half + 1) - 1],
                       IF 2 * (half + 1) <= W THEN level[2 * (half + 1)]
                       ELSE level[2 * (half + 1) - 1])
    <2> HIDE DEF half, next
    <2>1. \A j \in 1..HalfUp(W) : NextLevel(level)[j] =
                BranchDigest(level[2 * j - 1],
                             IF 2 * j <= W THEN level[2 * j]
                             ELSE level[2 * j - 1])
      BY NextLevelIsList
    <2> QED
      BY <1>1, <2>1 DEF next
  <1>3. CASE at % 2 = 1
    <2>1. 2 * (half + 1) = at + 1 /\ 2 * (half + 1) <= W
      BY <1>3
    <2>2. \E left : next[half + 1] = BranchDigest(left, level[at + 1])
      <3> HIDE DEF half, next
      <3> QED
        BY <1>2, <2>1
    <2>3. Climbed(below, sibling).digest
            = BranchDigest(sibling.digest, below.digest)
      BY <1>3 DEF Climbed
    <2> HIDE DEF half, next
    <2> QED
      BY <2>2, <2>3 DEF BranchDigest, half, next
  <1>4. CASE at % 2 # 1
    <2>1. 2 * (half + 1) - 1 = at + 1
      BY <1>4
    <2>2. \E right : next[half + 1] = BranchDigest(level[at + 1], right)
      <3> HIDE DEF half, next
      <3> QED
        BY <1>2, <2>1
    <2>3. Climbed(below, sibling).digest
            = BranchDigest(below.digest, sibling.digest)
      BY <1>4 DEF Climbed
    <2> HIDE DEF half, next
    <2> QED
      BY <2>2, <2>3 DEF BranchDigest, half, next
  <1> QED
    BY <1>3, <1>4

\* Nothing but a leaf is proven to be committed to, whatever siblings are
\* given: on its way up, a verifier that ends in the root has had on each level
\* the digest that stands there.
THEOREM OnlyLeavesAreProven ==
    ASSUME NEW E, NEW leaves \in Seq(E), NEW leaf \in 0..(Len(leaves) - 1),
           NEW digest, NEW siblings,
           ProofHolds(digest, leaf, Len(leaves), siblings, RootOf(leaves))
    PROVE  digest = leaves[leaf + 1]
  <1> DEFINE n == Len(leaves)
             N == Depth(n)
             level == Levels(leaves)
             path == PathOf(leaf, N)
             climb == Climb(digest, leaf, n, siblings)
  <1>1. /\ N \in Nat /\ path[N] = 0
        /\ level[0] = leaves
        /\ \A k \in 1..N : level[k] = NextLevel(level[k - 1])
        /\ path[0] = leaf
        /\ \A k \in 1..N : path[k] = path[k - 1] \div 2
        /\ \A k \in 0..N : /\ Len(level[k]) \in Nat
                           /\ path[k] \in 0..(Len(level[k]) - 1)
    BY PathStaysInTree, Zenon
  <1>2. Len(siblings) = N /\ climb[N].digest = RootOf(leaves)
    BY DEF ProofHolds
  <1>3. RootOf(leaves) = level[N][1]
    BY DEF RootOf
  <1>4. /\ climb[0] = [digest |-> digest, index |-> leaf, count |-> n]
        /\ \A k \in 1..N : climb[k] = Climbed(climb[k - 1], siblings[k])
    <2> HIDE DEF N, n
    <2> QED
      BY <1>1, <1>2, ClimbIsDefined
  <1> HIDE DEF N, level, path, climb
  <1> DEFINE D == 0..N
  <1>5. \A k \in D : climb[k].index = path[k]
    <2> DEFINE G == {k \in D : climb[k].index = path[k]}
               rank == [k \in D |-> k]
    <2>1. ASSUME NEW k \in D, \A j \in D : rank[j] < rank[k] => j \in G
          PROVE  k \in G
      <3>1. CASE k = 0
        BY <1>1, <1>4, <3>1
      <3>2. CASE k # 0
        <4>1. k - 1 \in D /\ rank[k - 1] < rank[k] /\ k \in 1..N
          BY <3>2, <1>1
        <4>2. climb[k - 1].index = path[k - 1]
          BY <2>1, <4>1
        <4>3. climb[k] = Climbed(climb[k - 1], siblings[k])
          BY <1>4, <4>1
        <4>4. climb[k].index = climb[k - 1].index \div 2
          <5>1. \A below, sibling :
                  Climbed(below, sibling).index = below.index \div 2
            BY DEF Climbed
          <5> QED
            BY <4>3, <5>1, Zenon
        <4> QED
          BY <1>1, <4>1, <4>2, <4>4
      <3> QED
        BY <3>1, <3>2
    <2>2. rank \in [D -> Nat]
      OBVIOUS
    <2>3. D \subseteq G
      <3> HIDE DEF D, G, rank
      <3> QED
        BY <2>1, <2>2, RankInduction
    <2> QED
      BY <2>3
  <1> DEFINE Stands(k) == climb[k].digest = level[k][path[k] + 1]
             G == {k \in D : Stands(k)}
             rank == [k \in D |-> N - k]
  <1>6. Stands(N)
    BY <1>1, <1>2, <1>3
  <1>7. ASSUME NEW k \in D, k # N, Stands(k + 1)
        PROVE  Stands(k)
    <2> DEFINE above == k + 1
    <2>1. above \in 1..N /\ above - 1 = k
      BY <1>1, <1>7
    <2>2. level[above] = NextLevel(level[k]) /\ path[above] = path[k] \div 2
          /\ climb[above] = Climbed(climb[k], siblings[above])
      BY <1>1, <1>4, <2>1
    <2>3. Len(level[k]) \in Nat /\ path[k] \in 0..(Len(level[k]) - 1)
      BY <1>1
    <2>4. climb[k].index = path[k]
      BY <1>5
    <2>5. climb[above].digest = level[above][path[above] + 1]
      BY <1>7
    <2> HIDE DEF above
    <2>6. Climbed(climb[k], siblings[above]).digest
            = NextLevel(level[k])[(path[k] \div 2) + 1]
      BY <2>2, <2>5
    <2> DEFINE here == level[k]
               at == path[k]
               below == climb[k]
               sibling == siblings[above]
    <2>7. /\ Len(here) \in Nat /\ at \in 0..(Len(here) - 1)
          /\ below.index = at
          /\ Climbed(below, sibling).digest = NextLevel(here)[(at \div 2) + 1]
      BY <2>3, <2>4, <2>6
    <2>8. below.digest = here[at + 1]
      <3> HIDE DEF here, at, below, sibling
      <3> QED
        BY <2>7, ClimbedFrom
    <2> QED
      BY <2>8
  <1>8. D \subseteq G
    <2>1. ASSUME NEW k \in D, \A j \in D : rank[j] < rank[k] => j \in G
          PROVE  k \in G
      <3> HIDE DEF Stands
      <3>1. CASE k = N
        BY <1>6, <3>1
      <3>2. CASE k # N
        <4>1. k + 1 \in D /\ rank[k + 1] < rank[k]
          BY <3>2, <1>1
        <4>2. Stands(k + 1)
          BY <2>1, <4>1
        <4> QED
          BY <1>7, <3>2, <4>2
      <3> QED
        BY <3>1, <3>2
    <2>2. rank \in [D -> Nat]
      BY <1>1
    <2> HIDE DEF D, G, rank
    <2> QED
      BY <2>1, <2>2, RankInduction
  <1>9. Stands(0)
    <2>1. 0 \in D
      BY <1>1
    <2> HIDE DEF Stands
    <2> QED
      BY <1>8, <2>1
  <1> QED
    BY <1>1, <1>4, <1>9

\* Of as many leaves, a root commits to no others.
LEMMA RootsCommit ==
    ASSUME NEW E, NEW leaves \in Seq(E), NEW F, NEW others \in Seq(F),
           Len(leaves) = Len(others), RootOf(leaves) = RootOf(others)
    PROVE  \A k \in 1..Len(leaves) : leaves[k] = others[k]
  <1> SUFFICES ASSUME NEW k \in 1..Len(leaves)
               PROVE  leaves[k] = others[k]
    OBVIOUS
  <1> DEFINE leaf == k - 1
  <1>1. leaf \in 0..(Len(leaves) - 1) /\ leaf + 1 = k
        /\ leaf \in 0..(Len(others) - 1)
    OBVIOUS
  <1> HIDE DEF leaf
  <1>2. ProofHolds(leaves[leaf + 1], leaf, Len(leaves), ProofOf(leaves, leaf),
                   RootOf(leaves))
    BY <1>1, ProofsHold
  <1>3. ProofHolds(leaves[leaf + 1], leaf, Len(others), ProofOf(leaves, leaf),
                   RootOf(others))
    BY <1>2, Zenon
  <1>4. leaves[leaf + 1] = others[leaf + 1]
    BY <1>1, <1>3, OnlyLeavesAreProven
  <1> QED
    BY <1>1, <1>4

-----------------------------------------------------------------------------
(* The graph of a Project is a tree *)

\* Distinct values for the elements of a finite set are as many as these.
LEMMA CountOfValues ==
    ASSUME NEW J, IsFiniteSet(J), NEW f, f = [j \in J |-> f[j]],
           \A i, j \in J : f[i] = f[j] => i = j,
           NEW S, S = {f[j] : j \in J}
    PROVE  IsFiniteSet(S) /\ Cardinality(S) = Cardinality(J)
  <1>1. f \in [J -> S]
    OBVIOUS
  <1>2. f \in Surjection(J, S)
    BY <1>1 DEF Surjection
  <1>3. f \in Injection(J, S)
    BY <1>1 DEF Injection, IsInjective
  <1> QED
    BY <1>2, <1>3, FS_Surjection

\* t grows by each of the N numbers of s in turn, and has their sum in the end.
Grows(t, s, N) ==
    /\ t = [i \in 0..N |-> t[i]] /\ t[0] = 0
    /\ \A i \in 1..N : t[i] = t[i - 1] + s[i]

LEMMA SumOfGrowth ==
    ASSUME NEW N \in Nat, NEW s, Len(s) = N, NEW t, Grows(t, s, N)
    PROVE  SumOf(s) = t[N]
  <1> DEFINE D == 0..N
             Equation(f) ==
               f = [i \in D |-> IF i = 0 THEN 0 ELSE f[i - 1] + s[i]]
             sum == CHOOSE f : Equation(f)
             rank == [i \in D |-> i]
             G == {i \in D : sum[i] = t[i]}
  <1>1. \A i \in D : t[i] = IF i = 0 THEN 0 ELSE t[i - 1] + s[i]
    <2>1. \A i \in D : i = 0 \/ i \in 1..N
      OBVIOUS
    <2> HIDE DEF D
    <2> QED
      BY <2>1, Zenon DEF Grows
  <1>2. Equation(t)
    <2> HIDE DEF D
    <2> QED
      BY <1>1, Zenon DEF D, Grows
  <1>3. Equation(sum)
    BY <1>2, Zenon
  <1>4. SumOf(s) = sum[N]
    BY DEF SumOf
  <1> HIDE DEF sum
  <1>5. \A i \in D : sum[i] = IF i = 0 THEN 0 ELSE sum[i - 1] + s[i]
    BY <1>3
  <1>6. ASSUME NEW i \in D, \A j \in D : rank[j] < rank[i] => j \in G
        PROVE  i \in G
    <2>1. CASE i = 0
      BY <1>1, <1>5, <2>1
    <2>2. CASE i # 0
      <3>1. i - 1 \in D /\ rank[i - 1] < rank[i]
        BY <2>2
      <3>2. sum[i - 1] = t[i - 1]
        BY <1>6, <3>1
      <3> QED
        BY <1>1, <1>5, <2>2, <3>2
    <2> QED
      BY <2>1, <2>2
  <1>7. D \subseteq G
    <2>1. rank \in [D -> Nat]
      OBVIOUS
    <2> HIDE DEF D, G, rank
    <2> QED
      BY <1>6, <2>1, RankInduction
  <1>8. N \in D
    OBVIOUS
  <1> QED
    BY <1>4, <1>7, <1>8

\* What the pages of a graph are cut from: the n Nodes in their order, each
\* with its fields and its place, and the identities of every page.
IsBuilt(graph, p, order, n) ==
    /\ \E E : graph.nodes \in Seq(E)
    /\ Len(graph.nodes) = n /\ n \in Nat
    /\ \A i \in 1..n : graph.nodes[i] =
         [sha |-> order[i].sha, kind |-> order[i].kind,
          parent |-> order[i].parent, origin |-> order[i].origin,
          ordinal |-> i - 1,
          parentOrdinal |->
            IF order[i].kind = "root" THEN None
            ELSE (CHOOSE j \in 1..n : order[j].sha = order[i].parent) - 1,
          status |-> NodeStatus(p, order[i])]
    /\ graph.root = rootSha[p] /\ graph.edges = GraphEdges(p)
    /\ graph.activeRuns = ActiveRuns(p)
    /\ Len(graph.leaves) = Pages(n, GRAPH_PAGE_SIZE)
    /\ DOMAIN graph.leaves = 1..Pages(n, GRAPH_PAGE_SIZE)
    /\ \A k \in 1..Pages(n, GRAPH_PAGE_SIZE) : graph.leaves[k] =
         IdentityLeaves(PageOf(graph.nodes, k - 1, GRAPH_PAGE_SIZE))

\* The graph of a Project is built like this from its registered Nodes.
LEMMA GraphIsBuilt ==
    ASSUME NEW p, NEW S, S = {m \in nodes : m.project = p}, IsFiniteSet(S),
           NEW order, order = InOrder(S), NEW n, n = Cardinality(S)
    PROVE  IsBuilt(Graph(p), p, order, n)
  <1> DEFINE place(s) == (CHOOSE i \in DOMAIN order : order[i].sha = s) - 1
             listed == [i \in DOMAIN order |->
               [sha |-> order[i].sha, kind |-> order[i].kind,
                parent |-> order[i].parent, origin |-> order[i].origin,
                ordinal |-> i - 1,
                parentOrdinal |-> IF order[i].kind = "root" THEN None
                                  ELSE place(order[i].parent),
                status |-> NodeStatus(p, order[i])]]
             gnodes == Computed(listed)
             cut == [k \in 1..Pages(Len(order), GRAPH_PAGE_SIZE) |->
                      IdentityLeaves(PageOf(gnodes, k - 1, GRAPH_PAGE_SIZE))]
             m == Pages(n, GRAPH_PAGE_SIZE)
  <1>1. Graph(p) = [root |-> rootSha[p], nodes |-> gnodes,
                    edges |-> GraphEdges(p), activeRuns |-> ActiveRuns(p),
                    leaves |-> Computed(cut)]
    BY Zenon DEF Graph
  <1>2. n \in Nat /\ Len(order) = n /\ DOMAIN order = 1..n
    BY InOrderIsSequence
  <1>3. /\ listed = [i \in 1..n |-> listed[i]]
        /\ \A i \in 1..n : listed[i] =
             [sha |-> order[i].sha, kind |-> order[i].kind,
              parent |-> order[i].parent, origin |-> order[i].origin,
              ordinal |-> i - 1,
              parentOrdinal |->
                IF order[i].kind = "root" THEN None
                ELSE (CHOOSE j \in 1..n : order[j].sha = order[i].parent) - 1,
              status |-> NodeStatus(p, order[i])]
    <2>1. listed = [i \in 1..n |->
             [sha |-> order[i].sha, kind |-> order[i].kind,
              parent |-> order[i].parent, origin |-> order[i].origin,
              ordinal |-> i - 1,
              parentOrdinal |->
                IF order[i].kind = "root" THEN None
                ELSE (CHOOSE j \in 1..n : order[j].sha = order[i].parent) - 1,
              status |-> NodeStatus(p, order[i])]]
      BY <1>2, Zenon
    <2> HIDE DEF listed
    <2> QED
      BY <2>1, Zenon
  <1> HIDE DEF listed, place
  <1>4. /\ listed \in Seq({listed[i] : i \in 1..n}) /\ Len(listed) = n
    <2>1. listed = [i \in 1..n |-> listed[i]]
      BY <1>3
    <2>2. n \in Nat
      BY <1>2
    <2> QED
      BY <2>1, <2>2, ListIsSequence, Zenon
  <1>5. gnodes = listed
    BY <1>4, ComputedIsSame
  <1> HIDE DEF gnodes
  <1>6. m \in Nat
    <2>1. n + GRAPH_PAGE_SIZE - 1 \in Nat
      BY <1>2, GraphPageSizeIsPositive
    <2> QED
      BY <2>1, GraphPageSizeIsPositive, Quotient DEF Pages
  <1>7. cut = [k \in 1..m |-> cut[k]]
        /\ \A k \in 1..m :
             cut[k] = IdentityLeaves(PageOf(gnodes, k - 1, GRAPH_PAGE_SIZE))
    BY <1>2, Zenon
  <1> HIDE DEF cut, m
  <1>8. /\ cut \in Seq({cut[k] : k \in 1..m}) /\ DOMAIN cut = 1..m
        /\ Len(cut) = m
    BY <1>6, <1>7, ListIsSequence
  <1>9. Computed(cut) = cut
    BY <1>8, ComputedIsSame
  <1>10. /\ Graph(p).nodes = gnodes /\ Graph(p).edges = GraphEdges(p)
         /\ Graph(p).activeRuns = ActiveRuns(p) /\ Graph(p).root = rootSha[p]
         /\ Graph(p).leaves = cut
    BY <1>1, <1>9
  <1>11. \A k \in 1..m : Graph(p).leaves[k] =
            IdentityLeaves(PageOf(Graph(p).nodes, k - 1, GRAPH_PAGE_SIZE))
    BY <1>7, <1>10, Zenon
  <1>12. \E E : Graph(p).nodes \in Seq(E)
    BY <1>4, <1>5, <1>10, Zenon
  <1>13. Len(Graph(p).nodes) = n /\ n \in Nat
    BY <1>2, <1>4, <1>5, <1>10
  <1>14. Len(Graph(p).leaves) = m /\ DOMAIN Graph(p).leaves = 1..m
    BY <1>8, <1>10
  <1>15. \A i \in 1..n : Graph(p).nodes[i] =
             [sha |-> order[i].sha, kind |-> order[i].kind,
              parent |-> order[i].parent, origin |-> order[i].origin,
              ordinal |-> i - 1,
              parentOrdinal |->
                IF order[i].kind = "root" THEN None
                ELSE (CHOOSE j \in 1..n : order[j].sha = order[i].parent) - 1,
              status |-> NodeStatus(p, order[i])]
    <2>1. Graph(p).nodes = listed
      BY <1>5, <1>10
    <2> QED
      BY <1>3, <2>1, Zenon
  <1> QED
    BY <1>6, <1>10, <1>11, <1>12, <1>13, <1>14, <1>15, Zenon
       DEF IsBuilt, m

\* The edge into a Node.
EdgeInto(n) == [kind |-> n.kind, source |-> n.parent, target |-> n.sha,
                origin |-> n.origin]

\* The Nodes of a graph but its root.
Children(graph) == 2..Len(graph.nodes)

\* A graph with its root first, every other Node after its parent, and an edge
\* into each of these; and with the identities of its pages.
IsGraphTree(graph) ==
    /\ IsNumbered(graph)
    /\ Len(graph.nodes) > 0
    /\ \A i \in 1..Len(graph.nodes) :
         LET n == graph.nodes[i] IN
         IF i = 1
         THEN n.kind = "root" /\ n.parentOrdinal = None /\ n.sha = graph.root
         ELSE /\ n.kind # "root"
              /\ \E j \in 1..(i - 1) : /\ n.parentOrdinal = j - 1
                                       /\ graph.nodes[j].sha = n.parent
    /\ \A i, j \in 1..Len(graph.nodes) :
         graph.nodes[i].sha = graph.nodes[j].sha => i = j
    /\ graph.edges = {EdgeInto(graph.nodes[i]) : i \in Children(graph)}
    /\ Len(graph.leaves) = Pages(Len(graph.nodes), GRAPH_PAGE_SIZE)
    /\ DOMAIN graph.leaves = 1..Len(graph.leaves)
    /\ \A k \in 1..Len(graph.leaves) : graph.leaves[k] =
         IdentityLeaves(PageOf(graph.nodes, k - 1, GRAPH_PAGE_SIZE))

\* Into every Node but the root leads an edge, as it has its completed Run or
\* its confirmed proposal.
LEMMA EdgesOfChildren ==
    ASSUME TreeInv, ChildrenOfProposals, NEW p
    PROVE  GraphEdges(p) =
             {EdgeInto(n) : n \in {m \in nodes : m.project = p
                                                 /\ m.kind # "root"}}
  <1> DEFINE C == {m \in nodes : m.project = p /\ m.kind # "root"}
             Reached(m) ==
               \/ /\ m.kind = "run_child"
                  /\ runs[m.origin] # None
                  /\ runs[m.origin].project = p
                  /\ runs[m.origin].status = "completed"
               \/ /\ m.kind = "coaching_child"
                  /\ proposals[m.origin] # None
                  /\ proposals[m.origin].project = p
                  /\ \E x \in dispositions :
                       x.proposal = m.origin /\ x.status = "confirmed"
  <1>1. ASSUME NEW m \in C
        PROVE  Reached(m)
    <2>1. m.kind = "run_child" \/ m.kind = "coaching_child"
      BY DEF TreeInv, TypeOK, Node
    <2>2. CASE m.kind = "run_child"
      BY <2>2 DEF TreeInv, ResultsMatchRuns
    <2>3. CASE m.kind = "coaching_child"
      BY <2>3 DEF TreeInv, CoachingMatchesDispositions, ChildrenOfProposals
    <2> QED
      BY <2>1, <2>2, <2>3
  <1>2. \A m \in nodes : m.project = p /\ Reached(m) => m \in C
    OBVIOUS
  <1>3. GraphEdges(p) =
          {EdgeInto(n) : n \in {m \in nodes : m.project = p /\ Reached(m)}}
    BY Zenon DEF GraphEdges, EdgeInto
  <1>4. {m \in nodes : m.project = p /\ Reached(m)} = C
    <2> HIDE DEF Reached
    <2> QED
      BY <1>1, <1>2
  <1> HIDE DEF Reached, C
  <1> QED
    BY <1>3, <1>4 DEF C

\* The graph of every Project is a tree in that form: a Node is registered
\* after its parent, and with the record that justifies it.
LEMMA GraphIsTree ==
    ASSUME TreeInv, GraphInv, ChildrenOfProposals,
           NEW p \in Project, rootSha[p] # None
    PROVE  IsGraphTree(Graph(p))
  <1> DEFINE S == {m \in nodes : m.project = p}
             order == InOrder(S)
             n == Cardinality(S)
             graph == Graph(p)
             placeOf(m) == CHOOSE j \in 1..n : order[j].sha = m.parent
  <1>1. IsFiniteSet(S) /\ Ordered(S)
    BY ProjectIsOrdered
  <1>2. /\ \E E : graph.nodes \in Seq(E)
        /\ Len(graph.nodes) = n /\ n \in Nat
        /\ \A i \in 1..n :
             /\ graph.nodes[i].sha = order[i].sha
             /\ graph.nodes[i].kind = order[i].kind
             /\ graph.nodes[i].parent = order[i].parent
             /\ graph.nodes[i].origin = order[i].origin
             /\ graph.nodes[i].ordinal = i - 1
             /\ graph.nodes[i].parentOrdinal =
                  IF order[i].kind = "root" THEN None
                  ELSE placeOf(order[i]) - 1
        /\ graph.root = rootSha[p] /\ graph.edges = GraphEdges(p)
        /\ Len(graph.leaves) = Pages(n, GRAPH_PAGE_SIZE)
        /\ DOMAIN graph.leaves = 1..Pages(n, GRAPH_PAGE_SIZE)
        /\ \A k \in 1..Pages(n, GRAPH_PAGE_SIZE) : graph.leaves[k] =
             IdentityLeaves(PageOf(graph.nodes, k - 1, GRAPH_PAGE_SIZE))
    <2>1. S = {m \in nodes : m.project = p}
      OBVIOUS
    <2> HIDE DEF graph, order, n, S
    <2>2. IsBuilt(graph, p, order, n)
      <3>1. IsFiniteSet(S) /\ order = InOrder(S) /\ n = Cardinality(S)
        BY <1>1 DEF order, n
      <3> QED
        BY <2>1, <3>1, GraphIsBuilt DEF graph
    <2> HIDE DEF placeOf
    <2>3. ASSUME NEW i \in 1..n
          PROVE  /\ graph.nodes[i].sha = order[i].sha
                 /\ graph.nodes[i].kind = order[i].kind
                 /\ graph.nodes[i].parent = order[i].parent
                 /\ graph.nodes[i].origin = order[i].origin
                 /\ graph.nodes[i].ordinal = i - 1
                 /\ graph.nodes[i].parentOrdinal =
                      IF order[i].kind = "root" THEN None
                      ELSE placeOf(order[i]) - 1
      <3>1. graph.nodes[i] =
              [sha |-> order[i].sha, kind |-> order[i].kind,
               parent |-> order[i].parent, origin |-> order[i].origin,
               ordinal |-> i - 1,
               parentOrdinal |-> IF order[i].kind = "root" THEN None
                                 ELSE placeOf(order[i]) - 1,
               status |-> NodeStatus(p, order[i])]
        BY <2>2, Zenon DEF IsBuilt, placeOf
      <3> QED
        BY <3>1
    <2> QED
      BY <2>2, <2>3 DEF IsBuilt
  <1>3. /\ \A i \in 1..n : order[i] \in S /\ Rank(S, order[i]) = i - 1
        /\ \A x \in S : \E i \in 1..n : order[i] = x
        /\ \A i, j \in 1..n : Before(order[i], order[j]) => i < j
    <2> HIDE DEF S
    <2> QED
      BY <1>1, InOrderLists
  <1> HIDE DEF n, order, graph
  <1>4. \A i, j \in 1..n : order[i].sha = order[j].sha => i = j
    <2> SUFFICES ASSUME NEW i \in 1..n, NEW j \in 1..n,
                        order[i].sha = order[j].sha
                 PROVE  i = j
      OBVIOUS
    <2>1. order[i] = order[j]
      BY <1>3, ZenonT(30) DEF TreeInv, NodeGraphValid, NodesUnique
    <2>2. i - 1 = j - 1
      BY <1>3, <2>1
    <2> QED
      BY <1>2, <2>2
  <1>5. ASSUME NEW i \in 1..n, order[i].kind # "root"
        PROVE  \E j \in 1..(i - 1) : /\ graph.nodes[i].parentOrdinal = j - 1
                                     /\ graph.nodes[j].sha = order[i].parent
    <2>1. PICK m \in nodes : m.project = p /\ m.sha = order[i].parent
      BY <1>3, <1>5 DEF TreeInv, NodeGraphValid, ParentsRegistered, HasNode
    <2>2. Before(m, order[i])
      BY <1>3, <1>5, <2>1 DEF GraphInv, ParentsFirst
    <2>3. PICK j \in 1..n : order[j] = m
      BY <1>3, <2>1
    <2>4. j < i
      BY <1>3, <2>2, <2>3
    <2>5. placeOf(order[i]) = j
      BY <1>4, <2>1, <2>3
    <2>6. graph.nodes[i].parentOrdinal = j - 1 /\ graph.nodes[j].sha = m.sha
      BY <1>2, <1>5, <2>3, <2>5
    <2>7. j \in 1..(i - 1)
      BY <1>2, <2>4
    <2> QED
      BY <2>1, <2>6, <2>7
  <1>6. n > 0
    <2>1. PICK x \in S : TRUE
      BY DEF TreeInv, NodeGraphValid, RootsDeclared
    <2>2. PICK i \in 1..n : order[i] = x
      BY <1>3
    <2> QED
      BY <1>2, <2>2
  <1>7. order[1].kind = "root" /\ order[1].sha = rootSha[p]
    <2>1. order[1].kind = "root"
      <3> SUFFICES ASSUME order[1].kind # "root" PROVE FALSE
        OBVIOUS
      <3>1. 1 \in 1..n
        BY <1>2, <1>6
      <3>2. PICK j \in 1..(1 - 1) : TRUE
        BY <1>5, <3>1
      <3> QED
        BY <3>2
    <2>2. order[1] \in S
      <3>1. 1 \in 1..n
        BY <1>2, <1>6
      <3> QED
        BY <1>3, <3>1
    <2> QED
      BY <2>1, <2>2 DEF TreeInv, NodeGraphValid, RootsDeclared
  <1>8. \A i \in 1..n : order[i].kind = "root" <=> i = 1
    <2> SUFFICES ASSUME NEW i \in 1..n, order[i].kind = "root"
                 PROVE  i = 1
      BY <1>7
    <2>1. order[i].sha = rootSha[p]
      BY <1>3, ZenonT(30) DEF TreeInv, NodeGraphValid, RootsDeclared
    <2>2. 1 \in 1..n
      BY <1>2, <1>6
    <2> QED
      BY <1>4, <1>7, <2>1, <2>2
  <1>9. ASSUME NEW i \in 1..n
        PROVE  LET m == graph.nodes[i] IN
               IF i = 1
               THEN m.kind = "root" /\ m.parentOrdinal = None
                    /\ m.sha = graph.root
               ELSE /\ m.kind # "root"
                    /\ \E j \in 1..(i - 1) : /\ m.parentOrdinal = j - 1
                                             /\ graph.nodes[j].sha = m.parent
    <2> HIDE DEF placeOf
    <2>1. CASE i = 1
      BY <1>2, <1>7, <2>1
    <2>2. CASE i # 1
      <3>1. order[i].kind # "root"
        BY <1>8, <2>2
      <3>2. \E j \in 1..(i - 1) : /\ graph.nodes[i].parentOrdinal = j - 1
                                  /\ graph.nodes[j].sha = order[i].parent
        BY <1>5, <3>1
      <3>3. graph.nodes[i].kind # "root"
            /\ graph.nodes[i].parent = order[i].parent
        BY <1>2, <3>1
      <3> QED
        BY <2>2, <3>2, <3>3
    <2> QED
      BY <2>1, <2>2
  <1>10. graph.edges = {EdgeInto(graph.nodes[i]) : i \in Children(graph)}
    <2> DEFINE C == {m \in nodes : m.project = p /\ m.kind # "root"}
    <2>1. graph.edges = {EdgeInto(m) : m \in C}
      BY <1>2, EdgesOfChildren
    <2>2. \A i \in 1..n : EdgeInto(graph.nodes[i]) = EdgeInto(order[i])
      <3> HIDE DEF placeOf
      <3> QED
        BY <1>2 DEF EdgeInto
    <2>3. Children(graph) = 2..n
      <3> HIDE DEF placeOf
      <3> QED
        BY <1>2 DEF Children
    <2>4. \A i \in 2..n : i \in 1..n /\ order[i] \in C
      <3>1. \A i \in 2..n : i \in 1..n /\ i # 1
        BY <1>2
      <3> QED
        BY <1>3, <1>8, <3>1
    <2>5. \A m \in C : \E i \in 2..n : order[i] = m
      <3> SUFFICES ASSUME NEW m \in C
                   PROVE  \E i \in 2..n : order[i] = m
        OBVIOUS
      <3>1. PICK i \in 1..n : order[i] = m
        BY <1>3
      <3>2. i # 1
        BY <1>8, <3>1
      <3> QED
        BY <1>2, <3>1, <3>2
    <2> HIDE DEF C
    <2>6. {EdgeInto(m) : m \in C}
            = {EdgeInto(graph.nodes[i]) : i \in 2..n}
      BY <2>2, <2>4, <2>5
    <2> QED
      BY <2>1, <2>3, <2>6
  <1>11. \A i, j \in 1..n :
            graph.nodes[i].sha = graph.nodes[j].sha => i = j
    <2> HIDE DEF placeOf
    <2> QED
      BY <1>2, <1>4
  <1>12. IsNumbered(graph)
    <2> HIDE DEF placeOf
    <2> QED
      BY <1>2 DEF IsNumbered
  <1> HIDE DEF placeOf
  <1>13. /\ Len(graph.leaves) = Pages(Len(graph.nodes), GRAPH_PAGE_SIZE)
         /\ DOMAIN graph.leaves = 1..Len(graph.leaves)
         /\ \A k \in 1..Len(graph.leaves) : graph.leaves[k] =
              IdentityLeaves(PageOf(graph.nodes, k - 1, GRAPH_PAGE_SIZE))
    BY <1>2
  <1>14. Len(graph.nodes) = n
    BY <1>2
  <1> QED
    BY <1>6, <1>9, <1>10, <1>11, <1>12, <1>13, <1>14, Zenon
       DEF IsGraphTree, graph

-----------------------------------------------------------------------------
(* Its pages *)

\* Every page of a list holds at least one entry and at most as many as fit;
\* each but the last is full, and the last ends the list.
LEMMA PageBounds ==
    ASSUME NEW n \in Nat \ {0}, NEW size \in Nat \ {0}, NEW P,
           P = Pages(n, size)
    PROVE  /\ P \in Nat \ {0}
           /\ \A i \in 0..(P - 1) :
                /\ i * size \in Nat /\ PageEnd(n, i, size) \in 1..n
                /\ i * size < PageEnd(n, i, size)
                /\ PageEnd(n, i, size) - i * size \in 1..size
                /\ IF i < P - 1
                   THEN PageEnd(n, i, size) = i * size + size
                   ELSE PageEnd(n, i, size) = n
                /\ i # 0 => PageEnd(n, i - 1, size) = i * size
  <1>1. n + size - 1 \in Nat
    OBVIOUS
  <1>2. /\ P \in Nat /\ P * size \in Nat
        /\ P * size <= n + size - 1 /\ n + size - 1 < P * size + size
    BY <1>1, Quotient, Multiples DEF Pages
  <1>3. P # 0
    BY <1>2
  <1>4. P - 1 \in Nat /\ (P - 1) * size \in Nat
        /\ P * size = (P - 1) * size + size
    <2>1. P - 1 \in Nat /\ (P - 1) + 1 = P
      BY <1>2, <1>3
    <2> QED
      BY <2>1, Multiples
  <1>5. (P - 1) * size < n /\ n <= P * size
    BY <1>2, <1>4
  <1>6. ASSUME NEW i \in 0..(P - 1)
        PROVE  /\ i * size \in Nat /\ PageEnd(n, i, size) \in 1..n
               /\ i * size < PageEnd(n, i, size)
               /\ PageEnd(n, i, size) - i * size \in 1..size
               /\ IF i < P - 1
                  THEN PageEnd(n, i, size) = i * size + size
                  ELSE PageEnd(n, i, size) = n
    <2>1. i \in Nat /\ i <= P - 1
      BY <1>4
    <2>2. /\ i * size \in Nat /\ i * size <= (P - 1) * size
          /\ (i + 1) * size = i * size + size
      BY <1>4, <2>1, Multiples
    <2>3. CASE i < P - 1
      <3>1. i + 1 \in Nat /\ i + 1 <= P - 1
        BY <1>4, <2>1, <2>3
      <3>2. (i + 1) * size <= (P - 1) * size /\ (i + 1) * size \in Nat
        BY <1>4, <3>1, Multiples
      <3>3. PageEnd(n, i, size) = i * size + size
        BY <1>4, <1>5, <2>2, <3>2 DEF PageEnd
      <3> QED
        BY <1>4, <1>5, <2>2, <2>3, <3>2, <3>3
    <2>4. CASE ~ (i < P - 1)
      <3>1. i = P - 1
        BY <1>4, <2>1, <2>4
      <3>2. PageEnd(n, i, size) = n
        BY <1>4, <1>5, <2>2, <3>1 DEF PageEnd
      <3> QED
        BY <1>4, <1>5, <2>2, <2>4, <3>1, <3>2
    <2> QED
      BY <2>3, <2>4
  <1>7. ASSUME NEW i \in 0..(P - 1), i # 0
        PROVE  PageEnd(n, i - 1, size) = i * size
    <2>1. i - 1 \in 0..(P - 1) /\ i - 1 < P - 1 /\ i - 1 \in Nat
      BY <1>4, <1>7
    <2>2. PageEnd(n, i - 1, size) = (i - 1) * size + size
      BY <1>6, <2>1
    <2>3. (i - 1 + 1) * size = (i - 1) * size + size /\ i - 1 + 1 = i
      BY <1>7, <2>1, Multiples
    <2> QED
      BY <2>2, <2>3
  <1> QED
    BY <1>2, <1>3, <1>6, <1>7

\* A page of a list is the part of it between its bounds.
LEMMA PageIsPart ==
    ASSUME NEW E, NEW s \in Seq(E), Len(s) # 0, NEW size \in Nat \ {0},
           NEW i \in 0..(Pages(Len(s), size) - 1), NEW part,
           part = PageOf(s, i, size)
    PROVE  /\ IsPart(part, s, i * size, PageEnd(Len(s), i, size))
           /\ part \in Seq(E)
           /\ Len(part) = PageEnd(Len(s), i, size) - i * size
  <1> DEFINE first == i * size
             to == PageEnd(Len(s), i, size)
  <1>1. Len(s) \in Nat \ {0}
    OBVIOUS
  <1>2. first \in Nat /\ to \in 1..Len(s) /\ first < to
    BY <1>1, PageBounds
  <1>3. part = SubSeq(s, first + 1, to)
    BY Zenon DEF PageOf, PageEnd
  <1> HIDE DEF first, to
  <1>4. IsPart(part, s, first, to)
    BY <1>1, <1>2, <1>3, PartOfList
  <1>5. part \in Seq(E) /\ Len(part) = to - first
    <2>1. /\ first + 1 \in Int /\ to \in Int
          /\ \A j \in (first + 1)..to : s[j] \in E
      BY <1>1, <1>2
    <2>2. /\ part \in Seq(E)
          /\ Len(part) = IF first + 1 <= to THEN to - (first + 1) + 1 ELSE 0
      BY <1>3, <2>1, SubSeqProperties
    <2> QED
      BY <1>1, <1>2, <2>2
  <1> QED
    BY <1>4, <1>5 DEF first, to

\* The places of the Nodes of a page, counted from 1, and of those among them
\* that an edge leads to.
PagePlaces(graph, i) ==
    (i * GRAPH_PAGE_SIZE + 1)..PageEnd(Len(graph.nodes), i, GRAPH_PAGE_SIZE)

ChildPlaces(graph, i) == PagePlaces(graph, i) \ {1}

\* A page holds the Nodes at its places, with the edges into them.
LEMMA PageOfTree ==
    ASSUME NEW graph, IsGraphTree(graph), NEW i \in 0..(Len(graph.leaves) - 1),
           NEW page, page = GraphPage(graph, i)
    PROVE  LET first == i * GRAPH_PAGE_SIZE
               to == PageEnd(Len(graph.nodes), i, GRAPH_PAGE_SIZE)
           IN  /\ first \in Nat /\ to \in 1..Len(graph.nodes) /\ first < to
               /\ to - first \in 1..GRAPH_PAGE_SIZE
               /\ IsPart(page.nodes, graph.nodes, first, to)
               /\ Len(page.nodes) = to - first
               /\ page.edges = {EdgeInto(graph.nodes[j]) :
                                  j \in ChildPlaces(graph, i)}
               /\ page.externalParents =
                    {IdentityProof(graph, graph.nodes[j].parentOrdinal) :
                       j \in {c \in ChildPlaces(graph, i) :
                                graph.nodes[c].parentOrdinal < first}}
  <1> DEFINE size == GRAPH_PAGE_SIZE
             n == Len(graph.nodes)
             first == i * size
             to == PageEnd(n, i, size)
             mine == PageOf(graph.nodes, i, size)
             P == Pages(n, size)
             targets == {mine[k].sha : k \in DOMAIN mine}
  <1>1. size \in Nat \ {0} /\ n \in Nat \ {0} /\ Len(graph.leaves) = P
    BY GraphPageSizeIsPositive DEF IsGraphTree, IsNumbered
  <1>2. PICK E : graph.nodes \in Seq(E)
    BY DEF IsGraphTree, IsNumbered
  <1>3. first \in Nat /\ to \in 1..n /\ first < to /\ to - first \in 1..size
    BY <1>1, PageBounds
  <1>4. IsPart(mine, graph.nodes, first, to) /\ Len(mine) = to - first
    BY <1>1, <1>2, PageIsPart
  <1>5. /\ page.nodes = mine
        /\ page.edges = {e \in graph.edges : e.target \in targets}
        /\ page.externalParents =
             {IdentityProof(graph, mine[k].parentOrdinal) :
                k \in {j \in DOMAIN mine : /\ mine[j].parentOrdinal # None
                                           /\ mine[j].parentOrdinal < first}}
    BY DEF GraphPage
  <1> HIDE DEF first, to, mine, n
  <1>6. /\ DOMAIN mine = 1..(to - first)
        /\ \A k \in DOMAIN mine : /\ first + k \in (first + 1)..to
                                  /\ mine[k] = graph.nodes[first + k]
        /\ \A j \in (first + 1)..to :
             j - first \in DOMAIN mine /\ mine[j - first] = graph.nodes[j]
    <2>1. /\ DOMAIN mine = 1..(to - first)
          /\ \A k \in DOMAIN mine : /\ first + k \in (first + 1)..to
                                    /\ mine[k] = graph.nodes[first + k]
      BY <1>4 DEF IsPart
    <2>2. ASSUME NEW j \in (first + 1)..to
          PROVE  j - first \in 1..(to - first) /\ first + (j - first) = j
      BY <1>1, <1>3
    <2> QED
      BY <2>1, <2>2
  <1>7. ChildPlaces(graph, i) = ((first + 1)..to) \ {1}
    BY DEF ChildPlaces, PagePlaces, first, to, n
  <1>8. page.edges = {EdgeInto(graph.nodes[j]) : j \in ChildPlaces(graph, i)}
    <2>1. graph.edges = {EdgeInto(graph.nodes[j]) : j \in 2..n}
      BY DEF IsGraphTree, Children, n
    <2>2. ASSUME NEW j \in 2..n, EdgeInto(graph.nodes[j]).target \in targets
          PROVE  j \in ChildPlaces(graph, i)
      <3>1. PICK k \in DOMAIN mine : mine[k].sha = graph.nodes[j].sha
        BY <2>2 DEF EdgeInto
      <3>2. first + k \in (first + 1)..to /\ first + k \in 1..n /\ j \in 1..n
        BY <1>1, <1>3, <1>6
      <3>3. first + k = j
        BY <1>6, <3>1, <3>2, ZenonT(30) DEF IsGraphTree, n
      <3>4. j # 1
        BY <1>1
      <3> QED
        BY <1>7, <3>2, <3>3, <3>4
    <2>3. ASSUME NEW j \in ChildPlaces(graph, i)
          PROVE  j \in 2..n /\ EdgeInto(graph.nodes[j]).target \in targets
      <3>1. j \in (first + 1)..to /\ j # 1
        BY <1>7
      <3>2. j - first \in DOMAIN mine /\ mine[j - first] = graph.nodes[j]
        BY <1>6, <3>1
      <3>3. graph.nodes[j].sha \in targets
        BY <3>2
      <3>4. EdgeInto(graph.nodes[j]).target = graph.nodes[j].sha
        BY DEF EdgeInto
      <3>5. j \in 2..n
        BY <1>1, <1>3, <3>1
      <3> QED
        BY <3>3, <3>4, <3>5
    <2> HIDE DEF targets
    <2> QED
      BY <1>5, <2>1, <2>2, <2>3
  <1>9. \A j \in (first + 1)..to :
           /\ graph.nodes[j].parentOrdinal # None <=> j # 1
           /\ j # 1 => graph.nodes[j].parentOrdinal \in Nat
    <2> SUFFICES ASSUME NEW j \in (first + 1)..to
                 PROVE  /\ graph.nodes[j].parentOrdinal # None <=> j # 1
                        /\ j # 1 => graph.nodes[j].parentOrdinal \in Nat
      OBVIOUS
    <2>1. j \in 1..n /\ j \in Nat
      BY <1>1, <1>3
    <2>2. CASE j = 1
      BY <2>1, <2>2 DEF IsGraphTree, n
    <2>3. CASE j # 1
      <3>1. PICK c \in 1..(j - 1) : graph.nodes[j].parentOrdinal = c - 1
        BY <2>1, <2>3 DEF IsGraphTree, n
      <3>2. c - 1 \in Nat
        OBVIOUS
      <3> QED
        BY <2>3, <3>1, <3>2, NoneIsNoCursor
    <2> QED
      BY <2>2, <2>3
  <1>10. page.externalParents =
           {IdentityProof(graph, graph.nodes[j].parentOrdinal) :
              j \in {c \in ChildPlaces(graph, i) :
                       graph.nodes[c].parentOrdinal < first}}
    <2> DEFINE K == {j \in DOMAIN mine : /\ mine[j].parentOrdinal # None
                                         /\ mine[j].parentOrdinal < first}
               C == {c \in ChildPlaces(graph, i) :
                       graph.nodes[c].parentOrdinal < first}
    <2>1. ASSUME NEW k \in K
          PROVE  first + k \in C /\ mine[k] = graph.nodes[first + k]
      BY <1>6, <1>7, <1>9
    <2>2. ASSUME NEW j \in C
          PROVE  j - first \in K /\ mine[j - first] = graph.nodes[j]
      BY <1>6, <1>7, <1>9
    <2> HIDE DEF K, C
    <2>3. {IdentityProof(graph, mine[k].parentOrdinal) : k \in K}
            = {IdentityProof(graph, graph.nodes[j].parentOrdinal) : j \in C}
      BY <2>1, <2>2
    <2>4. page.externalParents =
            {IdentityProof(graph, mine[k].parentOrdinal) : k \in K}
      BY <1>5 DEF K
    <2> QED
      BY <2>3, <2>4 DEF C
  <1> QED
    BY <1>3, <1>4, <1>5, <1>8, <1>10 DEF first, to, n

\* What is left of a number by division is smaller than what it is divided by.
LEMMA Remainder ==
    ASSUME NEW a \in Nat, NEW size \in Nat \ {0}
    PROVE  /\ a % size \in 0..(size - 1)
           /\ a = (a \div size) * size + (a % size)
  OBVIOUS

\* A manifest describes the pages, one after another.
LEMMA ManifestOfTree ==
    ASSUME NEW graph, IsGraphTree(graph), NEW manifest,
           manifest = GraphManifest(graph)
    PROVE  /\ manifest.root = graph.root
           /\ manifest.nodeCount = Len(graph.nodes)
           /\ manifest.edgeCount = Cardinality(graph.edges)
           /\ Len(manifest.pages) = Len(graph.leaves)
           /\ Len(graph.leaves) = Pages(Len(graph.nodes), GRAPH_PAGE_SIZE)
           /\ Len(graph.leaves) \in Nat \ {0}
           /\ \A k \in 1..Len(graph.leaves) :
                LET page == GraphPage(graph, k - 1) IN
                manifest.pages[k] =
                  [nodeCount |-> Len(page.nodes),
                   edgeCount |-> Cardinality(page.edges),
                   identityRoot |-> RootOf(graph.leaves[k])]
  <1> DEFINE P == Len(graph.leaves)
             listed == [k \in DOMAIN graph.leaves |->
               LET page == GraphPage(graph, k - 1) IN
               [nodeCount |-> Len(page.nodes),
                edgeCount |-> Cardinality(page.edges),
                identityRoot |-> RootOf(graph.leaves[k])]]
  <1>1. /\ manifest.root = graph.root
        /\ manifest.nodeCount = Len(graph.nodes)
        /\ manifest.edgeCount = Cardinality(graph.edges)
        /\ manifest.pages = listed
    BY DEF GraphManifest
  <1>2. P = Pages(Len(graph.nodes), GRAPH_PAGE_SIZE)
        /\ DOMAIN graph.leaves = 1..P
    BY DEF IsGraphTree
  <1>3. P \in Nat \ {0}
    <2>1. Len(graph.nodes) \in Nat \ {0}
      BY DEF IsGraphTree, IsNumbered
    <2> QED
      BY <1>2, <2>1, GraphPageSizeIsPositive, PageBounds
  <1> HIDE DEF P
  <1>4. /\ listed = [k \in 1..P |-> listed[k]]
        /\ \A k \in 1..P : listed[k] =
             LET page == GraphPage(graph, k - 1) IN
             [nodeCount |-> Len(page.nodes),
              edgeCount |-> Cardinality(page.edges),
              identityRoot |-> RootOf(graph.leaves[k])]
    BY <1>2, Zenon
  <1> HIDE DEF listed
  <1>5. Len(listed) = P
    BY <1>3, <1>4, ListIsSequence
  <1>6. \A k \in 1..P : manifest.pages[k] =
             LET page == GraphPage(graph, k - 1) IN
             [nodeCount |-> Len(page.nodes),
              edgeCount |-> Cardinality(page.edges),
              identityRoot |-> RootOf(graph.leaves[k])]
    BY <1>1, <1>4, Zenon
  <1>7. Len(manifest.pages) = P
    BY <1>1, <1>5
  <1> QED
    BY <1>1, <1>2, <1>3, <1>6, <1>7, Zenon DEF P

\* The identity of a Node of a tree is one that readers take.
LEMMA IdentityOfNode ==
    ASSUME NEW graph, IsGraphTree(graph), NEW i \in 1..Len(graph.nodes)
    PROVE  /\ IdentityValid(Identity(graph.nodes[i]))
           /\ Identity(graph.nodes[i]).ordinal = i - 1
           /\ Identity(graph.nodes[i]).sha = graph.nodes[i].sha
           /\ graph.nodes[i].kind = "root" <=> i = 1
           /\ graph.nodes[i].parentOrdinal = None <=> i = 1
           /\ i # 1 =>
                \E j \in 1..(i - 1) :
                  /\ graph.nodes[i].parentOrdinal = j - 1
                  /\ graph.nodes[j].sha = graph.nodes[i].parent
                  /\ graph.nodes[j].sha # graph.nodes[i].sha
  <1> DEFINE n == graph.nodes[i]
  <1>1. Len(graph.nodes) \in Nat /\ n.ordinal = i - 1
    BY DEF IsGraphTree, IsNumbered
  <1>2. CASE i = 1
    <2>1. n.kind = "root" /\ n.parentOrdinal = None /\ n.ordinal = 0
      BY <1>1, <1>2 DEF IsGraphTree
    <2> HIDE DEF n
    <2>2. IdentityValid(Identity(n)) /\ Identity(n).ordinal = n.ordinal
          /\ Identity(n).sha = n.sha
      BY <2>1 DEF IdentityValid, Identity
    <2> QED
      BY <1>2, <2>1, <2>2 DEF n
  <1>3. CASE i # 1
    <2>1. n.kind # "root"
          /\ \E j \in 1..(i - 1) : /\ n.parentOrdinal = j - 1
                                   /\ graph.nodes[j].sha = n.parent
      BY <1>3 DEF IsGraphTree
    <2>2. PICK j \in 1..(i - 1) : /\ n.parentOrdinal = j - 1
                                  /\ graph.nodes[j].sha = n.parent
      BY <2>1
    <2>3. j - 1 \in Nat /\ j - 1 < i - 1 /\ j \in 1..Len(graph.nodes)
          /\ j # i
      BY <1>1
    <2>4. n.parentOrdinal # None
      BY <2>2, <2>3, NoneIsNoCursor
    <2>5. graph.nodes[j].sha # n.sha
      BY <2>3 DEF IsGraphTree
    <2> HIDE DEF n
    <2>6. IdentityValid(Identity(n)) /\ Identity(n).ordinal = n.ordinal
          /\ Identity(n).sha = n.sha
      BY <1>1, <2>1, <2>2, <2>3, <2>4 DEF IdentityValid, Identity
    <2> QED
      BY <1>1, <1>3, <2>1, <2>2, <2>4, <2>5, <2>6 DEF n
  <1> QED
    BY <1>2, <1>3

\* The membership proof of every Node holds against the manifest.
LEMMA IdentitiesAreProven ==
    ASSUME NEW graph, IsGraphTree(graph), NEW o \in 0..(Len(graph.nodes) - 1)
    PROVE  /\ IdentityProven(GraphManifest(graph), IdentityProof(graph, o))
           /\ IdentityProof(graph, o).identity = Identity(graph.nodes[o + 1])
  <1> DEFINE size == GRAPH_PAGE_SIZE
             n == Len(graph.nodes)
             pg == o \div size
             leaf == o % size
             proof == IdentityProof(graph, o)
             manifest == GraphManifest(graph)
             first == pg * size
             to == PageEnd(n, pg, size)
             page == GraphPage(graph, pg)
             leaves == graph.leaves[pg + 1]
             mine == PageOf(graph.nodes, pg, size)
  <1>1. size \in Nat \ {0} /\ n \in Nat \ {0} /\ o \in Nat /\ o < n
    BY GraphPageSizeIsPositive DEF IsGraphTree, IsNumbered
  <1>2. /\ pg \in Nat /\ leaf \in 0..(size - 1) /\ o = first + leaf
        /\ first \in Nat
    <2>1. /\ leaf \in 0..(size - 1)
          /\ o = first + leaf
      BY <1>1, Remainder
    <2>2. pg \in Nat
      BY <1>1, Quotient
    <2>3. first \in Nat
      BY <1>1, <2>2, Multiples
    <2> QED
      BY <2>1, <2>2, <2>3
  <1>3. /\ manifest.nodeCount = n /\ Len(manifest.pages) = Len(graph.leaves)
        /\ Len(graph.leaves) = Pages(n, size)
        /\ Len(graph.leaves) \in Nat \ {0}
        /\ \A k \in 1..Len(graph.leaves) :
             manifest.pages[k] =
               [nodeCount |-> Len(GraphPage(graph, k - 1).nodes),
                edgeCount |-> Cardinality(GraphPage(graph, k - 1).edges),
                identityRoot |-> RootOf(graph.leaves[k])]
    BY ManifestOfTree, Zenon
  <1>4. pg + 1 \in 1..Len(graph.leaves)
    BY <1>1, <1>3, PageOfNode
  <1> HIDE DEF manifest, size
  <1>5. /\ proof.page = pg /\ proof.leaf = leaf
        /\ proof.identity = Identity(graph.nodes[o + 1])
        /\ proof.siblings = ProofOf(leaves, leaf)
    BY DEF IdentityProof, size
  <1> HIDE DEF proof, pg, leaf
  <1>6. pg \in 0..(Len(graph.leaves) - 1) /\ pg + 1 - 1 = pg
    BY <1>2, <1>3, <1>4
  <1>7. manifest.pages[pg + 1].nodeCount = Len(page.nodes)
        /\ manifest.pages[pg + 1].identityRoot = RootOf(leaves)
    <2>1. manifest.pages[pg + 1] =
            [nodeCount |-> Len(GraphPage(graph, pg).nodes),
             edgeCount |-> Cardinality(GraphPage(graph, pg).edges),
             identityRoot |-> RootOf(graph.leaves[pg + 1])]
      BY <1>3, <1>4, <1>6
    <2> QED
      BY <2>1
  <1>8. /\ to \in 1..n /\ first < to
        /\ Len(page.nodes) = to - first
        /\ page.nodes = mine
    <2>1. page.nodes = mine
      BY DEF GraphPage, size
    <2> QED
      BY <1>6, <2>1, PageOfTree DEF size
  <1>9. leaf < to - first /\ leaf \in Nat
    <2>1. IF pg < Len(graph.leaves) - 1 THEN to = first + size ELSE to = n
      <3> DEFINE P == Len(graph.leaves)
      <3>1. P = Pages(n, size) /\ pg \in 0..(P - 1)
        BY <1>3, <1>6
      <3> HIDE DEF P, n
      <3>2. IF pg < P - 1 THEN PageEnd(n, pg, size) = pg * size + size
            ELSE PageEnd(n, pg, size) = n
        BY <1>1, <3>1, PageBounds
      <3> QED
        BY <3>2 DEF P
    <2> HIDE DEF first, to
    <2> QED
      BY <1>1, <1>2, <1>8, <2>1
  <1>10. IsPart(mine, graph.nodes, first, to) /\ \E E : mine \in Seq(E)
    <2>1. PICK E : graph.nodes \in Seq(E)
      BY DEF IsGraphTree, IsNumbered
    <2>2. Len(graph.nodes) # 0
      BY <1>1
    <2> QED
      BY <1>1, <1>3, <1>6, <2>1, <2>2, PageIsPart
  <1> HIDE DEF first, to, mine
  <1>11. /\ Len(leaves) = to - first
         /\ leaves[leaf + 1] = LeafDigest(Identity(graph.nodes[o + 1]))
         /\ \E E : leaves \in Seq(E)
    <2>1. leaves = IdentityLeaves(mine)
      BY <1>4, <1>6 DEF IsGraphTree, size, mine
    <2>2. DOMAIN mine = 1..(to - first)
          /\ \A k \in 1..(to - first) : mine[k] = graph.nodes[first + k]
      BY <1>10 DEF IsPart
    <2>3. leaves = [k \in 1..(to - first) |-> LeafDigest(Identity(mine[k]))]
      BY <2>1, <2>2, Zenon DEF IdentityLeaves
    <2>4. leaves = [k \in 1..(to - first) |-> leaves[k]]
          /\ \A k \in 1..(to - first) :
               leaves[k] = LeafDigest(Identity(mine[k]))
      BY <2>3, Zenon
    <2> HIDE DEF leaves
    <2>5. leaves \in Seq({leaves[k] : k \in 1..(to - first)})
          /\ Len(leaves) = to - first
      <3>1. leaves = [k \in 1..(to - first) |-> leaves[k]]
        BY <2>4
      <3>2. to - first \in Nat
        BY <1>2, <1>8
      <3> QED
        BY <3>1, <3>2, ListIsSequence
    <2>6. leaf + 1 \in 1..(to - first) /\ first + (leaf + 1) = o + 1
      BY <1>1, <1>2, <1>8, <1>9
    <2>7. leaves[leaf + 1] = LeafDigest(Identity(graph.nodes[o + 1]))
      BY <2>2, <2>4, <2>6
    <2> QED
      BY <2>5, <2>7, Zenon
  <1> HIDE DEF leaves
  <1>12. ProofHolds(LeafDigest(proof.identity), leaf, Len(page.nodes),
                    proof.siblings, RootOf(leaves))
    <2>1. PICK E : leaves \in Seq(E)
      BY <1>11
    <2>2. leaf \in 0..(Len(leaves) - 1)
      BY <1>2, <1>8, <1>9, <1>11
    <2>3. ProofHolds(leaves[leaf + 1], leaf, Len(leaves),
                     ProofOf(leaves, leaf), RootOf(leaves))
      BY <2>1, <2>2, ProofsHold
    <2>4. Len(leaves) = Len(page.nodes)
      BY <1>8, <1>11
    <2>5. leaves[leaf + 1] = LeafDigest(proof.identity)
      BY <1>5, <1>11
    <2> QED
      BY <1>5, <2>3, <2>4, <2>5
  <1>13. IdentityValid(proof.identity) /\ proof.identity.ordinal = o
    <2>1. o + 1 \in 1..Len(graph.nodes) /\ o + 1 - 1 = o
      BY <1>1
    <2> QED
      BY <1>5, <2>1, IdentityOfNode
  <1>14. pg < Len(manifest.pages)
    BY <1>3, <1>6
  <1>15. leaf < manifest.pages[pg + 1].nodeCount
    BY <1>7, <1>8, <1>9
  <1>16. proof.identity.ordinal = pg * size + leaf
    BY <1>2, <1>13 DEF first
  <1>17. IdentityProven(manifest, proof)
    BY <1>5, <1>7, <1>12, <1>13, <1>14, <1>15, <1>16
       DEF IdentityProven, size
  <1> QED
    BY <1>5, <1>17 DEF manifest, proof

-----------------------------------------------------------------------------
(* Its manifest, pages and shards as their readers check them *)

\* As many edges lead into Nodes as there are such Nodes.
LEMMA EdgesCounted ==
    ASSUME NEW graph, IsGraphTree(graph),
           NEW J \in SUBSET (1..Len(graph.nodes)),
           NEW S, S = {EdgeInto(graph.nodes[j]) : j \in J}
    PROVE  IsFiniteSet(S) /\ IsFiniteSet(J) /\ Cardinality(S) = Cardinality(J)
  <1> DEFINE f == [j \in J |-> EdgeInto(graph.nodes[j])]
  <1>1. IsFiniteSet(J)
    <2>1. Len(graph.nodes) \in Nat
      BY DEF IsGraphTree, IsNumbered
    <2>2. IsFiniteSet(1..Len(graph.nodes))
      BY <2>1, FS_Interval
    <2> QED
      BY <2>2, FS_Subset
  <1>2. \A i, j \in J : f[i] = f[j] => i = j
    <2> SUFFICES ASSUME NEW i \in J, NEW j \in J, f[i] = f[j]
                 PROVE  i = j
      OBVIOUS
    <2>1. EdgeInto(graph.nodes[i]).target = EdgeInto(graph.nodes[j]).target
      OBVIOUS
    <2>2. graph.nodes[i].sha = graph.nodes[j].sha
      BY <2>1 DEF EdgeInto
    <2> QED
      BY <2>2 DEF IsGraphTree
  <1>3. f = [j \in J |-> f[j]] /\ S = {f[j] : j \in J}
    OBVIOUS
  <1> HIDE DEF f
  <1> QED
    BY <1>1, <1>2, <1>3, CountOfValues

\* The root is the only Node of its page that no edge leads to.
LEMMA EdgesOfPage ==
    ASSUME NEW graph, IsGraphTree(graph), NEW i \in 0..(Len(graph.leaves) - 1)
    PROVE  Cardinality(GraphPage(graph, i).edges) =
             PageEnd(Len(graph.nodes), i, GRAPH_PAGE_SIZE)
               - (IF i = 0 THEN 1 ELSE i * GRAPH_PAGE_SIZE)
  <1> DEFINE size == GRAPH_PAGE_SIZE
             n == Len(graph.nodes)
             first == i * size
             to == PageEnd(n, i, size)
             J == ChildPlaces(graph, i)
             edges == GraphPage(graph, i).edges
  <1>1. /\ first \in Nat /\ to \in 1..n /\ first < to
        /\ edges = {EdgeInto(graph.nodes[j]) : j \in J}
    BY PageOfTree
  <1>2. n \in Nat /\ size \in Nat \ {0} /\ i \in Nat
    <2>1. Len(graph.leaves) \in Nat
      BY ManifestOfTree
    <2> QED
      BY <2>1, GraphPageSizeIsPositive DEF IsGraphTree, IsNumbered
  <1>3. IF i = 0 THEN first = 0 ELSE first >= 1
    <2>1. 0 * size = 0 /\ 1 * size = size
      BY <1>2
    <2>2. i # 0 => 1 * size <= i * size
      BY <1>2, Multiples
    <2> QED
      BY <1>1, <1>2, <2>1, <2>2
  <1>4. J = ((first + 1)..to) \ {1}
    BY DEF ChildPlaces, PagePlaces
  <1> HIDE DEF first, to, n
  <1>5. J = IF i = 0 THEN 2..to ELSE (first + 1)..to
    BY <1>1, <1>2, <1>3, <1>4
  <1>6. Cardinality(J) = IF i = 0 THEN to - 1 ELSE to - first
    <2>1. /\ Cardinality(2..to) = IF 2 > to THEN 0 ELSE to - 2 + 1
          /\ Cardinality((first + 1)..to) =
               IF first + 1 > to THEN 0 ELSE to - (first + 1) + 1
      <3>1. to \in Int /\ first + 1 \in Int /\ 2 \in Int
        BY <1>1, <1>2
      <3> QED
        BY <3>1, FS_Interval
    <2> QED
      BY <1>1, <1>2, <1>5, <2>1
  <1>7. J \in SUBSET (1..n)
    BY <1>1, <1>2, <1>4
  <1> HIDE DEF J, edges
  <1>8. Cardinality(edges) = Cardinality(J)
    <2>1. edges = {EdgeInto(graph.nodes[j]) : j \in J}
          /\ J \in SUBSET (1..Len(graph.nodes))
      BY <1>1, <1>7 DEF n
    <2> HIDE DEF to, first
    <2> QED
      BY <2>1, EdgesCounted, SMT
  <1>9. Cardinality(edges) = to - (IF i = 0 THEN 1 ELSE first)
    BY <1>6, <1>8
  <1> QED
    BY <1>9, Zenon DEF edges, to, first, n

\* The manifest of a tree is one that readers take: its pages are full but the
\* last, and their edges add up to one for every Node but the root.
LEMMA ManifestsDecode ==
    ASSUME NEW graph, IsGraphTree(graph)
    PROVE  ManifestDecodes(GraphManifest(graph))
  <1> DEFINE size == GRAPH_PAGE_SIZE
             n == Len(graph.nodes)
             P == Len(graph.leaves)
             manifest == GraphManifest(graph)
             s == [k \in 1..P |-> manifest.pages[k].edgeCount]
             t == [k \in 0..P |->
                     IF k = 0 THEN 0 ELSE PageEnd(n, k - 1, size) - 1]
  <1>1. /\ manifest.nodeCount = n
        /\ manifest.edgeCount = Cardinality(graph.edges)
        /\ Len(manifest.pages) = P
        /\ P = Pages(n, size) /\ P \in Nat \ {0}
    BY ManifestOfTree
  <1>2. \A k \in 1..P :
          /\ manifest.pages[k].nodeCount = Len(GraphPage(graph, k - 1).nodes)
          /\ manifest.pages[k].edgeCount =
               Cardinality(GraphPage(graph, k - 1).edges)
    <2> SUFFICES ASSUME NEW k \in 1..P
                 PROVE /\ manifest.pages[k].nodeCount =
                            Len(GraphPage(graph, k - 1).nodes)
                       /\ manifest.pages[k].edgeCount =
                            Cardinality(GraphPage(graph, k - 1).edges)
      OBVIOUS
    <2>1. manifest.pages[k] =
            [nodeCount |-> Len(GraphPage(graph, k - 1).nodes),
             edgeCount |-> Cardinality(GraphPage(graph, k - 1).edges),
             identityRoot |-> RootOf(graph.leaves[k])]
      BY ManifestOfTree, Zenon
    <2> QED
      BY <2>1
  <1>3. n \in Nat \ {0} /\ size \in Nat \ {0}
    BY GraphPageSizeIsPositive DEF IsGraphTree, IsNumbered
  <1>4. \A k \in 1..P : k - 1 \in 0..(P - 1) /\ k - 1 \in Nat
    BY <1>1
  <1> HIDE DEF manifest
  <1>5. \A k \in 1..P :
          /\ (k - 1) * size \in Nat /\ PageEnd(n, k - 1, size) \in 1..n
          /\ IF k < P THEN PageEnd(n, k - 1, size) = (k - 1) * size + size
             ELSE PageEnd(n, k - 1, size) = n
          /\ k # 1 => PageEnd(n, k - 1 - 1, size) = (k - 1) * size
    <2> HIDE DEF P, n, size
    <2> SUFFICES ASSUME NEW k \in 1..P
                 PROVE
          /\ (k - 1) * size \in Nat /\ PageEnd(n, k - 1, size) \in 1..n
          /\ IF k < P THEN PageEnd(n, k - 1, size) = (k - 1) * size + size
             ELSE PageEnd(n, k - 1, size) = n
          /\ k # 1 => PageEnd(n, k - 1 - 1, size) = (k - 1) * size
      OBVIOUS
    <2> DEFINE i == k - 1
    <2>1. i \in 0..(P - 1)
      BY <1>4
    <2>2. (i < P - 1) = (k < P) /\ (i # 0) = (k # 1)
      BY <1>1
    <2> HIDE DEF i
    <2>3. /\ i * size \in Nat /\ PageEnd(n, i, size) \in 1..n
          /\ IF i < P - 1 THEN PageEnd(n, i, size) = i * size + size
             ELSE PageEnd(n, i, size) = n
          /\ i # 0 => PageEnd(n, i - 1, size) = i * size
      BY <1>1, <1>3, <2>1, PageBounds
    <2> QED
      BY <2>2, <2>3 DEF i
  <1>6. \A k \in 1..P :
          Len(GraphPage(graph, k - 1).nodes)
            = PageEnd(n, k - 1, size) - (k - 1) * size
    BY <1>4, PageOfTree
  <1>7. \A k \in 1..(P - 1) : manifest.pages[k].nodeCount = size
    <2> SUFFICES ASSUME NEW k \in 1..(P - 1)
                 PROVE  manifest.pages[k].nodeCount = size
      OBVIOUS
    <2>1. k \in 1..P /\ k < P
      BY <1>1
    <2> HIDE DEF P, n, size
    <2>2. /\ manifest.pages[k].nodeCount
               = PageEnd(n, k - 1, size) - (k - 1) * size
          /\ PageEnd(n, k - 1, size) = (k - 1) * size + size
          /\ (k - 1) * size \in Nat
      BY <1>2, <1>5, <1>6, <2>1
    <2> QED
      BY <1>3, <2>2
  <1>8. manifest.pages[P].nodeCount = n - (P - 1) * size
    <2>1. P \in 1..P /\ ~ (P < P)
      BY <1>1
    <2> HIDE DEF P, n, size
    <2>2. /\ manifest.pages[P].nodeCount
               = PageEnd(n, P - 1, size) - (P - 1) * size
          /\ PageEnd(n, P - 1, size) = n
      BY <1>2, <1>5, <1>6, <2>1
    <2> QED
      BY <2>2
  <1>9. Cardinality(graph.edges) = n - 1
    <2> DEFINE J == 2..n
    <2>1. graph.edges = {EdgeInto(graph.nodes[j]) : j \in J}
      BY DEF IsGraphTree, Children
    <2>2. J \in SUBSET (1..n)
      BY <1>3
    <2>3. Cardinality(J) = n - 1
      <3>1. Cardinality(2..n) = IF 2 > n THEN 0 ELSE n - 2 + 1
        BY <1>3, FS_Interval, SMTT(30)
      <3> QED
        BY <1>3, <3>1
    <2> HIDE DEF J
    <2> QED
      BY <2>1, <2>2, <2>3, EdgesCounted
  <1>10. SumOf(s) = n - 1
    <2> HIDE DEF n, size
    <2>1. \A k \in 1..P : s[k] = PageEnd(n, k - 1, size)
                            - (IF k = 1 THEN 1 ELSE (k - 1) * size)
      <3> SUFFICES ASSUME NEW k \in 1..P
                   PROVE  s[k] = PageEnd(n, k - 1, size)
                            - (IF k = 1 THEN 1 ELSE (k - 1) * size)
        OBVIOUS
      <3>1. s[k] = Cardinality(GraphPage(graph, k - 1).edges)
        BY <1>2
      <3>2. Cardinality(GraphPage(graph, k - 1).edges) =
              PageEnd(n, k - 1, size)
                - (IF k - 1 = 0 THEN 1 ELSE (k - 1) * size)
        BY <1>4, EdgesOfPage DEF n, size
      <3>3. (k - 1 = 0) = (k = 1)
        OBVIOUS
      <3> QED
        BY <3>1, <3>2, <3>3
    <2>2. /\ t = [k \in 0..P |-> t[k]] /\ t[0] = 0
          /\ t[P] = PageEnd(n, P - 1, size) - 1
      BY <1>1
    <2>3. \A k \in 1..P : t[k] = t[k - 1] + s[k]
      <3> SUFFICES ASSUME NEW k \in 1..P
                   PROVE  t[k] = t[k - 1] + s[k]
        OBVIOUS
      <3>1. /\ k \in 0..P /\ k # 0 /\ k - 1 \in 0..P
            /\ (k - 1 = 0) = (k = 1)
        BY <1>1
      <3>2. /\ t[k] = PageEnd(n, k - 1, size) - 1
            /\ t[k - 1] = IF k = 1 THEN 0 ELSE PageEnd(n, k - 1 - 1, size) - 1
        BY <3>1
      <3> HIDE DEF t, s
      <3>3. s[k] = PageEnd(n, k - 1, size)
                     - (IF k = 1 THEN 1 ELSE (k - 1) * size)
        BY <2>1
      <3>4. /\ (k - 1) * size \in Nat /\ PageEnd(n, k - 1, size) \in 1..n
            /\ k # 1 => PageEnd(n, k - 1 - 1, size) = (k - 1) * size
        BY <1>5
      <3> QED
        BY <1>3, <3>2, <3>3, <3>4
    <2>4. Len(s) = P
      <3>1. s = [k \in 1..P |-> s[k]] /\ P \in Nat
        BY <1>1
      <3> HIDE DEF s
      <3> QED
        BY <3>1, ListIsSequence
    <2>5. PageEnd(n, P - 1, size) = n
      <3>1. P \in 1..P /\ ~ (P < P)
        BY <1>1
      <3> HIDE DEF P
      <3> QED
        BY <1>5, <3>1
    <2>6. P \in Nat
      BY <1>1
    <2> HIDE DEF s, t, P
    <2>7. SumOf(s) = t[P]
      <3>1. Grows(t, s, P)
        BY <2>2, <2>3, Zenon DEF Grows
      <3> QED
        BY <3>1, <2>4, <2>6, SumOfGrowth
    <2> QED
      BY <2>2, <2>5, <2>7
  <1>11. manifest.nodeCount > 0
    BY <1>1, <1>3
  <1> HIDE DEF n, P, size
  <1>12. SumOf([k \in 1..P |-> manifest.pages[k].edgeCount]) = n - 1
    BY <1>10
  <1>13. ManifestDecodes(manifest)
    BY <1>1, <1>7, <1>8, <1>9, <1>11, <1>12 DEF ManifestDecodes, size
  <1> QED
    BY <1>13 DEF manifest

\* The Nodes of a page are those at its places.
LEMMA NodesOfPage ==
    ASSUME NEW graph, IsGraphTree(graph), NEW i \in 0..(Len(graph.leaves) - 1),
           NEW page, page = GraphPage(graph, i)
    PROVE  /\ \A j \in PagePlaces(graph, i) :
                \E k \in DOMAIN page.nodes : page.nodes[k] = graph.nodes[j]
           /\ \A k \in DOMAIN page.nodes :
                /\ k \in Nat
                /\ i * GRAPH_PAGE_SIZE + k \in PagePlaces(graph, i)
                /\ page.nodes[k] = graph.nodes[i * GRAPH_PAGE_SIZE + k]
           /\ PagePlaces(graph, i) \subseteq 1..Len(graph.nodes)
           /\ 1 \in DOMAIN page.nodes
  <1> DEFINE first == i * GRAPH_PAGE_SIZE
             to == PageEnd(Len(graph.nodes), i, GRAPH_PAGE_SIZE)
  <1>1. /\ first \in Nat /\ to \in 1..Len(graph.nodes) /\ first < to
        /\ IsPart(page.nodes, graph.nodes, first, to)
    BY PageOfTree
  <1>2. PagePlaces(graph, i) = (first + 1)..to
    BY DEF PagePlaces
  <1> HIDE DEF first, to
  <1>3. /\ DOMAIN page.nodes = 1..(to - first)
        /\ \A k \in 1..(to - first) :
             /\ k \in Nat /\ first + k \in (first + 1)..to
             /\ page.nodes[k] = graph.nodes[first + k]
    BY <1>1 DEF IsPart
  <1>4. \A j \in (first + 1)..to :
           j - first \in 1..(to - first) /\ first + (j - first) = j
    BY <1>1
  <1>5. 1 \in 1..(to - first)
    BY <1>1
  <1>6. (first + 1)..to \subseteq 1..Len(graph.nodes)
    BY <1>1
  <1>7. \A j \in (first + 1)..to :
           \E k \in 1..(to - first) : page.nodes[k] = graph.nodes[j]
    BY <1>3, <1>4
  <1> QED
    BY <1>2, <1>3, <1>5, <1>6, <1>7 DEF first

\* The parent of a Node of a tree is registered before it, and is the only
\* Node with its ordinal.
LEMMA ParentOfNode ==
    ASSUME NEW graph, IsGraphTree(graph), NEW i \in 1..Len(graph.nodes), i # 1
    PROVE  LET n == graph.nodes[i] IN
           /\ n.parentOrdinal \in 0..(Len(graph.nodes) - 1)
           /\ n.parentOrdinal < n.ordinal /\ n.parentOrdinal # None
           /\ graph.nodes[n.parentOrdinal + 1].sha = n.parent
           /\ \A j \in 1..Len(graph.nodes) :
                graph.nodes[j].ordinal = n.parentOrdinal =>
                  j = n.parentOrdinal + 1
  <1> DEFINE n == graph.nodes[i]
  <1>1. PICK j \in 1..(i - 1) : /\ n.parentOrdinal = j - 1
                                /\ graph.nodes[j].sha = n.parent
    BY IdentityOfNode
  <1>2. Len(graph.nodes) \in Nat /\ n.ordinal = i - 1
        /\ \A k \in 1..Len(graph.nodes) : graph.nodes[k].ordinal = k - 1
    BY DEF IsGraphTree, IsNumbered
  <1>3. j - 1 \in Nat /\ j - 1 + 1 = j /\ j - 1 < i - 1
        /\ j - 1 \in 0..(Len(graph.nodes) - 1)
    BY <1>2
  <1>4. n.parentOrdinal # None
    BY <1>1, <1>3, NoneIsNoCursor
  <1>5. \A k \in 1..Len(graph.nodes) :
           graph.nodes[k].ordinal = j - 1 => k = j
    BY <1>2
  <1> QED
    BY <1>1, <1>2, <1>3, <1>4, <1>5

\* Every page of a tree is one that readers decode.
LEMMA PagesDecode ==
    ASSUME NEW graph, IsGraphTree(graph), NEW i \in 0..(Len(graph.leaves) - 1)
    PROVE  PageDecodes(GraphPage(graph, i))
  <1> DEFINE page == GraphPage(graph, i)
             N == 1..Len(graph.nodes)
             J == PagePlaces(graph, i)
             first == i * GRAPH_PAGE_SIZE
             mine == {page.nodes[k] : k \in DOMAIN page.nodes}
             external == {n \in mine : n.parentOrdinal # None
                                       /\ n.parentOrdinal < first}
             proofs == page.externalParents
             edges == page.edges
  <1>1. /\ Len(page.nodes) \in 1..GRAPH_PAGE_SIZE /\ first \in Nat
        /\ edges = {EdgeInto(graph.nodes[j]) : j \in J \ {1}}
        /\ proofs =
             {IdentityProof(graph, graph.nodes[j].parentOrdinal) :
                j \in {c \in J \ {1} : graph.nodes[c].parentOrdinal < first}}
    BY PageOfTree, Zenon DEF ChildPlaces
  <1>2. /\ mine = {graph.nodes[j] : j \in J} /\ J \subseteq N
        /\ \A k \in DOMAIN page.nodes :
             /\ k \in Nat /\ first + k \in J
             /\ page.nodes[k] = graph.nodes[first + k]
    <2>1. page = GraphPage(graph, i)
      OBVIOUS
    <2> HIDE DEF page
    <2>2. \A j \in J :
             \E k \in DOMAIN page.nodes : page.nodes[k] = graph.nodes[j]
      BY <2>1, NodesOfPage
    <2>3. J \subseteq N
      BY <2>1, NodesOfPage
    <2>4. \A k \in DOMAIN page.nodes :
             /\ k \in Nat /\ first + k \in J
             /\ page.nodes[k] = graph.nodes[first + k]
      BY <2>1, NodesOfPage
    <2>5. mine = {graph.nodes[j] : j \in J}
      <3> HIDE DEF J
      <3> QED
        BY <2>2, <2>4
    <2> QED
      BY <2>3, <2>4, <2>5
  <1>3. page.index = i
        /\ \A r \in page.activeRuns : \E k \in DOMAIN page.nodes :
             page.nodes[k].sha = runs[r].source
    BY DEF GraphPage
  <1>4. \A r \in page.activeRuns : \E n \in mine : n.sha = runs[r].source
    BY <1>3
  <1> HIDE DEF page, J, mine, proofs, edges
  <1>5. \A j \in N :
          /\ graph.nodes[j].ordinal = j - 1
          /\ IdentityValid(Identity(graph.nodes[j]))
          /\ graph.nodes[j].kind = "root" <=> j = 1
          /\ graph.nodes[j].parentOrdinal # None <=> j # 1
          /\ j # 1 => graph.nodes[j].parent # graph.nodes[j].sha
          /\ \A c \in N : graph.nodes[c].sha = graph.nodes[j].sha => c = j
    <2> SUFFICES ASSUME NEW j \in N
                 PROVE
          /\ graph.nodes[j].ordinal = j - 1
          /\ IdentityValid(Identity(graph.nodes[j]))
          /\ graph.nodes[j].kind = "root" <=> j = 1
          /\ graph.nodes[j].parentOrdinal # None <=> j # 1
          /\ j # 1 => graph.nodes[j].parent # graph.nodes[j].sha
          /\ \A c \in N : graph.nodes[c].sha = graph.nodes[j].sha => c = j
      OBVIOUS
    <2>1. \A c \in N : graph.nodes[c].sha = graph.nodes[j].sha => c = j
      BY DEF IsGraphTree
    <2>2. graph.nodes[j].ordinal = j - 1
      BY DEF IsGraphTree, IsNumbered
    <2>3. j # 1 => graph.nodes[j].parent # graph.nodes[j].sha
      BY IdentityOfNode
    <2>4. /\ IdentityValid(Identity(graph.nodes[j]))
          /\ graph.nodes[j].kind = "root" <=> j = 1
          /\ graph.nodes[j].parentOrdinal # None <=> j # 1
      BY IdentityOfNode
    <2> QED
      BY <2>1, <2>2, <2>3, <2>4
  <1>6. \A j \in N \ {1} :
          /\ \A c \in N : graph.nodes[c].ordinal = graph.nodes[j].parentOrdinal
               => graph.nodes[c].sha = graph.nodes[j].parent
          /\ IdentityProof(graph, graph.nodes[j].parentOrdinal).identity.ordinal
               = graph.nodes[j].parentOrdinal
          /\ IdentityProof(graph, graph.nodes[j].parentOrdinal).identity.sha
               = graph.nodes[j].parent
    <2> SUFFICES ASSUME NEW j \in N \ {1}
                 PROVE
          /\ \A c \in N : graph.nodes[c].ordinal = graph.nodes[j].parentOrdinal
               => graph.nodes[c].sha = graph.nodes[j].parent
          /\ IdentityProof(graph, graph.nodes[j].parentOrdinal).identity.ordinal
               = graph.nodes[j].parentOrdinal
          /\ IdentityProof(graph, graph.nodes[j].parentOrdinal).identity.sha
               = graph.nodes[j].parent
      OBVIOUS
    <2> DEFINE o == graph.nodes[j].parentOrdinal
    <2>1. /\ o \in 0..(Len(graph.nodes) - 1)
          /\ graph.nodes[o + 1].sha = graph.nodes[j].parent
          /\ \A c \in N : graph.nodes[c].ordinal = o => c = o + 1
      BY ParentOfNode
    <2>2. o + 1 \in N /\ o + 1 - 1 = o
      <3>1. Len(graph.nodes) \in Nat
        BY DEF IsGraphTree, IsNumbered
      <3> HIDE DEF o
      <3> QED
        BY <2>1, <3>1
    <2> HIDE DEF o
    <2>3. IdentityProof(graph, o).identity = Identity(graph.nodes[o + 1])
      BY <2>1, IdentitiesAreProven
    <2>4. /\ Identity(graph.nodes[o + 1]).ordinal = o
          /\ Identity(graph.nodes[o + 1]).sha = graph.nodes[o + 1].sha
      <3> DEFINE c == o + 1
      <3>1. c \in N /\ c - 1 = o
        BY <2>1, <2>2
      <3> HIDE DEF c
      <3>2. /\ Identity(graph.nodes[c]).ordinal = c - 1
            /\ Identity(graph.nodes[c]).sha = graph.nodes[c].sha
        BY <3>1, IdentityOfNode
      <3> QED
        BY <3>1, <3>2 DEF c
    <2>5. \A c \in N : graph.nodes[c].ordinal = o
             => graph.nodes[c].sha = graph.nodes[j].parent
      BY <2>1
    <2> QED
      BY <2>1, <2>3, <2>4, <2>5 DEF o
  <1>7. \A k \in DOMAIN page.nodes : page.nodes[k].ordinal = first + k - 1
    <2> SUFFICES ASSUME NEW k \in DOMAIN page.nodes
                 PROVE  page.nodes[k].ordinal = first + k - 1
      OBVIOUS
    <2> DEFINE c == first + k
    <2>1. c \in N /\ page.nodes[k] = graph.nodes[c] /\ k \in Nat
      BY <1>2
    <2> HIDE DEF c, first
    <2>2. page.nodes[k].ordinal = c - 1
      BY <1>5, <2>1
    <2>3. c - 1 = first + k - 1
      BY <1>1, <2>1 DEF c
    <2> QED
      BY <2>2, <2>3
  <1>8. \A n, m \in mine : n.sha = m.sha => n = m
    BY <1>2, <1>5
  <1>9. \A n \in mine : IdentityValid(Identity(n))
    BY <1>2, <1>5
  <1>10. \A j : /\ EdgeInto(graph.nodes[j]).target = graph.nodes[j].sha
                /\ EdgeInto(graph.nodes[j]).source = graph.nodes[j].parent
                /\ EdgeInto(graph.nodes[j]).kind = graph.nodes[j].kind
                /\ EdgeInto(graph.nodes[j]).origin = graph.nodes[j].origin
    BY DEF EdgeInto
  <1>11. \A e, f \in edges : e.target = f.target => e = f
    <2> SUFFICES ASSUME NEW e \in edges, NEW f \in edges, e.target = f.target
                 PROVE  e = f
      OBVIOUS
    <2>1. PICK a \in J \ {1} : e = EdgeInto(graph.nodes[a])
      BY <1>1
    <2>2. PICK b \in J \ {1} : f = EdgeInto(graph.nodes[b])
      BY <1>1
    <2>3. graph.nodes[a].sha = graph.nodes[b].sha
      BY <1>10, <2>1, <2>2
    <2>4. a = b
      BY <1>2, <1>5, <2>3
    <2> QED
      BY <2>1, <2>2, <2>4
  <1>12. \A e \in edges :
           e.source # e.target /\ \E n \in mine : n.sha = e.target
    <2> SUFFICES ASSUME NEW e \in edges
                 PROVE  e.source # e.target /\ \E n \in mine : n.sha = e.target
      OBVIOUS
    <2>1. PICK a \in J \ {1} : e = EdgeInto(graph.nodes[a])
      BY <1>1
    <2>2. graph.nodes[a] \in mine /\ a \in N \ {1}
      BY <1>2
    <2> QED
      BY <1>5, <1>10, <2>1, <2>2
  <1>13. \A n \in mine :
           IF n.kind = "root" THEN \A e \in edges : e.target # n.sha
           ELSE /\ \E e \in edges :
                     /\ e.target = n.sha /\ e.source = n.parent
                     /\ e.kind = n.kind /\ e.origin = n.origin
                /\ \A m \in mine : m.ordinal = n.parentOrdinal =>
                                     m.sha = n.parent
                /\ n \in external =>
                     \E proof \in proofs :
                       /\ proof.identity.ordinal = n.parentOrdinal
                       /\ proof.identity.sha = n.parent
    <2> SUFFICES ASSUME NEW n \in mine
                 PROVE
           IF n.kind = "root" THEN \A e \in edges : e.target # n.sha
           ELSE /\ \E e \in edges :
                     /\ e.target = n.sha /\ e.source = n.parent
                     /\ e.kind = n.kind /\ e.origin = n.origin
                /\ \A m \in mine : m.ordinal = n.parentOrdinal =>
                                     m.sha = n.parent
                /\ n \in external =>
                     \E proof \in proofs :
                       /\ proof.identity.ordinal = n.parentOrdinal
                       /\ proof.identity.sha = n.parent
      OBVIOUS
    <2>1. PICK j \in J : n = graph.nodes[j]
      BY <1>2
    <2>2. j \in N
      BY <1>2
    <2>3. CASE j = 1
      <3>1. n.kind = "root"
        BY <1>5, <2>1, <2>2, <2>3
      <3>2. \A e \in edges : e.target # n.sha
        <4> SUFFICES ASSUME NEW e \in edges PROVE e.target # n.sha
          OBVIOUS
        <4>1. PICK a \in J \ {1} : e = EdgeInto(graph.nodes[a])
          BY <1>1
        <4>2. a \in N
          BY <1>2
        <4> QED
          BY <1>5, <1>10, <2>1, <2>2, <2>3, <4>1, <4>2
      <3> QED
        BY <3>1, <3>2
    <2>4. CASE j # 1
      <3>1. n.kind # "root"
        BY <1>5, <2>1, <2>2, <2>4
      <3>2. \E e \in edges : /\ e.target = n.sha /\ e.source = n.parent
                             /\ e.kind = n.kind /\ e.origin = n.origin
        <4>1. EdgeInto(graph.nodes[j]) \in edges
          BY <1>1, <2>4
        <4> QED
          BY <1>10, <2>1, <4>1
      <3>3. \A m \in mine : m.ordinal = n.parentOrdinal => m.sha = n.parent
        BY <1>2, <1>6, <2>1, <2>2, <2>4
      <3>4. n \in external =>
              \E proof \in proofs :
                /\ proof.identity.ordinal = n.parentOrdinal
                /\ proof.identity.sha = n.parent
        <4> SUFFICES ASSUME n \in external
                     PROVE \E proof \in proofs :
                             /\ proof.identity.ordinal = n.parentOrdinal
                             /\ proof.identity.sha = n.parent
          OBVIOUS
        <4>1. j \in {c \in J \ {1} : graph.nodes[c].parentOrdinal < first}
          BY <2>1, <2>4
        <4>2. IdentityProof(graph, graph.nodes[j].parentOrdinal) \in proofs
          BY <1>1, <4>1
        <4> QED
          BY <1>6, <2>1, <2>2, <2>4, <4>2
      <3> QED
        BY <3>1, <3>2, <3>3, <3>4
    <2> QED
      BY <2>3, <2>4
  <1>14. {proof.identity.ordinal : proof \in proofs}
           = {n.parentOrdinal : n \in external}
    <2> DEFINE C == {c \in J \ {1} : graph.nodes[c].parentOrdinal < first}
    <2>1. external = {graph.nodes[c] : c \in C}
      <3>1. \A n \in external : \E c \in C : n = graph.nodes[c]
        BY <1>2, <1>5
      <3>2. \A c \in C : graph.nodes[c] \in external
        BY <1>2, <1>5
      <3> HIDE DEF C, external
      <3> QED
        BY <3>1, <3>2
    <2>2. \A c \in C :
            IdentityProof(graph, graph.nodes[c].parentOrdinal).identity.ordinal
              = graph.nodes[c].parentOrdinal
      BY <1>2, <1>6
    <2>3. proofs = {IdentityProof(graph, graph.nodes[c].parentOrdinal) :
                      c \in C}
      BY <1>1
    <2> HIDE DEF C, external
    <2> QED
      BY <2>1, <2>2, <2>3
  <1> HIDE DEF external
  <1>15. PageDecodes(page)
    BY <1>1, <1>3, <1>4, <1>7, <1>8, <1>9, <1>11, <1>12, <1>13, <1>14, Zenon
       DEF PageDecodes, mine, external, proofs, edges, first
  <1> QED
    BY <1>15 DEF page

\* Every page of a tree matches the manifest.
LEMMA PagesMatch ==
    ASSUME NEW graph, IsGraphTree(graph), NEW i \in 0..(Len(graph.leaves) - 1)
    PROVE  PageMatches(GraphManifest(graph), GraphPage(graph, i))
  <1> DEFINE page == GraphPage(graph, i)
             manifest == GraphManifest(graph)
             P == Len(graph.leaves)
  <1>1. PageDecodes(page)
    BY PagesDecode
  <1>2. page.index = i
    BY DEF GraphPage
  <1>3. /\ manifest.root = graph.root /\ Len(manifest.pages) = P /\ P \in Nat
        /\ \A k \in 1..P : manifest.pages[k] =
             [nodeCount |-> Len(GraphPage(graph, k - 1).nodes),
              edgeCount |-> Cardinality(GraphPage(graph, k - 1).edges),
              identityRoot |-> RootOf(graph.leaves[k])]
    BY ManifestOfTree, Zenon
  <1>4. i < P /\ i + 1 \in 1..P /\ i + 1 - 1 = i /\ i \in Nat
    BY <1>3
  <1>5. graph.leaves[i + 1] = IdentityLeaves(page.nodes)
    <2>1. page.nodes = PageOf(graph.nodes, i, GRAPH_PAGE_SIZE)
      BY DEF GraphPage
    <2>2. graph.leaves[i + 1] =
            IdentityLeaves(PageOf(graph.nodes, i + 1 - 1, GRAPH_PAGE_SIZE))
      BY <1>4 DEF IsGraphTree
    <2> QED
      BY <1>4, <2>1, <2>2
  <1>6. LET descriptor == manifest.pages[i + 1] IN
        /\ descriptor.nodeCount = Len(page.nodes)
        /\ descriptor.edgeCount = Cardinality(page.edges)
        /\ descriptor.identityRoot = RootOf(IdentityLeaves(page.nodes))
    <2>1. manifest.pages[i + 1] =
            [nodeCount |-> Len(page.nodes),
             edgeCount |-> Cardinality(page.edges),
             identityRoot |-> RootOf(graph.leaves[i + 1])]
      BY <1>3, <1>4
    <2> HIDE DEF page, manifest
    <2> QED
      BY <1>5, <2>1
  <1>7. \A proof \in page.externalParents : IdentityProven(manifest, proof)
    <2> SUFFICES ASSUME NEW proof \in page.externalParents
                 PROVE  IdentityProven(manifest, proof)
      OBVIOUS
    <2>1. PICK j \in ChildPlaces(graph, i) :
            proof = IdentityProof(graph, graph.nodes[j].parentOrdinal)
      BY PageOfTree
    <2>2. j \in 1..Len(graph.nodes) /\ j # 1
      BY <2>1, NodesOfPage DEF ChildPlaces
    <2>3. graph.nodes[j].parentOrdinal \in 0..(Len(graph.nodes) - 1)
      BY <2>2, ParentOfNode
    <2> QED
      BY <2>1, <2>3, IdentitiesAreProven
  <1>8. i = 0 => page.nodes[1].sha = manifest.root
    <2> SUFFICES ASSUME i = 0 PROVE page.nodes[1].sha = manifest.root
      OBVIOUS
    <2>1. page.nodes[1] = graph.nodes[0 * GRAPH_PAGE_SIZE + 1]
      BY NodesOfPage
    <2>2. 0 * GRAPH_PAGE_SIZE + 1 = 1
      BY GraphPageSizeIsPositive
    <2>3. graph.nodes[1].sha = graph.root
      <3>1. 1 \in 1..Len(graph.nodes)
        BY DEF IsGraphTree, IsNumbered
      <3> QED
        BY <3>1 DEF IsGraphTree
    <2> QED
      BY <1>3, <2>1, <2>2, <2>3
  <1> HIDE DEF page, manifest
  <1>9. PageMatches(manifest, page)
    BY <1>1, <1>2, <1>3, <1>4, <1>6, <1>7, <1>8 DEF PageMatches
  <1> QED
    BY <1>9 DEF page, manifest

\* The places of the Nodes that are registered on Node number i of a graph.
PlacesOn(graph, i) ==
    {j \in Children(graph) : graph.nodes[j].parent = graph.nodes[i].sha}

\* A shard holds the edges from its Node, and a proof for the target of each.
IsShardOf(shard, graph, i) ==
    /\ shard.node = graph.nodes[i]
    /\ shard.nodeProof = IdentityProof(graph, i - 1)
    /\ shard.parentProof =
         {IdentityProof(graph, o) :
            o \in {graph.nodes[i].parentOrdinal} \ {None}}
    /\ shard.outgoingEdges =
         {EdgeInto(graph.nodes[j]) : j \in PlacesOn(graph, i)}
    /\ shard.outgoingTargetProofs =
         {IdentityProof(graph, j - 1) : j \in PlacesOn(graph, i)}
    /\ \A r \in shard.activeRuns : runs[r].source = graph.nodes[i].sha

LEMMA ShardOfNode ==
    ASSUME NEW graph, IsGraphTree(graph), NEW i \in 1..Len(graph.nodes)
    PROVE  IsShardOf(GraphNodeShard(graph, graph.nodes[i]), graph, i)
  <1> DEFINE shard == GraphNodeShard(graph, graph.nodes[i])
             n == graph.nodes[i]
             N == 1..Len(graph.nodes)
             K == PlacesOn(graph, i)
             out == {e \in graph.edges : e.source = n.sha}
             targets == {m \in {graph.nodes[j] : j \in DOMAIN graph.nodes} :
                           \E e \in out : e.target = m.sha}
  <1>1. /\ shard.node = n
        /\ shard.nodeProof = IdentityProof(graph, n.ordinal)
        /\ shard.parentProof =
             {IdentityProof(graph, o) : o \in {n.parentOrdinal} \ {None}}
        /\ shard.outgoingEdges = out
        /\ shard.outgoingTargetProofs =
             {IdentityProof(graph, m.ordinal) : m \in targets}
        /\ shard.activeRuns = {r \in graph.activeRuns : runs[r].source = n.sha}
    BY DEF GraphNodeShard
  <1>2. /\ DOMAIN graph.nodes = N
        /\ \A j \in N : graph.nodes[j].ordinal = j - 1
        /\ Children(graph) \subseteq N
    <2>1. Len(graph.nodes) \in Nat /\ DOMAIN graph.nodes = N
      BY DEF IsGraphTree, IsNumbered
    <2>2. \A j \in N : graph.nodes[j].ordinal = j - 1
      BY DEF IsGraphTree, IsNumbered
    <2>3. Children(graph) \subseteq N
      BY <2>1 DEF Children
    <2> QED
      BY <2>1, <2>2, <2>3
  <1>3. graph.edges = {EdgeInto(graph.nodes[j]) : j \in Children(graph)}
    BY DEF IsGraphTree
  <1>4. \A j : /\ EdgeInto(graph.nodes[j]).target = graph.nodes[j].sha
               /\ EdgeInto(graph.nodes[j]).source = graph.nodes[j].parent
    BY DEF EdgeInto
  <1>5. out = {EdgeInto(graph.nodes[j]) : j \in K}
    BY <1>3, <1>4 DEF PlacesOn
  <1>6. targets = {graph.nodes[j] : j \in K}
    <2>1. ASSUME NEW m \in targets
          PROVE  \E j \in K : m = graph.nodes[j]
      <3>1. PICK j \in N : m = graph.nodes[j]
        BY <1>2
      <3>2. PICK c \in K : EdgeInto(graph.nodes[c]).target = m.sha
        BY <1>5
      <3>3. graph.nodes[c].sha = graph.nodes[j].sha /\ c \in N
        BY <1>2, <1>4, <3>1, <3>2 DEF PlacesOn
      <3>4. c = j
        BY <3>3 DEF IsGraphTree
      <3> QED
        BY <3>1, <3>4
    <2>2. ASSUME NEW j \in K
          PROVE  graph.nodes[j] \in targets
      <3>1. EdgeInto(graph.nodes[j]) \in out
        BY <1>5
      <3>2. j \in DOMAIN graph.nodes
        BY <1>2 DEF PlacesOn
      <3> HIDE DEF out
      <3> QED
        BY <1>4, <3>1, <3>2
    <2> HIDE DEF targets, K
    <2> QED
      BY <2>1, <2>2
  <1>7. \A j \in K : graph.nodes[j].ordinal = j - 1
    BY <1>2 DEF PlacesOn
  <1> HIDE DEF targets, K, out
  <1>8. {IdentityProof(graph, m.ordinal) : m \in targets}
          = {IdentityProof(graph, j - 1) : j \in K}
    BY <1>6, <1>7
  <1> HIDE DEF shard
  <1>9. shard.nodeProof = IdentityProof(graph, i - 1)
    BY <1>1, <1>2
  <1>10. \A r \in shard.activeRuns : runs[r].source = n.sha
    BY <1>1
  <1>11. IsShardOf(shard, graph, i)
    BY <1>1, <1>5, <1>8, <1>9, <1>10, Zenon DEF K, IsShardOf
  <1> QED
    BY <1>11 DEF shard

\* As many proofs are in a shard as edges, for the targets are different Nodes.
LEMMA ShardCounts ==
    ASSUME NEW graph, IsGraphTree(graph), NEW i \in 1..Len(graph.nodes),
           NEW shard, shard = GraphNodeShard(graph, graph.nodes[i])
    PROVE  Cardinality(shard.outgoingEdges)
             = Cardinality(shard.outgoingTargetProofs)
  <1> DEFINE K == PlacesOn(graph, i)
             edges == shard.outgoingEdges
             proofs == shard.outgoingTargetProofs
             f == [j \in K |-> IdentityProof(graph, j - 1)]
  <1>1. /\ edges = {EdgeInto(graph.nodes[j]) : j \in K}
        /\ proofs = {IdentityProof(graph, j - 1) : j \in K}
    <2>1. IsShardOf(shard, graph, i)
      BY ShardOfNode
    <2> QED
      BY <2>1, Zenon DEF IsShardOf
  <1>2. Len(graph.nodes) \in Nat /\ K \in SUBSET (1..Len(graph.nodes))
    BY DEF PlacesOn, Children, IsGraphTree, IsNumbered
  <1> HIDE DEF K, edges, proofs
  <1>3. Cardinality(edges) = Cardinality(K) /\ IsFiniteSet(K)
    BY <1>1, <1>2, EdgesCounted
  <1>4. \A j \in K : f[j].identity.ordinal = j - 1 /\ j \in Nat
    <2> SUFFICES ASSUME NEW j \in K
                 PROVE  f[j].identity.ordinal = j - 1 /\ j \in Nat
      OBVIOUS
    <2>1. j \in 1..Len(graph.nodes)
      BY <1>2
    <2>2. j - 1 \in 0..(Len(graph.nodes) - 1) /\ j - 1 + 1 = j
      BY <1>2, <2>1
    <2>3. IdentityProof(graph, j - 1).identity = Identity(graph.nodes[j])
      BY <2>2, IdentitiesAreProven
    <2>4. Identity(graph.nodes[j]).ordinal = j - 1
      BY <2>1, IdentityOfNode
    <2> QED
      BY <2>1, <2>3, <2>4
  <1>5. \A a, b \in K : f[a] = f[b] => a = b
    <2> HIDE DEF f
    <2> QED
      BY <1>4
  <1>6. f = [j \in K |-> f[j]] /\ proofs = {f[j] : j \in K}
    BY <1>1
  <1> HIDE DEF f
  <1>7. Cardinality(proofs) = Cardinality(K)
    BY <1>3, <1>5, <1>6, CountOfValues
  <1> QED
    BY <1>3, <1>7 DEF edges, proofs

\* The shard of every Node of a tree matches the manifest.
LEMMA ShardsMatch ==
    ASSUME NEW graph, IsGraphTree(graph), NEW i \in 1..Len(graph.nodes)
    PROVE  /\ ShardMatches(GraphManifest(graph),
                           GraphNodeShard(graph, graph.nodes[i]))
           /\ GraphNodeShard(graph, graph.nodes[i]).node = graph.nodes[i]
  <1> DEFINE n == graph.nodes[i]
             N == 1..Len(graph.nodes)
             K == PlacesOn(graph, i)
             shard == GraphNodeShard(graph, n)
             manifest == GraphManifest(graph)
  <1>1. /\ shard.node = n
        /\ shard.nodeProof = IdentityProof(graph, i - 1)
        /\ shard.parentProof =
             {IdentityProof(graph, o) : o \in {n.parentOrdinal} \ {None}}
        /\ shard.outgoingEdges = {EdgeInto(graph.nodes[j]) : j \in K}
        /\ shard.outgoingTargetProofs =
             {IdentityProof(graph, j - 1) : j \in K}
        /\ \A r \in shard.activeRuns : runs[r].source = n.sha
    BY ShardOfNode, Zenon DEF IsShardOf
  <1>2. Cardinality(shard.outgoingEdges)
          = Cardinality(shard.outgoingTargetProofs)
    BY ShardCounts
  <1>3. \A j \in N :
          /\ IdentityProven(manifest, IdentityProof(graph, j - 1))
          /\ IdentityProof(graph, j - 1).identity = Identity(graph.nodes[j])
    <2> SUFFICES ASSUME NEW j \in N
                 PROVE
          /\ IdentityProven(manifest, IdentityProof(graph, j - 1))
          /\ IdentityProof(graph, j - 1).identity = Identity(graph.nodes[j])
      OBVIOUS
    <2>1. j - 1 \in 0..(Len(graph.nodes) - 1) /\ j - 1 + 1 = j
      BY DEF IsGraphTree, IsNumbered
    <2> QED
      BY <2>1, IdentitiesAreProven
  <1>4. \A j \in K :
          /\ j \in N /\ j # 1
          /\ graph.nodes[j].sha # n.sha
          /\ graph.nodes[j].parent = n.sha
          /\ graph.nodes[j].parentOrdinal = i - 1
    <2> SUFFICES ASSUME NEW j \in K
                 PROVE
          /\ j \in N /\ j # 1
          /\ graph.nodes[j].sha # n.sha
          /\ graph.nodes[j].parent = n.sha
          /\ graph.nodes[j].parentOrdinal = i - 1
      OBVIOUS
    <2>1. j \in N /\ j # 1 /\ graph.nodes[j].parent = n.sha
      BY DEF PlacesOn, Children, IsGraphTree, IsNumbered
    <2>2. PICK c \in 1..(j - 1) :
             /\ graph.nodes[j].parentOrdinal = c - 1
             /\ graph.nodes[c].sha = graph.nodes[j].parent
             /\ graph.nodes[c].sha # graph.nodes[j].sha
      BY <2>1, IdentityOfNode
    <2>3. c \in N
      BY <2>1, <2>2 DEF IsGraphTree, IsNumbered
    <2>4. c = i
      BY <2>1, <2>2, <2>3 DEF IsGraphTree
    <2> QED
      BY <2>1, <2>2, <2>4
  <1>5. /\ IdentityValid(Identity(n)) /\ n.ordinal = i - 1
        /\ n.kind = "root" <=> i = 1
        /\ n.parentOrdinal = None <=> i = 1
    <2>1. n.ordinal = i - 1
      BY DEF IsGraphTree, IsNumbered
    <2>2. /\ IdentityValid(Identity(n))
          /\ n.kind = "root" <=> i = 1
          /\ n.parentOrdinal = None <=> i = 1
      BY IdentityOfNode
    <2> QED
      BY <2>1, <2>2
  <1>6. i # 1 => /\ IdentityProven(manifest,
                                   IdentityProof(graph, n.parentOrdinal))
                 /\ IdentityProof(graph, n.parentOrdinal).identity.ordinal
                      = n.parentOrdinal
                 /\ IdentityProof(graph, n.parentOrdinal).identity.sha
                      = n.parent
    <2> SUFFICES ASSUME i # 1
                 PROVE
                 /\ IdentityProven(manifest,
                                   IdentityProof(graph, n.parentOrdinal))
                 /\ IdentityProof(graph, n.parentOrdinal).identity.ordinal
                      = n.parentOrdinal
                 /\ IdentityProof(graph, n.parentOrdinal).identity.sha
                      = n.parent
      OBVIOUS
    <2>1. PICK c \in 1..(i - 1) : /\ n.parentOrdinal = c - 1
                                  /\ graph.nodes[c].sha = n.parent
      BY IdentityOfNode
    <2>2. c \in N
      BY <2>1 DEF IsGraphTree, IsNumbered
    <2>3. /\ Identity(graph.nodes[c]).ordinal = c - 1
          /\ Identity(graph.nodes[c]).sha = graph.nodes[c].sha
      BY <2>2, IdentityOfNode
    <2> QED
      BY <1>3, <2>1, <2>2, <2>3
  <1>7. \A j : /\ EdgeInto(graph.nodes[j]).target = graph.nodes[j].sha
               /\ EdgeInto(graph.nodes[j]).source = graph.nodes[j].parent
               /\ EdgeInto(graph.nodes[j]).kind = graph.nodes[j].kind
               /\ EdgeInto(graph.nodes[j]).origin = graph.nodes[j].origin
    BY DEF EdgeInto
  <1>8. \A j : /\ Identity(graph.nodes[j]).sha = graph.nodes[j].sha
               /\ Identity(graph.nodes[j]).parent = graph.nodes[j].parent
               /\ Identity(graph.nodes[j]).kind = graph.nodes[j].kind
               /\ Identity(graph.nodes[j]).origin = graph.nodes[j].origin
               /\ Identity(graph.nodes[j]).parentOrdinal
                    = graph.nodes[j].parentOrdinal
    BY DEF Identity
  <1>9. shard.nodeProof.identity = Identity(n)
        /\ IdentityProven(manifest, shard.nodeProof)
    BY <1>1, <1>3
  <1> HIDE DEF shard, manifest, n, K
  <1>10. IF n.kind = "root" THEN shard.parentProof = {}
         ELSE \E proof \in shard.parentProof :
                /\ proof.identity.ordinal = n.parentOrdinal
                /\ proof.identity.sha = n.parent
    BY <1>1, <1>5, <1>6
  <1>11. \A e, f \in shard.outgoingEdges : e.target = f.target => e = f
    <2> SUFFICES ASSUME NEW e \in shard.outgoingEdges,
                        NEW f \in shard.outgoingEdges, e.target = f.target
                 PROVE  e = f
      OBVIOUS
    <2>1. PICK a \in K : e = EdgeInto(graph.nodes[a])
      BY <1>1
    <2>2. PICK b \in K : f = EdgeInto(graph.nodes[b])
      BY <1>1
    <2>3. graph.nodes[a].sha = graph.nodes[b].sha
      BY <1>7, <2>1, <2>2
    <2>4. a = b
      BY <1>4, <2>3 DEF IsGraphTree
    <2> QED
      BY <2>1, <2>2, <2>4
  <1>12. \A e \in shard.outgoingEdges :
           /\ e.source = n.sha /\ e.target # n.sha
           /\ \E proof \in shard.outgoingTargetProofs :
                LET target == proof.identity IN
                /\ target.sha = e.target
                /\ target.parentOrdinal = n.ordinal /\ target.parent = n.sha
                /\ target.kind = e.kind /\ target.origin = e.origin
    <2> SUFFICES ASSUME NEW e \in shard.outgoingEdges
                 PROVE
           /\ e.source = n.sha /\ e.target # n.sha
           /\ \E proof \in shard.outgoingTargetProofs :
                LET target == proof.identity IN
                /\ target.sha = e.target
                /\ target.parentOrdinal = n.ordinal /\ target.parent = n.sha
                /\ target.kind = e.kind /\ target.origin = e.origin
      OBVIOUS
    <2>1. PICK j \in K : e = EdgeInto(graph.nodes[j])
      BY <1>1
    <2> DEFINE proof == IdentityProof(graph, j - 1)
    <2>2. proof \in shard.outgoingTargetProofs
          /\ proof.identity = Identity(graph.nodes[j])
      BY <1>1, <1>3, <1>4
    <2> HIDE DEF proof
    <2>3. /\ proof.identity.sha = e.target
          /\ proof.identity.parentOrdinal = n.ordinal
          /\ proof.identity.parent = n.sha
          /\ proof.identity.kind = e.kind /\ proof.identity.origin = e.origin
      BY <1>4, <1>5, <1>7, <1>8, <2>1, <2>2
    <2>4. e.source = n.sha /\ e.target # n.sha
      BY <1>4, <1>7, <2>1
    <2> QED
      BY <2>2, <2>3, <2>4
  <1>13. ShardDecodes(shard)
    BY <1>1, <1>2, <1>5, <1>9, <1>10, <1>11, <1>12 DEF ShardDecodes
  <1>14. \A proof \in shard.parentProof \cup shard.outgoingTargetProofs :
           IdentityProven(manifest, proof)
    <2>1. \A proof \in shard.parentProof : IdentityProven(manifest, proof)
      BY <1>1, <1>5, <1>6
    <2>2. \A proof \in shard.outgoingTargetProofs :
             IdentityProven(manifest, proof)
      BY <1>1, <1>3, <1>4
    <2> QED
      BY <2>1, <2>2
  <1>15. n.ordinal = 0 => n.sha = manifest.root
    <2>1. manifest.root = graph.root
      BY ManifestOfTree DEF manifest
    <2>2. i = 1 => n.sha = graph.root
      BY DEF IsGraphTree, n
    <2> QED
      BY <1>5, <2>1, <2>2
  <1>16. ShardMatches(manifest, shard)
    BY <1>1, <1>9, <1>13, <1>14, <1>15 DEF ShardMatches
  <1> QED
    BY <1>1, <1>16 DEF shard, manifest, n

\* A tree is read as it was written.
ReadsBack(graph) ==
    /\ Materializable(graph)
    /\ ManifestDecodes(GraphManifest(graph))
    /\ \A i \in 0..(Len(GraphManifest(graph).pages) - 1) :
         PageLoads(graph, GraphManifest(graph), i)

LEMMA TreesReadBack ==
    ASSUME NEW graph, IsGraphTree(graph)
    PROVE  ReadsBack(graph)
  <1> DEFINE manifest == GraphManifest(graph)
             P == Len(graph.leaves)
  <1>1. Materializable(graph)
    <2> SUFFICES ASSUME NEW i \in DOMAIN graph.nodes,
                        graph.nodes[i].parentOrdinal # None
                 PROVE  graph.nodes[i].parentOrdinal < graph.nodes[i].ordinal
      BY Zenon DEF Materializable
    <2>1. i \in 1..Len(graph.nodes)
      BY DEF IsGraphTree, IsNumbered
    <2>2. i # 1
      BY <2>1, IdentityOfNode
    <2> QED
      BY <2>1, <2>2, ParentOfNode
  <1>2. ManifestDecodes(manifest)
    BY ManifestsDecode
  <1>3. Len(manifest.pages) = P
    BY ManifestOfTree
  <1> HIDE DEF manifest
  <1>4. ASSUME NEW i \in 0..(P - 1)
        PROVE  PageLoads(graph, manifest, i)
    <2>1. PageMatches(manifest, GraphPage(graph, i))
      BY PagesMatch DEF manifest
    <2>2. ASSUME NEW k \in DOMAIN GraphPage(graph, i).nodes
          PROVE  LET m == GraphPage(graph, i).nodes[k]
                     shard == GraphNodeShard(graph, m)
                 IN  ShardMatches(manifest, shard) /\ shard.node = m
      <3> DEFINE page == GraphPage(graph, i)
                 j == i * GRAPH_PAGE_SIZE + k
      <3>1. page = GraphPage(graph, i) /\ k \in DOMAIN page.nodes
        OBVIOUS
      <3> HIDE DEF page
      <3>2. j \in 1..Len(graph.nodes) /\ page.nodes[k] = graph.nodes[j]
        BY <3>1, NodesOfPage
      <3> HIDE DEF j
      <3>3. /\ ShardMatches(manifest, GraphNodeShard(graph, graph.nodes[j]))
            /\ GraphNodeShard(graph, graph.nodes[j]).node = graph.nodes[j]
        BY <3>2, ShardsMatch DEF manifest
      <3> QED
        BY <3>2, <3>3 DEF page
    <2> QED
      BY <2>1, <2>2, Zenon DEF PageLoads
  <1> QED
    BY <1>1, <1>2, <1>3, <1>4, Zenon DEF ReadsBack, manifest

\* Whatever the commands of a Project lead to, and however large the pages are,
\* the graph that is materialized passes every check of its readers: those of
\* its manifest, of each page and of the shard of each Node, with the
\* commitments and membership proofs that go with them.
THEOREM GraphsAreReadable == Spec /\ NodesInOrder => []GraphIsReadable
  <1>1. TreeInv /\ GraphInv /\ ChildrenOfProposals => GraphIsReadable
    <2> SUFFICES ASSUME TreeInv, GraphInv, ChildrenOfProposals,
                        NEW p \in Project, rootSha[p] # None
                 PROVE  ReadsBack(Graph(p))
      BY Zenon DEF GraphIsReadable, ReadsBack
    <2>1. IsGraphTree(Graph(p))
      BY GraphIsTree
    <2> QED
      BY <2>1, TreesReadBack
  <1> QED
    BY <1>1, TreeInvariant, GraphInvariant, ChildrenInvariant, PTL

-----------------------------------------------------------------------------
(* Entries are known by their ids *)

\* No two entries of a kind have the same id.
LEMMA RowsHaveIds ==
    ASSUME RecordsHaveIds, NEW p, NEW kind \in ActivityKind
    PROVE  IdsDiffer(Rows(p, kind))
  <1>1. CASE kind = "runs"
    BY <1>1 DEF Rows, RunRows, IdsDiffer
  <1>2. CASE kind = "evidence"
    BY <1>2 DEF Rows, EvidenceRows, IdsDiffer, RecordsHaveIds
  <1>3. CASE kind = "comparisons"
    <2>1. ASSUME NEW x \in ComparisonRows(p), NEW y \in ComparisonRows(p),
                 x.id = y.id
          PROVE  x = y
      <3>1. PICK c \in comparisons :
              x = [id |-> c.id, anchor |-> c.anchor, nodes |-> c.nodes]
        BY DEF ComparisonRows
      <3>2. PICK d \in comparisons :
              y = [id |-> d.id, anchor |-> d.anchor, nodes |-> d.nodes]
        BY DEF ComparisonRows
      <3>3. c = d
        BY <2>1, <3>1, <3>2 DEF RecordsHaveIds, IdsDiffer
      <3> QED
        BY <3>1, <3>2, <3>3
    <2> QED
      BY <1>3, <2>1 DEF Rows, IdsDiffer
  <1>4. CASE kind = "decisions"
    BY <1>4 DEF Rows, DecisionRows, IdsDiffer, RecordsHaveIds
  <1>5. CASE kind = "coaching"
    BY <1>5 DEF Rows, CoachingRows, IdsDiffer
  <1>6. CASE kind = "reviews"
    BY <1>6 DEF Rows, IdsDiffer, RecordsHaveIds
  <1> QED
    BY <1>1, <1>2, <1>3, <1>4, <1>5, <1>6 DEF ActivityKind

-----------------------------------------------------------------------------
(* Activity as its readers check it *)

\* What Before stands for, of the entries of activity: an order of all of them.
RecordsOrdered ==
    \A p \in Project : \A kind \in ActivityKind : Ordered(Rows(p, kind))

RecordsInOrder == []RecordsOrdered

\* A list of entries of the Node s, each once and in the order of the readers.
IsListed(s, kind, list) ==
    /\ \E E : list \in Seq(E)
    /\ \A i, j \in 1..Len(list) :
         i < j => list[i].id # list[j].id /\ Precedes(list[i], list[j])
    /\ \A i \in 1..Len(list) : IsOf(s, kind, list[i])

\* A list of activity that the writer and the readers sort alike holds every
\* entry once, in order.
LEMMA EntriesAreListed ==
    ASSUME StateIsFinite, RecordsHaveIds, RecordsOrdered,
           NEW p \in Project, NEW s, NEW kind \in ActivityKind,
           SortedAlike(NodeEntries(p, s)[kind])
    PROVE  IsListed(s, kind, NodeEntries(p, s)[kind])
  <1> DEFINE list == NodeEntries(p, s)[kind]
  <1>1. PICK S \in SUBSET Rows(p, kind) :
          list = InOrder(S) /\ \A x \in S : IsOf(s, kind, x)
    BY EntriesAreRows
  <1>2. IsFiniteSet(S)
    BY RowsAreFinite, FS_Subset
  <1>3. Ordered(S)
    <2>1. Ordered(Rows(p, kind))
      BY DEF RecordsOrdered
    <2> QED
      BY <2>1 DEF Ordered
  <1>4. IdsDiffer(S)
    BY RowsHaveIds DEF IdsDiffer
  <1> DEFINE n == Cardinality(S)
  <1> HIDE DEF list
  <1>5. n \in Nat /\ Len(list) = n /\ \E E : list \in Seq(E)
    BY <1>1, <1>2, InOrderIsSequence
  <1>6. /\ \A i \in 1..n : list[i] \in S /\ Rank(S, list[i]) = i - 1
        /\ \A i, j \in 1..n : Before(list[i], list[j]) => i < j
    BY <1>1, <1>2, <1>3, InOrderLists
  <1>10. \A i, j \in 1..n : Before(list[i], list[j]) => Precedes(list[i], list[j])
    <2>1. DOMAIN list = 1..n
      BY <1>5
    <2>2. SortedAlike(list)
      BY DEF list
    <2> HIDE DEF n
    <2> QED
      BY <2>1, <2>2, Zenon DEF SortedAlike
  <1>7. ASSUME NEW i \in 1..n, NEW j \in 1..n, i < j
        PROVE  list[i].id # list[j].id /\ Precedes(list[i], list[j])
    <2>1. list[i] \in S /\ list[j] \in S
      BY <1>6
    <2>2. list[i] # list[j]
      <3>1. Rank(S, list[i]) = i - 1 /\ Rank(S, list[j]) = j - 1
        BY <1>6
      <3>2. i - 1 # j - 1
        BY <1>5, <1>7
      <3> QED
        BY <3>1, <3>2
    <2>3. ~ Before(list[j], list[i])
      <3> SUFFICES ASSUME Before(list[j], list[i]) PROVE FALSE
        OBVIOUS
      <3>1. j < i
        BY <1>6
      <3> HIDE DEF n
      <3> QED
        BY <1>5, <1>7, <3>1
    <2>4. Before(list[i], list[j])
      BY <1>3, <2>1, <2>2, <2>3 DEF Ordered
    <2>5. Precedes(list[i], list[j])
      BY <1>10, <2>4
    <2> QED
      BY <1>4, <2>1, <2>2, <2>5 DEF IdsDiffer
  <1>8. \A i \in 1..n : IsOf(s, kind, list[i])
    BY <1>1, <1>6
  <1> HIDE DEF n
  <1>9. IsListed(s, kind, list)
    BY <1>5, <1>7, <1>8, Zenon DEF IsListed
  <1> QED
    BY <1>9 DEF list

\* Any part of such a list is valid.
LEMMA PartsAreValid ==
    ASSUME NEW s, NEW kind \in ActivityKind, NEW list, IsListed(s, kind, list),
           NEW from \in Nat, NEW to \in Nat, from <= to, to <= Len(list),
           NEW part, IsPart(part, list, from, to)
    PROVE  EntriesValid(s, kind, part)
  <1>1. Len(list) \in Nat
    BY DEF IsListed
  <1> DEFINE N == to - from
  <1>2. DOMAIN part = 1..N /\ N \in Nat
    BY DEF IsPart
  <1>3. ASSUME NEW i \in 1..N
        PROVE  from + i \in 1..Len(list) /\ part[i] = list[from + i]
    <2>1. from + i \in 1..Len(list)
      BY <1>1
    <2>2. part[i] = list[from + i]
      BY DEF IsPart
    <2> QED
      BY <2>1, <2>2
  <1>4. ASSUME NEW i \in 1..N, NEW j \in 1..N, i < j
        PROVE  part[i].id # part[j].id /\ Precedes(part[i], part[j])
    <2>1. from + i < from + j
      BY <1>2, <1>4
    <2> QED
      BY <1>3, <2>1 DEF IsListed
  <1>5. \A i \in 1..N : IsOf(s, kind, part[i])
    BY <1>3 DEF IsListed
  <1> HIDE DEF N
  <1>6. /\ \A i, j \in DOMAIN part :
             i < j => part[i].id # part[j].id /\ Precedes(part[i], part[j])
        /\ \A i \in DOMAIN part : IsOf(s, kind, part[i])
    BY <1>2, <1>4, <1>5
  <1> QED
    BY <1>6, Zenon DEF EntriesValid, IsOf

\* The pages of such a list decode, are as full as its index says and are
\* proven to be those that it commits to.
LEMMA CategoriesLoad ==
    ASSUME NEW s, NEW kind \in ActivityKind, NEW list, IsListed(s, kind, list)
    PROVE  CategoryLoads(s, kind, list)
  <1> DEFINE size == NODE_ACTIVITY_PAGE_SIZE
             n == Len(list)
             P == Pages(n, size)
             leaves == PageLeaves(s, kind, list)
             category == CategoryIndex(s, kind, list)
             leaf == [k \in 1..P |->
                        LeafDigest(ActivityPage(s, kind, list, k - 1))]
  <1>1. n \in Nat /\ size \in Nat \ {0}
    BY ActivityPageSizeIsPositive DEF IsListed
  <1>2. P \in Nat
    <2>1. n + size - 1 \in Nat
      BY <1>1
    <2> QED
      BY <1>1, <2>1, Quotient DEF Pages
  <1>3. leaves = leaf
    BY DEF PageLeaves
  <1>4. /\ leaves \in Seq({leaf[k] : k \in 1..P}) /\ Len(leaves) = P
        /\ \A k \in 1..P :
             leaves[k] = LeafDigest(ActivityPage(s, kind, list, k - 1))
    <2>1. leaf = [k \in 1..P |-> leaf[k]]
      OBVIOUS
    <2>2. \A k \in 1..P :
            leaf[k] = LeafDigest(ActivityPage(s, kind, list, k - 1))
      OBVIOUS
    <2> HIDE DEF leaf, P, leaves
    <2> QED
      BY <1>2, <1>3, <2>1, <2>2, ListIsSequence
  <1>5. /\ category.count = n /\ category.pageCount = Len(leaves)
        /\ category.root = IF leaves = <<>> THEN EmptyRoot(s, kind)
                           ELSE RootOf(leaves)
    BY Zenon DEF CategoryIndex
  <1> HIDE DEF leaf, category
  <1>6. leaves = <<>> <=> P = 0
    <2> HIDE DEF leaves, P
    <2> QED
      BY <1>2, <1>4
  <1>7. IndexDecodes(s, kind, category)
    <2>1. category.pageCount = Pages(category.count, size)
      BY <1>4, <1>5
    <2>2. category.pageCount = 0 => category.root = EmptyRoot(s, kind)
      <3> HIDE DEF leaves, P
      <3> QED
        BY <1>4, <1>5, <1>6
    <2> QED
      BY <2>1, <2>2 DEF IndexDecodes
  <1>8. ASSUME NEW i \in 0..(P - 1), NEW page,
               page = ActivityPage(s, kind, list, i)
        PROVE  ActivityPageLoads(category, page, ProofOf(leaves, i))
    <2> DEFINE end == PageEnd(n, i, size)
               first == i * size
    <2>1. P # 0 /\ i \in Nat /\ i <= P - 1
      <3> HIDE DEF P
      <3> QED
        BY <1>2
    <2>2. n # 0
      <3> SUFFICES ASSUME n = 0 PROVE FALSE
        OBVIOUS
      <3>1. P = (size - 1) \div size
        BY <1>1 DEF Pages
      <3>2. size - 1 \in Nat
        BY <1>1
      <3>3. P * size <= size - 1 /\ P * size \in Nat
        BY <1>1, <1>2, <3>1, <3>2, Quotient
      <3>4. size <= P * size
        <4> HIDE DEF P, size
        <4>1. 1 \in Nat /\ 1 <= P /\ P \in Nat
          BY <1>2, <2>1
        <4>2. 1 * size <= P * size
          BY <1>1, <4>1, Multiples
        <4> QED
          BY <1>1, <4>2
      <3> HIDE DEF P, size
      <3> QED
        BY <1>1, <3>3, <3>4
    <2>3. /\ first \in Nat /\ end \in 1..n /\ first < end
          /\ end - first \in 1..size
          /\ IF i < P - 1 THEN end = first + size ELSE end = n
      <3>1. n \in Nat \ {0}
        BY <1>1, <2>2
      <3> HIDE DEF n, size
      <3> QED
        BY <1>1, <3>1, PageBounds
    <2>4. /\ page.node = s /\ page.kind = kind /\ page.index = i
          /\ page.entries = PageOf(list, i, size)
      BY <1>8 DEF ActivityPage
    <2>5. PICK E : list \in Seq(E)
      BY DEF IsListed
    <2>6. IsPart(page.entries, list, first, end)
          /\ Len(page.entries) = end - first
      BY <1>1, <2>2, <2>4, <2>5, PageIsPart
    <2>7. EntriesValid(s, kind, page.entries)
      <3>1. first \in Nat /\ end \in Nat /\ first <= end /\ end <= Len(list)
        <4> HIDE DEF first, end
        <4> QED
          BY <1>1, <2>3
      <3> HIDE DEF first, end
      <3> QED
        BY <2>6, <3>1, PartsAreValid
    <2> DEFINE expected == IF page.index < category.pageCount - 1 THEN size
                           ELSE category.count - page.index * size
    <2>8. expected = end - first
      <3>1. expected = IF i < P - 1 THEN size ELSE n - first
        BY <1>4, <1>5, <2>4
      <3> HIDE DEF expected, first, end, P, n, size
      <3> QED
        BY <1>1, <2>3, <3>1
    <2>9. page.index < category.pageCount
      <3> HIDE DEF P
      <3> QED
        BY <1>2, <1>4, <1>5, <2>1, <2>4
    <2>10. ProofHolds(LeafDigest(page), page.index, category.pageCount,
                      ProofOf(leaves, i), category.root)
      <3>1. LeafDigest(page) = leaves[i + 1]
        <4>1. i + 1 \in 1..P /\ (i + 1) - 1 = i
          <5> HIDE DEF P
          <5> QED
            BY <1>2, <2>1
        <4> HIDE DEF P, leaves
        <4> QED
          BY <1>4, <1>8, <4>1
      <3>2. category.root = RootOf(leaves)
        BY <1>5, <1>6, <2>1
      <3>3. i \in 0..(Len(leaves) - 1)
        <4> HIDE DEF P
        <4> QED
          BY <1>4
      <3>4. ProofHolds(leaves[i + 1], i, Len(leaves), ProofOf(leaves, i),
                       RootOf(leaves))
        <4> HIDE DEF leaves, P
        <4> QED
          BY <1>4, <3>3, ProofsHold
      <3> QED
        BY <1>5, <2>4, <3>1, <3>2, <3>4
    <2>11. Len(page.entries) = expected /\ expected \in 1..size
      <3> HIDE DEF expected, first, end
      <3> QED
        BY <2>3, <2>6, <2>8
    <2>12. EntriesValid(page.node, page.kind, page.entries)
      BY <2>4, <2>7
    <2> HIDE DEF leaves
    <2> QED
      BY <2>9, <2>10, <2>11, <2>12, Zenon DEF ActivityPageLoads
  <1>9. category.pageCount = P
    BY <1>4, <1>5
  <1> HIDE DEF P, leaves
  <1>10. \A i \in 0..(category.pageCount - 1) :
           ActivityPageLoads(category, ActivityPage(s, kind, list, i),
                             ProofOf(leaves, i))
    BY <1>8, <1>9
  <1> QED
    BY <1>7, <1>10, Zenon DEF CategoryLoads, leaves, category

\* The record of every entry decodes, and is the entry in its slot of its page.
LEMMA RecordsLoad ==
    ASSUME NEW s, NEW kind \in ActivityKind, NEW list, IsListed(s, kind, list),
           NEW j \in DOMAIN list
    PROVE  RecordLoads(s, kind, list, j)
  <1> DEFINE size == NODE_ACTIVITY_PAGE_SIZE
             n == Len(list)
             P == Pages(n, size)
             i == (j - 1) \div size
             slot == (j - 1) % size
             record == RecordOf(list, j)
             page == ActivityPage(s, kind, list, i)
             end == PageEnd(n, i, size)
             first == i * size
  <1>1. PICK E : list \in Seq(E)
    BY DEF IsListed
  <1>2. n \in Nat \ {0} /\ j \in 1..n /\ size \in Nat \ {0} /\ j - 1 \in Nat
    BY <1>1, ActivityPageSizeIsPositive
  <1>3. record.value = list[j] /\ record.page = i /\ record.slot = slot
    BY DEF RecordOf
  <1>4. i \in Nat /\ slot \in 0..(size - 1) /\ j - 1 = first + slot
        /\ first \in Nat
    <2>1. i \in Nat /\ first \in Nat
      <3>1. i \in Nat
        <4> HIDE DEF size
        <4> QED
          BY <1>2, Quotient
      <3> HIDE DEF i, size
      <3> QED
        BY <1>2, <3>1
    <2>2. slot \in 0..(size - 1) /\ j - 1 = first + slot
      <3> HIDE DEF size
      <3> QED
        BY <1>2, Remainder
    <2> QED
      BY <2>1, <2>2
  <1> HIDE DEF record, slot
  <1>5. P \in Nat /\ i \in 0..(P - 1)
    <2>1. i + 1 \in 1..P
      <3>1. j - 1 < n
        BY <1>2
      <3> HIDE DEF n, size, P
      <3>2. (j - 1) \div size + 1 \in 1..Pages(n, size)
        BY <1>2, <3>1, PageOfNode
      <3> QED
        BY <3>2 DEF P
    <2>2. P \in Nat
      <3>1. n + size - 1 \in Nat
        BY <1>2
      <3> QED
        BY <1>2, <3>1, Quotient DEF Pages
    <2> HIDE DEF P, i
    <2> QED
      BY <1>4, <2>1, <2>2
  <1> HIDE DEF i
  <1>6. /\ first \in Nat /\ end \in 1..n /\ first < end
        /\ end - first \in 1..size
        /\ IF i < P - 1 THEN end = first + size ELSE end = n
    <2> HIDE DEF n, size
    <2> QED
      BY <1>2, <1>5, PageBounds
  <1>7. page.index = i /\ page.entries = PageOf(list, i, size)
    BY DEF ActivityPage
  <1>8. IsPart(page.entries, list, first, end)
    <2>1. Len(list) # 0
      BY <1>2
    <2> HIDE DEF page, first, end, size
    <2> QED
      BY <1>1, <1>2, <1>5, <1>7, <2>1, PageIsPart DEF first, end
  <1>9. slot + 1 \in 1..(end - first) /\ first + (slot + 1) = j
    <2> HIDE DEF n, size, first, end, P
    <2>1. j <= end
      BY <1>2, <1>4, <1>6
    <2> QED
      BY <1>2, <1>4, <1>6, <2>1
  <1>10. RecordIsMember(page, record)
    <2>1. slot + 1 \in DOMAIN page.entries /\ page.entries[slot + 1] = list[j]
      <3> HIDE DEF page, first, end
      <3>1. DOMAIN page.entries = 1..(end - first)
            /\ page.entries[slot + 1] = list[first + (slot + 1)]
        BY <1>8, <1>9 DEF IsPart
      <3> QED
        BY <1>9, <3>1
    <2> HIDE DEF page
    <2> QED
      BY <1>3, <1>7, <2>1 DEF RecordIsMember
  <1>11. RecordDecodes(s, kind, record)
    <2>1. record.slot < size
      BY <1>2, <1>3, <1>4
    <2>2. IsPart(<<record.value>>, list, j - 1, j)
      <3> HIDE DEF n
      <3>1. j - (j - 1) = 1 /\ DOMAIN <<record.value>> = 1..1
            /\ (j - 1) + 1 = j /\ j \in ((j - 1) + 1)..j
            /\ <<record.value>>[1] = record.value
        BY <1>2
      <3>2. \A k \in 1..1 : k = 1
        OBVIOUS
      <3> QED
        BY <1>3, <3>1, <3>2 DEF IsPart
    <2>3. EntriesValid(s, kind, <<record.value>>)
      <3>1. j - 1 \in Nat /\ j \in Nat /\ j - 1 <= j /\ j <= Len(list)
        BY <1>2
      <3> QED
        BY <2>2, <3>1, PartsAreValid
    <2> QED
      BY <2>1, <2>3 DEF RecordDecodes
  <1>12. record.page < Pages(Len(list), NODE_ACTIVITY_PAGE_SIZE)
    <2>1. i < P
      <3> HIDE DEF P
      <3> QED
        BY <1>5
    <2> QED
      BY <1>3, <2>1
  <1> QED
    BY <1>3, <1>10, <1>11, <1>12 DEF RecordLoads, record

\* Whatever the commands of a Project lead to, and however large the pages are,
\* every list of activity of every Node that the writer and the readers sort
\* alike passes the checks of its readers: each page with its commitment and
\* membership proof, and the record of each entry that is looked up by its id.
THEOREM ActivityListsAreReadable ==
    Spec /\ RecordsInOrder => []ActivityIsReadable
  <1>1. TypeOK /\ StateIsFinite /\ RecordsHaveIds /\ RecordsOrdered
        => ActivityIsReadable
    <2> SUFFICES ASSUME TypeOK, StateIsFinite, RecordsHaveIds, RecordsOrdered,
                        NEW n \in nodes, NEW kind \in ActivityKind,
                        SortedAlike(NodeEntries(n.project, n.sha)[kind])
                 PROVE  LET list == NodeEntries(n.project, n.sha)[kind] IN
                        /\ CategoryLoads(n.sha, kind, list)
                        /\ kind \in KeyedKind =>
                             \A j \in DOMAIN list :
                                 RecordLoads(n.sha, kind, list, j)
      BY Zenon DEF ActivityIsReadable
    <2>1. n.project \in Project
      BY DEF TypeOK, Node
    <2>2. IsListed(n.sha, kind, NodeEntries(n.project, n.sha)[kind])
      BY <2>1, EntriesAreListed
    <2> QED
      BY <2>2, CategoriesLoad, RecordsLoad
  <1> QED
    BY <1>1, ProjectStateTypes, RecordsStayFinite, IdsAreUnique, PTL
       DEF RecordsInOrder

-----------------------------------------------------------------------------
(* Readers take nothing else *)

\* The leaves of a page are the identities of its Nodes, and the manifest has
\* their number and their root.
LEMMA LeavesOfPage ==
    ASSUME NEW graph, IsGraphTree(graph), NEW i \in 0..(Len(graph.leaves) - 1),
           NEW page, page = GraphPage(graph, i),
           NEW leaves, leaves = graph.leaves[i + 1]
    PROVE  /\ \E E : leaves \in Seq(E)
           /\ Len(leaves) = Len(page.nodes) /\ Len(leaves) \in Nat
           /\ leaves = IdentityLeaves(page.nodes)
           /\ GraphManifest(graph).pages[i + 1].nodeCount = Len(page.nodes)
           /\ GraphManifest(graph).pages[i + 1].identityRoot = RootOf(leaves)
           /\ \A leaf \in 0..(Len(leaves) - 1) :
                LET place == i * GRAPH_PAGE_SIZE + leaf + 1 IN
                /\ place \in 1..Len(graph.nodes)
                /\ page.nodes[leaf + 1] = graph.nodes[place]
                /\ leaves[leaf + 1] = LeafDigest(Identity(graph.nodes[place]))
  <1> DEFINE first == i * GRAPH_PAGE_SIZE
             to == PageEnd(Len(graph.nodes), i, GRAPH_PAGE_SIZE)
             mine == page.nodes
             W == to - first
             manifest == GraphManifest(graph)
  <1>1. /\ first \in Nat /\ to \in 1..Len(graph.nodes) /\ first < to
        /\ IsPart(mine, graph.nodes, first, to) /\ Len(mine) = W
    BY PageOfTree
  <1>2. Len(graph.nodes) \in Nat
    BY DEF IsGraphTree, IsNumbered
  <1>3. /\ Len(graph.leaves) \in Nat \ {0}
        /\ \A k \in 1..Len(graph.leaves) :
             manifest.pages[k] =
               [nodeCount |-> Len(GraphPage(graph, k - 1).nodes),
                edgeCount |-> Cardinality(GraphPage(graph, k - 1).edges),
                identityRoot |-> RootOf(graph.leaves[k])]
    BY ManifestOfTree, Zenon
  <1>4. i + 1 \in 1..Len(graph.leaves) /\ (i + 1) - 1 = i
    BY <1>3
  <1>5. manifest.pages[i + 1].nodeCount = Len(mine)
        /\ manifest.pages[i + 1].identityRoot = RootOf(leaves)
    <2>1. manifest.pages[i + 1] =
            [nodeCount |-> Len(GraphPage(graph, i).nodes),
             edgeCount |-> Cardinality(GraphPage(graph, i).edges),
             identityRoot |-> RootOf(graph.leaves[i + 1])]
      <3> HIDE DEF manifest
      <3> QED
        BY <1>3, <1>4
    <2> QED
      BY <2>1
  <1>6. leaves = IdentityLeaves(mine)
    <2>1. graph.leaves[i + 1] =
            IdentityLeaves(PageOf(graph.nodes, (i + 1) - 1, GRAPH_PAGE_SIZE))
      BY <1>4 DEF IsGraphTree
    <2>2. mine = PageOf(graph.nodes, i, GRAPH_PAGE_SIZE)
      BY DEF GraphPage
    <2> QED
      BY <1>4, <2>1, <2>2
  <1>7. W \in Nat /\ DOMAIN mine = 1..W
        /\ \A k \in 1..W : mine[k] = graph.nodes[first + k]
    BY <1>1, <1>2 DEF IsPart
  <1> HIDE DEF first, to, mine, manifest
  <1>8. leaves = [k \in 1..W |-> LeafDigest(Identity(mine[k]))]
    BY <1>6, <1>7, Zenon DEF IdentityLeaves
  <1> HIDE DEF W
  <1>9. /\ leaves = [k \in 1..W |-> leaves[k]]
        /\ \A k \in 1..W : leaves[k] = LeafDigest(Identity(mine[k]))
    BY <1>8, Zenon
  <1>10. leaves \in Seq({leaves[k] : k \in 1..W}) /\ Len(leaves) = W
    BY <1>7, <1>9, ListIsSequence
  <1>11. ASSUME NEW leaf \in 0..(Len(leaves) - 1), NEW place,
                place = first + leaf + 1
         PROVE  /\ place \in 1..Len(graph.nodes)
                /\ mine[leaf + 1] = graph.nodes[place]
                /\ leaves[leaf + 1] = LeafDigest(Identity(graph.nodes[place]))
    <2>1. leaf + 1 \in 1..W /\ first + (leaf + 1) = place
      BY <1>1, <1>7, <1>10, <1>11
    <2>2. place \in 1..Len(graph.nodes)
      BY <1>1, <1>2, <2>1 DEF W
    <2> QED
      BY <1>7, <1>9, <2>1, <2>2
  <1> QED
    BY <1>1, <1>5, <1>6, <1>7, <1>10, <1>11, Zenon DEF mine, manifest, first

\* Whatever siblings come with it, no identity is proven to be one of the graph
\* but that of the Node with its ordinal.
LEMMA OnlyIdentitiesAreProven ==
    ASSUME NEW graph, IsGraphTree(graph), NEW proof,
           proof.page \in Nat, proof.leaf \in Nat,
           IdentityProven(GraphManifest(graph), proof)
    PROVE  \E i \in 1..Len(graph.nodes) :
             proof.identity = Identity(graph.nodes[i])
  <1> DEFINE manifest == GraphManifest(graph)
             i == proof.page
             leaf == proof.leaf
             leaves == graph.leaves[i + 1]
             page == GraphPage(graph, i)
             here == i * GRAPH_PAGE_SIZE + leaf + 1
  <1>1. Len(manifest.pages) = Len(graph.leaves)
        /\ Len(graph.leaves) \in Nat \ {0}
    BY ManifestOfTree
  <1>2. /\ i < Len(manifest.pages)
        /\ leaf < manifest.pages[i + 1].nodeCount
        /\ ProofHolds(LeafDigest(proof.identity), leaf,
                      manifest.pages[i + 1].nodeCount, proof.siblings,
                      manifest.pages[i + 1].identityRoot)
    BY DEF IdentityProven
  <1>3. i \in 0..(Len(graph.leaves) - 1)
    BY <1>1, <1>2
  <1>4. page = GraphPage(graph, i) /\ leaves = graph.leaves[i + 1]
    OBVIOUS
  <1>5. leaf \in Nat
    OBVIOUS
  <1> HIDE DEF i, leaf, leaves, page
  <1>6. /\ \E E : leaves \in Seq(E)
        /\ Len(leaves) = Len(page.nodes) /\ Len(leaves) \in Nat
        /\ manifest.pages[i + 1].nodeCount = Len(page.nodes)
        /\ manifest.pages[i + 1].identityRoot = RootOf(leaves)
        /\ leaves = IdentityLeaves(page.nodes)
        /\ \A l \in 0..(Len(leaves) - 1) :
             LET place == i * GRAPH_PAGE_SIZE + l + 1 IN
             /\ place \in 1..Len(graph.nodes)
             /\ page.nodes[l + 1] = graph.nodes[place]
             /\ leaves[l + 1] = LeafDigest(Identity(graph.nodes[place]))
    BY <1>3, <1>4, LeavesOfPage, SMTT(30)
  <1> HIDE DEF manifest
  <1>7. leaf \in 0..(Len(leaves) - 1)
    BY <1>2, <1>5, <1>6
  <1>8. ProofHolds(LeafDigest(proof.identity), leaf, Len(leaves),
                   proof.siblings, RootOf(leaves))
    BY <1>2, <1>6
  <1>9. LeafDigest(proof.identity) = leaves[leaf + 1]
    BY <1>6, <1>7, <1>8, OnlyLeavesAreProven
  <1>10. LeafDigest(proof.identity) = LeafDigest(Identity(graph.nodes[here]))
         /\ here \in 1..Len(graph.nodes)
    BY <1>6, <1>7, <1>9, Zenon
  <1> HIDE DEF here
  <1>11. proof.identity = Identity(graph.nodes[here])
    BY <1>10 DEF LeafDigest
  <1> QED
    BY <1>10, <1>11

\* What a reader takes for a page of the graph holds, in order, the identities
\* of the Nodes of this page.
LEMMA OnlyPagesMatch ==
    ASSUME NEW graph, IsGraphTree(graph), NEW page, page.index \in Nat,
           NEW E, page.nodes \in Seq(E),
           PageMatches(GraphManifest(graph), page)
    PROVE  /\ Len(page.nodes) = Len(GraphPage(graph, page.index).nodes)
           /\ \A k \in 1..Len(page.nodes) :
                Identity(page.nodes[k]) =
                  Identity(GraphPage(graph, page.index).nodes[k])
  <1> DEFINE manifest == GraphManifest(graph)
             i == page.index
             mine == page.nodes
             W == Len(mine)
             written == GraphPage(graph, i)
             leaves == graph.leaves[i + 1]
             others == IdentityLeaves(mine)
  <1>1. Len(manifest.pages) = Len(graph.leaves)
        /\ Len(graph.leaves) \in Nat \ {0}
    BY ManifestOfTree
  <1>2. /\ i < Len(manifest.pages)
        /\ manifest.pages[i + 1].nodeCount = Len(mine)
        /\ manifest.pages[i + 1].identityRoot = RootOf(others)
    BY DEF PageMatches
  <1>3. i \in 0..(Len(graph.leaves) - 1)
    BY <1>1, <1>2
  <1>4. written = GraphPage(graph, i) /\ leaves = graph.leaves[i + 1]
    OBVIOUS
  <1>5. mine \in Seq(E)
    OBVIOUS
  <1> HIDE DEF i, leaves, written, mine
  <1>6. /\ \E F : leaves \in Seq(F)
        /\ Len(leaves) = Len(written.nodes) /\ Len(leaves) \in Nat
        /\ leaves = IdentityLeaves(written.nodes)
        /\ manifest.pages[i + 1].nodeCount = Len(written.nodes)
        /\ manifest.pages[i + 1].identityRoot = RootOf(leaves)
    BY <1>3, <1>4, LeavesOfPage
  <1>7. W \in Nat /\ DOMAIN mine = 1..W
    BY <1>5
  <1> HIDE DEF manifest
  <1>8. others = [k \in 1..W |-> LeafDigest(Identity(mine[k]))]
    BY <1>7, Zenon DEF IdentityLeaves
  <1> HIDE DEF others, W
  <1>9. /\ others = [k \in 1..W |-> others[k]]
        /\ \A k \in 1..W : others[k] = LeafDigest(Identity(mine[k]))
    BY <1>8, Zenon
  <1>10. others \in Seq({others[k] : k \in 1..W}) /\ Len(others) = W
    BY <1>7, <1>9, ListIsSequence
  <1>11. Len(others) = Len(leaves) /\ RootOf(others) = RootOf(leaves)
         /\ W = Len(written.nodes)
    BY <1>2, <1>6, <1>10 DEF W
  <1>12. \A k \in 1..W : others[k] = leaves[k]
    BY <1>6, <1>10, <1>11, RootsCommit
  <1>13. ASSUME NEW k \in 1..W
         PROVE  Identity(mine[k]) = Identity(written.nodes[k])
    <2>1. leaves = [j \in DOMAIN written.nodes |->
                      LeafDigest(Identity(written.nodes[j]))]
      BY <1>6, Zenon DEF IdentityLeaves
    <2>2. k \in DOMAIN leaves
      BY <1>6, <1>7, <1>10, <1>11
    <2>3. leaves[k] = LeafDigest(Identity(written.nodes[k]))
      BY <2>1, <2>2
    <2>4. LeafDigest(Identity(mine[k])) = LeafDigest(Identity(written.nodes[k]))
      BY <1>9, <1>12, <2>3, Zenon
    <2> QED
      BY <2>4 DEF LeafDigest
  <1> QED
    BY <1>11, <1>13 DEF W, mine, written, i

\* What a reader takes for a page of activity is the page that was written.
LEMMA OnlyActivityLoads ==
    ASSUME NEW s, NEW kind, NEW list, NEW E, list \in Seq(E),
           NEW page, page.index \in Nat, NEW siblings,
           ActivityPageLoads(CategoryIndex(s, kind, list), page, siblings)
    PROVE  page = ActivityPage(s, kind, list, page.index)
  <1> DEFINE size == NODE_ACTIVITY_PAGE_SIZE
             n == Len(list)
             P == Pages(n, size)
             leaves == PageLeaves(s, kind, list)
             category == CategoryIndex(s, kind, list)
             i == page.index
  <1>1. n \in Nat /\ size \in Nat \ {0}
    BY ActivityPageSizeIsPositive
  <1>2. P \in Nat
    <2>1. n + size - 1 \in Nat
      BY <1>1
    <2> QED
      BY <1>1, <2>1, Quotient DEF Pages
  <1> HIDE DEF P
  <1>3. /\ leaves = [k \in 1..P |-> leaves[k]]
        /\ \A k \in 1..P :
             leaves[k] = LeafDigest(ActivityPage(s, kind, list, k - 1))
    BY Zenon DEF PageLeaves, P
  <1> HIDE DEF leaves
  <1>4. leaves \in Seq({leaves[k] : k \in 1..P}) /\ Len(leaves) = P
    BY <1>2, <1>3, ListIsSequence
  <1>5. /\ category.pageCount = Len(leaves)
        /\ category.root = IF leaves = <<>> THEN EmptyRoot(s, kind)
                           ELSE RootOf(leaves)
    BY Zenon DEF CategoryIndex, leaves
  <1>6. /\ i < category.pageCount
        /\ ProofHolds(LeafDigest(page), i, category.pageCount, siblings,
                      category.root)
    BY DEF ActivityPageLoads
  <1> HIDE DEF category
  <1>7. i \in Nat
    OBVIOUS
  <1> HIDE DEF i
  <1>8. i \in 0..(Len(leaves) - 1) /\ leaves # <<>>
    BY <1>2, <1>4, <1>5, <1>6, <1>7
  <1>9. ProofHolds(LeafDigest(page), i, Len(leaves), siblings, RootOf(leaves))
    BY <1>5, <1>6, <1>8
  <1>10. LeafDigest(page) = leaves[i + 1]
    BY <1>4, <1>8, <1>9, OnlyLeavesAreProven
  <1>11. leaves[i + 1] = LeafDigest(ActivityPage(s, kind, list, i))
    <2>1. i + 1 \in 1..P /\ (i + 1) - 1 = i
      BY <1>2, <1>4, <1>8
    <2> QED
      BY <1>3, <2>1
  <1>12. LeafDigest(page) = LeafDigest(ActivityPage(s, kind, list, i))
    BY <1>10, <1>11, Zenon
  <1> HIDE DEF n
  <1>13. page = ActivityPage(s, kind, list, i)
    BY <1>12 DEF LeafDigest
  <1> QED
    BY <1>13 DEF i

\* What is listed of a Project are its Nodes.
LEMMA ListedAreNodes ==
    ASSUME GraphInv, NEW p, NEW i \in 1..Len(Graph(p).nodes)
    PROVE  \E n \in nodes :
             LET m == Graph(p).nodes[i] IN
             /\ n.project = p /\ m.sha = n.sha /\ m.kind = n.kind
             /\ m.parent = n.parent /\ m.origin = n.origin
  <1> DEFINE S == {m \in nodes : m.project = p}
             order == InOrder(S)
             n == Cardinality(S)
             graph == Graph(p)
  <1>1. IsFiniteSet(S) /\ Ordered(S)
    BY ProjectIsOrdered
  <1>2. S = {m \in nodes : m.project = p} /\ order = InOrder(S)
        /\ n = Cardinality(S)
    OBVIOUS
  <1> HIDE DEF S, order, n, graph
  <1>3. IsBuilt(graph, p, order, n)
    BY <1>1, <1>2, GraphIsBuilt DEF graph
  <1>4. i \in 1..n
    BY <1>3 DEF IsBuilt, graph
  <1>5. order[i] \in S
    BY <1>1, <1>2, <1>4, InOrderLists
  <1>6. graph.nodes[i] =
          [sha |-> order[i].sha, kind |-> order[i].kind,
           parent |-> order[i].parent, origin |-> order[i].origin,
           ordinal |-> i - 1,
           parentOrdinal |->
             IF order[i].kind = "root" THEN None
             ELSE (CHOOSE j \in 1..n : order[j].sha = order[i].parent) - 1,
           status |-> NodeStatus(p, order[i])]
    BY <1>3, <1>4, Zenon DEF IsBuilt
  <1>7. /\ graph.nodes[i].sha = order[i].sha
        /\ graph.nodes[i].kind = order[i].kind
        /\ graph.nodes[i].parent = order[i].parent
        /\ graph.nodes[i].origin = order[i].origin
    BY <1>6
  <1> QED
    BY <1>2, <1>5, <1>7 DEF graph

\* No identity is proven against the manifest of a Project but those of its
\* Nodes.  The decoders see to it that a place is a number and Nodes are a list.
OnlyNodesAreProven ==
    \A p \in Project : rootSha[p] # None =>
       \A proof :
          /\ proof.page \in Nat /\ proof.leaf \in Nat
          /\ IdentityProven(GraphManifest(Graph(p)), proof)
          => \E n \in nodes :
               /\ n.project = p
               /\ proof.identity.sha = n.sha /\ proof.identity.kind = n.kind
               /\ proof.identity.parent = n.parent
               /\ proof.identity.origin = n.origin

\* No page matches the manifest but one with the identities of its own Nodes.
OnlyOwnNodesMatch ==
    \A p \in Project : rootSha[p] # None =>
       \A page :
          /\ page.index \in Nat /\ \E E : page.nodes \in Seq(E)
          /\ PageMatches(GraphManifest(Graph(p)), page)
          => LET written == GraphPage(Graph(p), page.index) IN
             /\ Len(page.nodes) = Len(written.nodes)
             /\ \A k \in 1..Len(page.nodes) :
                  Identity(page.nodes[k]) = Identity(written.nodes[k])

\* No page of activity is loaded but the one that was written.
OnlyOwnPagesLoad ==
    \A n \in nodes : \A kind \in ActivityKind :
       \A page, siblings :
          LET list == NodeEntries(n.project, n.sha)[kind] IN
          /\ page.index \in Nat
          /\ ActivityPageLoads(CategoryIndex(n.sha, kind, list), page, siblings)
          => page = ActivityPage(n.sha, kind, list, page.index)

\* Of whatever is handed to a reader with the manifest or index of a state, it
\* takes nothing that is not of this state.
OnlyTheStateIsRead ==
    OnlyNodesAreProven /\ OnlyOwnNodesMatch /\ OnlyOwnPagesLoad

\* The commitments of the read models bind: in no state that the commands of a
\* Project lead to does a reader accept an identity, the Nodes of a graph page
\* or a page of activity that are not those of this state, however they and
\* the membership proofs that come with them were made up.
THEOREM CommitmentsBind == Spec /\ NodesInOrder => []OnlyTheStateIsRead
  <1>1. ASSUME TreeInv, GraphInv, ChildrenOfProposals,
               NEW p \in Project, rootSha[p] # None, NEW proof,
               proof.page \in Nat, proof.leaf \in Nat,
               IdentityProven(GraphManifest(Graph(p)), proof)
        PROVE  \E n \in nodes :
                 /\ n.project = p
                 /\ proof.identity.sha = n.sha
                 /\ proof.identity.kind = n.kind
                 /\ proof.identity.parent = n.parent
                 /\ proof.identity.origin = n.origin
    <2> DEFINE graph == Graph(p)
    <2>1. IsGraphTree(graph)
      BY <1>1, GraphIsTree
    <2>2. PICK i \in 1..Len(graph.nodes) :
            proof.identity = Identity(graph.nodes[i])
      <3> HIDE DEF graph
      <3> QED
        BY <1>1, <2>1, OnlyIdentitiesAreProven DEF graph
    <2>3. PICK n \in nodes :
            /\ n.project = p /\ graph.nodes[i].sha = n.sha
            /\ graph.nodes[i].kind = n.kind
            /\ graph.nodes[i].parent = n.parent
            /\ graph.nodes[i].origin = n.origin
      BY <1>1, ListedAreNodes
    <2> HIDE DEF graph
    <2>4. /\ proof.identity.sha = graph.nodes[i].sha
          /\ proof.identity.kind = graph.nodes[i].kind
          /\ proof.identity.parent = graph.nodes[i].parent
          /\ proof.identity.origin = graph.nodes[i].origin
      BY <2>2 DEF Identity
    <2> QED
      BY <2>3, <2>4
  <1>2. ASSUME TreeInv, GraphInv, ChildrenOfProposals,
               NEW p \in Project, rootSha[p] # None, NEW page,
               page.index \in Nat, \E E : page.nodes \in Seq(E),
               PageMatches(GraphManifest(Graph(p)), page)
        PROVE  LET written == GraphPage(Graph(p), page.index) IN
               /\ Len(page.nodes) = Len(written.nodes)
               /\ \A k \in 1..Len(page.nodes) :
                    Identity(page.nodes[k]) = Identity(written.nodes[k])
    BY <1>2, GraphIsTree, OnlyPagesMatch
  <1>3. ASSUME StateIsFinite, NEW n \in nodes, NEW kind \in ActivityKind,
               NEW page, NEW siblings, page.index \in Nat,
               ActivityPageLoads(
                 CategoryIndex(n.sha, kind,
                               NodeEntries(n.project, n.sha)[kind]),
                 page, siblings)
        PROVE  page = ActivityPage(n.sha, kind,
                                   NodeEntries(n.project, n.sha)[kind],
                                   page.index)
    BY <1>3, ActivityListIsSequence, OnlyActivityLoads
  <1>4. TreeInv /\ GraphInv /\ ChildrenOfProposals /\ StateIsFinite
        => OnlyTheStateIsRead
    <2> SUFFICES ASSUME TreeInv, GraphInv, ChildrenOfProposals, StateIsFinite
                 PROVE  OnlyTheStateIsRead
      OBVIOUS
    <2>1. OnlyNodesAreProven
      <3> SUFFICES ASSUME NEW p \in Project, rootSha[p] # None, NEW proof,
                          proof.page \in Nat, proof.leaf \in Nat,
                          IdentityProven(GraphManifest(Graph(p)), proof)
                   PROVE  \E n \in nodes :
                            /\ n.project = p
                            /\ proof.identity.sha = n.sha
                            /\ proof.identity.kind = n.kind
                            /\ proof.identity.parent = n.parent
                            /\ proof.identity.origin = n.origin
        BY DEF OnlyNodesAreProven
      <3> QED
        BY <1>1
    <2>2. OnlyOwnNodesMatch
      BY <1>2, Zenon DEF OnlyOwnNodesMatch
    <2>3. OnlyOwnPagesLoad
      BY <1>3, Zenon DEF OnlyOwnPagesLoad
    <2> QED
      BY <2>1, <2>2, <2>3 DEF OnlyTheStateIsRead
  <1> QED
    BY <1>4, TreeInvariant, GraphInvariant, ChildrenInvariant,
       RecordsStayFinite, PTL

-----------------------------------------------------------------------------
(* The fields of values and entries *)

\* The fields of two records put together.
LEMMA Joined ==
    ASSUME NEW r, NEW s
    PROVE  /\ DOMAIN (r ++ s) = DOMAIN r \cup DOMAIN s
           /\ \A field \in DOMAIN r : (r ++ s)[field] = r[field]
           /\ \A field \in DOMAIN s \ DOMAIN r : (r ++ s)[field] = s[field]
  BY DEF ++

\* The fields of a disposition's value.
IsDispositionValue(v, x) ==
    /\ v.status = x.status /\ v.id = x.id /\ v.proposalId = x.proposal
    /\ x.status = "confirmed" => v.childNodeSha = x.child

LEMMA DispositionValueIs ==
    ASSUME NEW x
    PROVE  IsDispositionValue(DispositionValue(x), x)
  <1> DEFINE common == [status |-> x.status, id |-> x.id,
                        proposalId |-> x.proposal]
             own == IF x.status = "confirmed" THEN [childNodeSha |-> x.child]
                    ELSE <<>>
             v == common ++ own
  <1>1. DispositionValue(x) = v
    BY Zenon DEF DispositionValue
  <1>2. /\ DOMAIN common = {"status", "id", "proposalId"}
        /\ common.status = x.status /\ common.id = x.id
        /\ common.proposalId = x.proposal
    OBVIOUS
  <1>3. x.status = "confirmed" =>
          DOMAIN own = {"childNodeSha"} /\ own.childNodeSha = x.child
    OBVIOUS
  <1> HIDE DEF common, own
  <1>10. /\ DOMAIN v = DOMAIN common \cup DOMAIN own
         /\ \A field \in DOMAIN common : v[field] = common[field]
         /\ \A field \in DOMAIN own \ DOMAIN common : v[field] = own[field]
    BY Joined
  <1> HIDE DEF v
  <1>4. IsDispositionValue(v, x)
    BY <1>2, <1>3, <1>10 DEF IsDispositionValue
  <1> QED
    BY <1>1, <1>4

\* The fields of a decision's value.
IsDecisionValue(v, d) ==
    /\ v.type = d.kind /\ v.id = d.id /\ v.projectId = d.project
    /\ v.comparisonId = d.comparison
    /\ IF d.kind = "selection"
       THEN v.selectedNodeSha = CHOOSE s \in d.nodes : TRUE
       ELSE v.rejectedNodeShas = Listing(d.nodes)

LEMMA DecisionValueIs ==
    ASSUME NEW d
    PROVE  IsDecisionValue(DecisionValue(d), d)
  <1> DEFINE one == CHOOSE s \in d.nodes : TRUE
             shas == Listing(d.nodes)
             common == [type |-> d.kind, id |-> d.id, projectId |-> d.project,
                        comparisonId |-> d.comparison]
             own == IF d.kind = "selection" THEN [selectedNodeSha |-> one]
                    ELSE [rejectedNodeShas |-> shas]
             v == common ++ own
  <1>1. DecisionValue(d) = v
    BY Zenon DEF DecisionValue
  <1> HIDE DEF one, shas
  <1>2. /\ DOMAIN common = {"type", "id", "projectId", "comparisonId"}
        /\ common.type = d.kind /\ common.id = d.id
        /\ common.projectId = d.project /\ common.comparisonId = d.comparison
    OBVIOUS
  <1>3. IF d.kind = "selection"
        THEN DOMAIN own = {"selectedNodeSha"} /\ own.selectedNodeSha = one
        ELSE DOMAIN own = {"rejectedNodeShas"} /\ own.rejectedNodeShas = shas
    OBVIOUS
  <1> HIDE DEF common, own
  <1>10. /\ DOMAIN v = DOMAIN common \cup DOMAIN own
         /\ \A field \in DOMAIN common : v[field] = common[field]
         /\ \A field \in DOMAIN own \ DOMAIN common : v[field] = own[field]
    BY Joined
  <1> HIDE DEF v
  <1>4. /\ v.type = d.kind /\ v.id = d.id /\ v.projectId = d.project
        /\ v.comparisonId = d.comparison
        /\ IF d.kind = "selection" THEN v.selectedNodeSha = one
           ELSE v.rejectedNodeShas = shas
    BY <1>2, <1>3, <1>10
  <1>5. IsDecisionValue(v, d)
    BY <1>4 DEF IsDecisionValue, one, shas
  <1> QED
    BY <1>1, <1>5

\* The fields of a Run's value that do not change, and those that do.
IsRunValue(v, r) ==
    /\ v.id = r /\ v.sourceNodeSha = runs[r].source
    /\ v.goalDigest = Digest("goal", GoalValue(runs[r].goal))
    /\ v.runnerDigest = Digest("runner", RunnerValue(runs[r].how))
    /\ v.branch = RunBranch(r)
    /\ v.checkpoints = {CheckpointValue(k) :
                          k \in {x \in checkpoints : x.run = r}}
    /\ v.evidenceIds = {e.id : e \in {x \in evidence : x.run = r}}
    /\ v.status = runs[r].status
    /\ runs[r].status = "completed" => v.resultNodeSha = runs[r].result

LEMMA RunValueIs ==
    ASSUME NEW r
    PROVE  IsRunValue(RunValue(r), r)
  <1> DEFINE K == {CheckpointValue(k) : k \in {x \in checkpoints : x.run = r}}
             V == {e.id : e \in {x \in evidence : x.run = r}}
             s == StartedRun(r)
             w == [s EXCEPT !.checkpoints = K, !.evidenceIds = V,
                            !.status = runs[r].status]
             own == IF runs[r].status = "completed"
                    THEN [resultNodeSha |-> runs[r].result] ELSE <<>>
             v == w ++ own
  <1>1. RunValue(r) = v
    BY Zenon DEF RunValue
  <1>2. /\ DOMAIN s = {"id", "projectId", "sourceNodeSha", "goal", "goalDigest",
                       "runner", "runnerDigest", "branch", "checkpoints",
                       "evidenceIds", "status"}
        /\ s = [key \in DOMAIN s |-> s[key]]
        /\ s.id = r /\ s.sourceNodeSha = runs[r].source
        /\ s.goalDigest = Digest("goal", GoalValue(runs[r].goal))
        /\ s.runnerDigest = Digest("runner", RunnerValue(runs[r].how))
        /\ s.branch = RunBranch(r)
    BY DEF StartedRun
  <1> HIDE DEF K, V, s
  <1>3. /\ DOMAIN w = DOMAIN s
        /\ w.checkpoints = K /\ w.evidenceIds = V /\ w.status = runs[r].status
        /\ \A key \in DOMAIN s \ {"checkpoints", "evidenceIds", "status"} :
             w[key] = s[key]
    BY <1>2
  <1> HIDE DEF w
  <1>4. runs[r].status = "completed" =>
          DOMAIN own = {"resultNodeSha"} /\ own.resultNodeSha = runs[r].result
    OBVIOUS
  <1> HIDE DEF own
  <1>11. /\ DOMAIN v = DOMAIN w \cup DOMAIN own
         /\ \A field \in DOMAIN w : v[field] = w[field]
         /\ \A field \in DOMAIN own \ DOMAIN w : v[field] = own[field]
    BY Joined
  <1> HIDE DEF v
  <1>5. /\ \A key \in DOMAIN s : v[key] = w[key]
        /\ runs[r].status = "completed" => v.resultNodeSha = runs[r].result
    BY <1>2, <1>3, <1>4, <1>11
  <1>6. /\ v.id = r /\ v.sourceNodeSha = runs[r].source
        /\ v.goalDigest = Digest("goal", GoalValue(runs[r].goal))
        /\ v.runnerDigest = Digest("runner", RunnerValue(runs[r].how))
        /\ v.branch = RunBranch(r)
        /\ v.checkpoints = K /\ v.evidenceIds = V /\ v.status = runs[r].status
    BY <1>2, <1>3, <1>5
  <1>7. IsRunValue(v, r)
    BY <1>5, <1>6 DEF IsRunValue, K, V
  <1> QED
    BY <1>1, <1>7

\* An event is found by its id.
LEMMA EventIsFound ==
    ASSUME NEW p, NEW log, IsLogOf(p, log), NEW n \in DOMAIN log
    PROVE  Authoritative(log, log[n].meta.eventId) = log[n]
  <1> DEFINE id == log[n].meta.eventId
             m == CHOOSE k \in DOMAIN log : log[k].meta.eventId = id
  <1>1. m \in DOMAIN log /\ log[m].meta.eventId = id
    OBVIOUS
  <1> HIDE DEF m
  <1>2. m = n
    BY <1>1, EventIdsDiffer
  <1> QED
    BY <1>2 DEF Authoritative, m

\* Pairs are equal by their elements.
LEMMA PairsAreEqual ==
    ASSUME NEW a, NEW b, NEW c, NEW d, <<a, b>> = <<c, d>>
    PROVE  a = c /\ b = d
  OBVIOUS

-----------------------------------------------------------------------------
(* The event of a record *)

\* Event e is that of the record of p with this key.
IsOfRecord(p, key, e) ==
    \/ \E w \in reviews : /\ w.project = p /\ IsReviewOf(e, w)
                          /\ key = <<"review", w.id>>
    \/ \E q \in ProjectProposals(p) : /\ IsProposalOf(e, q)
                                      /\ key = <<"proposal", q>>
    \/ \E x \in dispositions :
         /\ x.proposal \in ProjectProposals(p)
         /\ \/ IsDispositionOf(e, x) /\ key = <<"proposal decision", x.id>>
            \/ IsChildOf(e, x) /\ key = <<"coaching child", x.proposal>>
    \/ \E c \in comparisons : /\ c.project = p /\ IsComparedOf(e, c)
                              /\ key = <<"comparison", c.id>>
    \/ \E d \in decisions : /\ d.project = p /\ IsDecisionOf(e, d)
                            /\ key = <<"alternative decision", d.id>>

\* The Node that a confirmed proposal led to.
LEMMA ChildOfDisposition ==
    ASSUME TreeInv, NEW x \in dispositions, x.status = "confirmed"
    PROVE  \E n \in nodes :
              /\ n = NodeAt(proposals[x.proposal].project, x.child)
              /\ n.kind = "coaching_child" /\ n.origin = x.proposal
              /\ n.sha = x.child /\ n.project = proposals[x.proposal].project
              /\ n.parent = proposals[x.proposal].source
              /\ IsValueOf(NodeValue(n), n)
  <1>1. PICK n \in nodes :
             /\ n.kind = "coaching_child" /\ n.origin = x.proposal
             /\ n.sha = x.child /\ n.project = proposals[x.proposal].project
             /\ n.parent = proposals[x.proposal].source
    BY DEF TreeInv, CoachingMatchesDispositions
  <1>2. NodeAt(n.project, n.sha) = n
    BY NodeIsAt
  <1>3. IsValueOf(NodeValue(n), n)
    BY <1>1, NodeValueIs
  <1> QED
    BY <1>1, <1>2, <1>3

\* The key of the record that an event is of.
LEMMA KeysOfEvents ==
    ASSUME TreeInv, NEW e
    PROVE  /\ \A w : IsReviewOf(e, w) => RecordKey(e) = <<"review", w.id>>
           /\ \A q : IsProposalOf(e, q) => RecordKey(e) = <<"proposal", q>>
           /\ \A x \in dispositions :
                IsDispositionOf(e, x) =>
                  RecordKey(e) = <<"proposal decision", x.id>>
           /\ \A x \in dispositions :
                IsChildOf(e, x) =>
                  RecordKey(e) = <<"coaching child", x.proposal>>
           /\ \A c : IsComparedOf(e, c) => RecordKey(e) = <<"comparison", c.id>>
           /\ \A d : IsDecisionOf(e, d) =>
                       RecordKey(e) = <<"alternative decision", d.id>>
  <1>1. ASSUME NEW w, IsReviewOf(e, w)
        PROVE  RecordKey(e) = <<"review", w.id>>
    <2>1. ReviewValue(w).id = w.id
      BY DEF ReviewValue
    <2> QED
      BY <1>1, <2>1 DEF IsReviewOf, RecordKey
  <1>2. ASSUME NEW q, IsProposalOf(e, q)
        PROVE  RecordKey(e) = <<"proposal", q>>
    <2>1. ProposalValue(q).id = q
      BY DEF ProposalValue
    <2> QED
      BY <1>2, <2>1 DEF IsProposalOf, RecordKey
  <1>3. ASSUME NEW x \in dispositions, IsDispositionOf(e, x)
        PROVE  RecordKey(e) = <<"proposal decision", x.id>>
    <2>1. DispositionValue(x).id = x.id
      BY DispositionValueIs DEF IsDispositionValue
    <2> QED
      BY <1>3, <2>1 DEF IsDispositionOf, RecordKey
  <1>4. ASSUME NEW x \in dispositions, IsChildOf(e, x)
        PROVE  RecordKey(e) = <<"coaching child", x.proposal>>
    <2>1. x.status = "confirmed"
      BY <1>4 DEF IsChildOf
    <2>3. PICK n \in nodes :
             /\ n = NodeAt(proposals[x.proposal].project, x.child)
             /\ n.kind = "coaching_child" /\ n.origin = x.proposal
             /\ IsValueOf(NodeValue(n), n)
      BY <2>1, ChildOfDisposition
    <2>4. NodeValue(n).proposalId = x.proposal
      BY <2>3 DEF IsValueOf
    <2>2. /\ e.type = "CoachingChildNodeRegistered"
          /\ e.node.proposalId = x.proposal
      BY <1>4, <2>3, <2>4 DEF IsChildOf, Registers
    <2> QED
      BY <2>2 DEF RecordKey
  <1>5. ASSUME NEW c, IsComparedOf(e, c)
        PROVE  RecordKey(e) = <<"comparison", c.id>>
    <2>1. ComparisonValue(c).id = c.id
      BY ComparisonValueIs DEF IsComparisonOf
    <2> QED
      BY <1>5, <2>1 DEF IsComparedOf, RecordKey
  <1>6. ASSUME NEW d, IsDecisionOf(e, d)
        PROVE  RecordKey(e) = <<"alternative decision", d.id>>
    <2>1. DecisionValue(d).id = d.id
      BY DecisionValueIs DEF IsDecisionValue
    <2> QED
      BY <1>6, <2>1 DEF IsDecisionOf, RecordKey
  <1> QED
    BY <1>1, <1>2, <1>3, <1>4, <1>5, <1>6

\* An event that has a key is that of the record with this key.
LEMMA KeyIsRecord ==
    ASSUME TreeInv, NEW p, NEW e, Told(p, e), RecordKey(e) # <<>>
    PROVE  IsOfRecord(p, RecordKey(e), e)
  <1>1. /\ ~ IsCreationOf(e, p)
        /\ ~ Registers(e, "RootNodeRegistered", NodeAt(p, rootSha[p]))
    BY DEF IsCreationOf, Registers, RecordKey
  <1>2. ~ RunTold(p, e)
    BY DEF RunTold, IsStartOf, IsCheckpointOf, IsEvidenceOf, IsCompletionOf,
           Registers, IsEndOf, RecordKey
  <1>3. CASE CoachingTold(p, e)
    BY <1>3, KeysOfEvents DEF CoachingTold, IsOfRecord
  <1>4. CASE AlternativesTold(p, e)
    BY <1>4, KeysOfEvents DEF AlternativesTold, IsOfRecord
  <1> QED
    BY <1>1, <1>2, <1>3, <1>4 DEF Told

\* A record has one event of a kind.
LEMMA RecordHasOneEvent ==
    ASSUME TreeInv, RecordsHaveIds, NEW p, NEW key, NEW e, NEW f,
           IsOfRecord(p, key, e), IsOfRecord(p, key, f)
    PROVE  e.meta.eventId = f.meta.eventId
  <1>1. CASE \E w \in reviews : IsReviewOf(e, w) /\ key = <<"review", w.id>>
    BY <1>1 DEF IsOfRecord, IsReviewOf
  <1>2. CASE \E q : IsProposalOf(e, q) /\ key = <<"proposal", q>>
    BY <1>2 DEF IsOfRecord, IsProposalOf
  <1>3. CASE \E c : IsComparedOf(e, c) /\ key = <<"comparison", c.id>>
    BY <1>3 DEF IsOfRecord, IsComparedOf
  <1>4. CASE \E x \in dispositions :
                IsDispositionOf(e, x) /\ key = <<"proposal decision", x.id>>
    <2>1. PICK x \in dispositions :
                IsDispositionOf(e, x) /\ key = <<"proposal decision", x.id>>
      BY <1>4
    <2>2. PICK y \in dispositions :
                IsDispositionOf(f, y) /\ key = <<"proposal decision", y.id>>
      BY <2>1 DEF IsOfRecord
    <2>5. /\ key = <<"proposal decision", x.id>>
          /\ key = <<"proposal decision", y.id>>
      BY <2>1, <2>2
    <2>6. <<"proposal decision", x.id>> = <<"proposal decision", y.id>>
      BY <2>5, Zenon
    <2>4. x.id = y.id
      BY <2>6, PairsAreEqual
    <2>3. x = y
      BY <2>4 DEF RecordsHaveIds, IdsDiffer
    <2> QED
      BY <2>1, <2>2, <2>3 DEF IsDispositionOf
  <1>5. CASE \E x \in dispositions :
                IsChildOf(e, x) /\ key = <<"coaching child", x.proposal>>
    <2>1. PICK x \in dispositions :
                IsChildOf(e, x) /\ key = <<"coaching child", x.proposal>>
      BY <1>5
    <2>2. PICK y \in dispositions :
                IsChildOf(f, y) /\ key = <<"coaching child", y.proposal>>
      BY <2>1 DEF IsOfRecord
    <2>5. /\ key = <<"coaching child", x.proposal>>
          /\ key = <<"coaching child", y.proposal>>
      BY <2>1, <2>2
    <2>6. <<"coaching child", x.proposal>> = <<"coaching child", y.proposal>>
      BY <2>5, Zenon
    <2>4. x.proposal = y.proposal
      BY <2>6, PairsAreEqual
    <2>3. x = y
      BY <2>4 DEF TreeInv, CoachingMatchesDispositions
    <2> QED
      BY <2>1, <2>2, <2>3 DEF IsChildOf
  <1>6. CASE \E d \in decisions :
                IsDecisionOf(e, d) /\ key = <<"alternative decision", d.id>>
    <2>1. PICK d \in decisions :
                IsDecisionOf(e, d) /\ key = <<"alternative decision", d.id>>
      BY <1>6
    <2>2. PICK c \in decisions :
                IsDecisionOf(f, c) /\ key = <<"alternative decision", c.id>>
      BY <2>1 DEF IsOfRecord
    <2>5. /\ key = <<"alternative decision", c.id>>
          /\ key = <<"alternative decision", d.id>>
      BY <2>1, <2>2
    <2>6. <<"alternative decision", c.id>> = <<"alternative decision", d.id>>
      BY <2>5, Zenon
    <2>4. c.id = d.id
      BY <2>6, PairsAreEqual
    <2>3. c = d
      BY <2>4 DEF RecordsHaveIds, IdsDiffer
    <2> QED
      BY <2>1, <2>2, <2>3 DEF IsDecisionOf
  <1> QED
    BY <1>1, <1>2, <1>3, <1>4, <1>5, <1>6 DEF IsOfRecord

\* No two events of a log are for the same record.
LEMMA KeysDiffer ==
    ASSUME NEW p, NEW log, LogOfState(p, log), NEW m \in DOMAIN log,
           NEW n \in DOMAIN log, RecordKey(log[m]) = RecordKey(log[n]),
           RecordKey(log[n]) # <<>>
    PROVE  m = n
  <1>1. Told(p, log[m]) /\ Told(p, log[n])
    BY LogIsTold DEF LogOfState
  <1>2. /\ IsOfRecord(p, RecordKey(log[n]), log[m])
        /\ IsOfRecord(p, RecordKey(log[n]), log[n])
    BY <1>1, KeyIsRecord DEF LogOfState
  <1>3. log[m].meta.eventId = log[n].meta.eventId
    BY <1>2, RecordHasOneEvent DEF LogOfState
  <1> QED
    BY <1>3, EventIdsDiffer DEF LogOfState

\* The map finds the event of a record, which is stored under its id.
LEMMA RecordIsFound ==
    ASSUME NEW p, NEW log, LogOfState(p, log), NEW n \in DOMAIN log,
           NEW key, key = RecordKey(log[n]), key # <<>>
    PROVE  /\ key \in RecordKeys(log)
           /\ EventIds(log)[key] = log[n].meta.eventId
           /\ Authoritative(log, EventIds(log)[key]) = log[n]
  <1> DEFINE found == {m \in DOMAIN log : RecordKey(log[m]) = key}
             last == CHOOSE k \in found : \A m \in found : m <= k
  <1>1. key \in RecordKeys(log)
    BY DEF RecordKeys
  <1>2. found = {n}
    BY KeysDiffer
  <1>3. n <= n
    BY DEF LogOfState, IsLogOf
  <1> HIDE DEF found
  <1>4. last = n
    BY <1>2, <1>3
  <1>5. EventIds(log)[key] = log[last].meta.eventId
    BY <1>1 DEF EventIds, found
  <1> HIDE DEF last
  <1>6. EventIds(log)[key] = log[n].meta.eventId
    BY <1>4, <1>5
  <1> QED
    BY <1>1, <1>6, EventIsFound DEF LogOfState

\* Each record has the one event of its key.
LEMMA RecordsAreOnce ==
    ASSUME NEW p, NEW log, LogOfState(p, log)
    PROVE  RecordedOnce(log)
  <1> DEFINE J == {n \in DOMAIN log : RecordKey(log[n]) # <<>>}
             f == [n \in J |-> RecordKey(log[n])]
             S == {f[n] : n \in J}
  <1>1. IsFiniteSet(J)
    <2>1. Len(log) \in Nat /\ DOMAIN log = 1..Len(log)
      BY DEF LogOfState, IsLogOf
    <2>2. IsFiniteSet(1..Len(log))
      BY <2>1, FS_Interval
    <2> QED
      BY <2>1, <2>2, FS_Subset
  <1>2. \A i, j \in J : f[i] = f[j] => i = j
    BY KeysDiffer
  <1>3. RecordKeys(log) = S
    BY DEF RecordKeys
  <1>4. f = [n \in J |-> f[n]]
    OBVIOUS
  <1> HIDE DEF f
  <1>5. Cardinality(S) = Cardinality(J)
    BY <1>1, <1>2, <1>4, CountOfValues
  <1> QED
    BY <1>3, <1>5 DEF RecordedOnce

\* An event of a batch of p is in the log of p.
LEMMA BatchIsInLog ==
    ASSUME NEW p, NEW log, LogTells(p, log), NEW b \in AllBatches(p),
           NEW i \in DOMAIN b
    PROVE  \E n \in DOMAIN log : log[n] = b[i]
  BY DEF LogTells

\* The events of a batch of one, and of two.
LEMMA OneIsFirst ==
    ASSUME NEW type, NEW id, NEW actor, NEW body
    PROVE  1 \in DOMAIN OneEvent(type, id, actor, body)
  BY DEF OneEvent, Batch

LEMMA TwoAreBoth ==
    ASSUME NEW key, NEW actor, NEW x, NEW y
    PROVE  DOMAIN Batch(key, actor, <<x, y>>) = {1, 2}
  BY DEF Batch

\* The event that recorded each record is in the log.
LEMMA ReviewIsInLog ==
    ASSUME NEW p, NEW log, LogTells(p, log), NEW w \in reviews, w.project = p
    PROVE  \E n \in DOMAIN log : IsReviewOf(log[n], w)
  <1> DEFINE b == ReviewBatch(w)
  <1>1. ReviewBatch(w) \in ReviewBatches(p)
    <2>1. ReviewBatch(w) = Batch(<<"RecordCoachReview", w.id>>, Coach,
             <<[type |-> "CoachReviewRecorded", review |-> ReviewValue(w)]>>)
      BY Zenon DEF ReviewBatch, OneEvent
    <2> QED
      BY <2>1 DEF ReviewBatches
  <1>2. b \in AllBatches(p)
    BY <1>1 DEF AllBatches, BatchesOf
  <1>3. 1 \in DOMAIN b
    BY OneIsFirst DEF ReviewBatch
  <1>4. IsReviewOf(b[1], w)
    BY <1>3, ReviewTells
  <1> HIDE DEF b
  <1> QED
    BY <1>2, <1>3, <1>4, BatchIsInLog

LEMMA ProposalIsInLog ==
    ASSUME NEW p, NEW log, LogTells(p, log), NEW q \in ProjectProposals(p)
    PROVE  \E n \in DOMAIN log : IsProposalOf(log[n], q)
  <1> DEFINE b == ProposalBatch(q)
  <1>1. \E A, B : CoachingBatches(q) = {b} \cup A \cup B
    BY Zenon DEF CoachingBatches, ProposalBatch, OneEvent
  <1>2. b \in AllBatches(p)
    BY <1>1 DEF AllBatches, BatchesOf
  <1>3. 1 \in DOMAIN b
    BY OneIsFirst DEF ProposalBatch
  <1>4. IsProposalOf(b[1], q)
    BY <1>3, ProposalTells
  <1> HIDE DEF b
  <1> QED
    BY <1>2, <1>3, <1>4, BatchIsInLog

LEMMA RejectionIsBatch ==
    ASSUME NEW p, NEW x \in dispositions, x.status = "rejected",
           x.proposal \in ProjectProposals(p)
    PROVE  RejectBatch(x) \in AllBatches(p)
  <1> DEFINE q == x.proposal
             S == {y \in dispositions : y.proposal = q /\ y.status = "rejected"}
             Reject(y) ==
               Batch(<<"RejectCoachingProposal", y.id>>, User,
                     <<[type |-> "CoachingProposalRejected",
                        decision |-> DispositionValue(y)]>>)
  <1>1. \E A, B : CoachingBatches(q) = A \cup B \cup {Reject(y) : y \in S}
    BY Zenon DEF CoachingBatches
  <1>2. Reject(x) = RejectBatch(x)
    BY Zenon DEF RejectBatch, OneEvent
  <1> HIDE DEF Reject
  <1>3. RejectBatch(x) \in CoachingBatches(q)
    BY <1>1, <1>2
  <1> QED
    BY <1>3 DEF AllBatches, BatchesOf

LEMMA DispositionIsInLog ==
    ASSUME TypeOK, NEW p, NEW log, LogTells(p, log), NEW x \in dispositions,
           x.proposal \in ProjectProposals(p)
    PROVE  /\ \E n \in DOMAIN log : IsDispositionOf(log[n], x)
           /\ x.status = "confirmed" =>
                \E n \in DOMAIN log : IsChildOf(log[n], x)
  <1>1. CASE x.status = "confirmed"
    <2> DEFINE b == ConfirmBatch(x)
    <2>1. b \in AllBatches(p)
      BY <1>1, ConfirmationIsBatch
    <2>2. DOMAIN b = {1, 2}
      BY TwoAreBoth DEF ConfirmBatch
    <2>3. IsDispositionOf(b[1], x) /\ IsChildOf(b[2], x)
      BY <1>1, <2>2, ConfirmationTells
    <2> HIDE DEF b
    <2> QED
      BY <2>1, <2>2, <2>3, BatchIsInLog
  <1>2. CASE x.status = "rejected"
    <2> DEFINE b == RejectBatch(x)
    <2>1. b \in AllBatches(p)
      BY <1>2, RejectionIsBatch
    <2>2. 1 \in DOMAIN b
      BY OneIsFirst DEF RejectBatch
    <2>3. IsDispositionOf(b[1], x)
      BY <1>2, <2>2, RejectionTells
    <2> HIDE DEF b
    <2> QED
      BY <1>2, <2>1, <2>2, <2>3, BatchIsInLog
  <1> QED
    BY <1>1, <1>2 DEF TypeOK, Disposition

LEMMA ComparisonIsInLog ==
    ASSUME NEW p, NEW log, LogTells(p, log), NEW c \in comparisons,
           c.project = p
    PROVE  \E n \in DOMAIN log : IsComparedOf(log[n], c)
  <1> DEFINE b == CompareBatch(c)
             Compare(y) ==
               Batch(<<"CompareAlternatives", y.id>>, Coach,
                     <<[type |-> "AlternativesCompared",
                        comparison |-> ComparisonValue(y)]>>)
             S == {x \in comparisons : x.project = p}
  <1>0. \E A, B : AlternativeBatches(p) = {Compare(y) : y \in S} \cup A \cup B
    BY Zenon DEF AlternativeBatches
  <1>1. Compare(c) = b
    BY Zenon DEF CompareBatch, OneEvent
  <1>3. 1 \in DOMAIN b
    BY OneIsFirst DEF CompareBatch
  <1>4. IsComparedOf(b[1], c)
    BY <1>3, ComparisonTells
  <1> HIDE DEF b, Compare
  <1>2. b \in AllBatches(p)
    BY <1>0, <1>1 DEF AllBatches, BatchesOf
  <1> QED
    BY <1>2, <1>3, <1>4, BatchIsInLog

LEMMA DecisionIsInLog ==
    ASSUME TypeOK, NEW p, NEW log, LogTells(p, log), NEW d \in decisions,
           d.project = p
    PROVE  \E n \in DOMAIN log : IsDecisionOf(log[n], d)
  <1> DEFINE Select(y) ==
               Batch(<<"SelectAlternative", y.id>>, User,
                     <<[type |-> "AlternativeSelected",
                        decision |-> DecisionValue(y)]>>)
             Dismiss(y) ==
               Batch(<<"RejectAlternatives", y.id>>, User,
                     <<[type |-> "AlternativesRejected",
                        decision |-> DecisionValue(y)]>>)
             S == {x \in decisions : x.project = p /\ x.kind = "selection"}
             T == {x \in decisions : x.project = p /\ x.kind = "rejection"}
  <1>0. \E A : AlternativeBatches(p)
                 = A \cup {Select(y) : y \in S} \cup {Dismiss(y) : y \in T}
    BY Zenon DEF AlternativeBatches
  <1>1. Select(d) = SelectBatch(d) /\ Dismiss(d) = DismissBatch(d)
    BY Zenon DEF SelectBatch, DismissBatch, OneEvent
  <1> HIDE DEF Select, Dismiss
  <1>2. CASE d.kind = "selection"
    <2> DEFINE b == SelectBatch(d)
    <2>1. b \in AllBatches(p)
      BY <1>0, <1>1, <1>2 DEF AllBatches, BatchesOf
    <2>2. 1 \in DOMAIN b
      BY OneIsFirst DEF SelectBatch
    <2>3. IsDecisionOf(b[1], d)
      BY <1>2, <2>2, SelectionTells
    <2> HIDE DEF b
    <2> QED
      BY <2>1, <2>2, <2>3, BatchIsInLog
  <1>3. CASE d.kind = "rejection"
    <2> DEFINE b == DismissBatch(d)
    <2>1. b \in AllBatches(p)
      BY <1>0, <1>1, <1>3 DEF AllBatches, BatchesOf
    <2>2. 1 \in DOMAIN b
      BY OneIsFirst DEF DismissBatch
    <2>3. IsDecisionOf(b[1], d)
      BY <1>3, <2>2, DismissalTells
    <2> HIDE DEF b
    <2> QED
      BY <2>1, <2>2, <2>3, BatchIsInLog
  <1> QED
    BY <1>2, <1>3 DEF TypeOK, Decision

-----------------------------------------------------------------------------
(* What is looked up for a record is its event *)

\* The id that the map has for a record, and the event stored under it.
LEMMA ReviewIsFound ==
    ASSUME NEW p, NEW log, LogOfState(p, log), NEW w \in reviews, w.project = p,
           NEW key, key = <<"review", w.id>>
    PROVE  /\ key \in RecordKeys(log)
           /\ IsReviewOf(Authoritative(log, EventIds(log)[key]), w)
           /\ EventIds(log)[key] = <<<<"RecordCoachReview", w.id>>, 0>>
  <1>1. PICK n \in DOMAIN log : IsReviewOf(log[n], w)
    BY ReviewIsInLog DEF LogOfState
  <1>2. RecordKey(log[n]) = key /\ key # <<>>
    BY <1>1, KeysOfEvents DEF LogOfState
  <1>3. /\ key \in RecordKeys(log)
        /\ EventIds(log)[key] = log[n].meta.eventId
        /\ Authoritative(log, EventIds(log)[key]) = log[n]
    BY <1>2, RecordIsFound
  <1> QED
    BY <1>1, <1>3 DEF IsReviewOf

LEMMA ProposalIsFound ==
    ASSUME NEW p, NEW log, LogOfState(p, log), NEW q \in ProjectProposals(p),
           NEW key, key = <<"proposal", q>>
    PROVE  /\ key \in RecordKeys(log)
           /\ IsProposalOf(Authoritative(log, EventIds(log)[key]), q)
           /\ EventIds(log)[key] = <<<<"RecordCoachingProposal", q>>, 0>>
  <1>1. PICK n \in DOMAIN log : IsProposalOf(log[n], q)
    BY ProposalIsInLog DEF LogOfState
  <1>2. RecordKey(log[n]) = key /\ key # <<>>
    BY <1>1, KeysOfEvents DEF LogOfState
  <1>3. /\ key \in RecordKeys(log)
        /\ EventIds(log)[key] = log[n].meta.eventId
        /\ Authoritative(log, EventIds(log)[key]) = log[n]
    BY <1>2, RecordIsFound
  <1> QED
    BY <1>1, <1>3 DEF IsProposalOf

\* What tells the event of a disposition from the others.
DispositionEventId(x) ==
    IF x.status = "confirmed" THEN <<<<"ConfirmCoachingProposal", x.id>>, 0>>
    ELSE <<<<"RejectCoachingProposal", x.id>>, 0>>

LEMMA DispositionIsFound ==
    ASSUME NEW p, NEW log, LogOfState(p, log), NEW x \in dispositions,
           x.proposal \in ProjectProposals(p),
           NEW key, key = <<"proposal decision", x.id>>
    PROVE  /\ key \in RecordKeys(log)
           /\ IsDispositionOf(Authoritative(log, EventIds(log)[key]), x)
           /\ EventIds(log)[key] = DispositionEventId(x)
  <1>0. TypeOK
    BY DEF LogOfState, TreeInv
  <1>1. PICK n \in DOMAIN log : IsDispositionOf(log[n], x)
    BY <1>0, DispositionIsInLog DEF LogOfState
  <1>2. RecordKey(log[n]) = key /\ key # <<>>
    BY <1>1, KeysOfEvents DEF LogOfState
  <1>3. /\ key \in RecordKeys(log)
        /\ EventIds(log)[key] = log[n].meta.eventId
        /\ Authoritative(log, EventIds(log)[key]) = log[n]
    BY <1>2, RecordIsFound
  <1> QED
    BY <1>1, <1>3 DEF IsDispositionOf, DispositionEventId

ChildEventId(x) == <<<<"ConfirmCoachingProposal", x.id>>, 1>>

LEMMA ChildIsFound ==
    ASSUME NEW p, NEW log, LogOfState(p, log), NEW x \in dispositions,
           x.proposal \in ProjectProposals(p), x.status = "confirmed",
           NEW key, key = <<"coaching child", x.proposal>>
    PROVE  \E n \in DOMAIN log :
             /\ key \in RecordKeys(log) /\ IsChildOf(log[n], x)
             /\ Authoritative(log, EventIds(log)[key]) = log[n]
             /\ EventIds(log)[key] = ChildEventId(x)
  <1>0. TypeOK
    BY DEF LogOfState, TreeInv
  <1>1. PICK n \in DOMAIN log : IsChildOf(log[n], x)
    BY <1>0, DispositionIsInLog DEF LogOfState
  <1>2. RecordKey(log[n]) = key /\ key # <<>>
    BY <1>1, KeysOfEvents DEF LogOfState
  <1>3. /\ key \in RecordKeys(log)
        /\ EventIds(log)[key] = log[n].meta.eventId
        /\ Authoritative(log, EventIds(log)[key]) = log[n]
    BY <1>2, RecordIsFound, ZenonT(30)
  <1> QED
    BY <1>1, <1>3 DEF IsChildOf, ChildEventId

LEMMA ComparisonIsFound ==
    ASSUME NEW p, NEW log, LogOfState(p, log), NEW c \in comparisons,
           c.project = p, NEW key, key = <<"comparison", c.id>>
    PROVE  /\ key \in RecordKeys(log)
           /\ IsComparedOf(Authoritative(log, EventIds(log)[key]), c)
           /\ EventIds(log)[key] = <<<<"CompareAlternatives", c.id>>, 0>>
  <1>1. PICK n \in DOMAIN log : IsComparedOf(log[n], c)
    BY ComparisonIsInLog DEF LogOfState
  <1>2. RecordKey(log[n]) = key /\ key # <<>>
    BY <1>1, KeysOfEvents DEF LogOfState
  <1>3. /\ key \in RecordKeys(log)
        /\ EventIds(log)[key] = log[n].meta.eventId
        /\ Authoritative(log, EventIds(log)[key]) = log[n]
    BY <1>2, RecordIsFound
  <1> QED
    BY <1>1, <1>3 DEF IsComparedOf

DecisionEventId(d) ==
    IF d.kind = "selection" THEN <<<<"SelectAlternative", d.id>>, 0>>
    ELSE <<<<"RejectAlternatives", d.id>>, 0>>

LEMMA DecisionIsFound ==
    ASSUME NEW p, NEW log, LogOfState(p, log), NEW d \in decisions,
           d.project = p, NEW key, key = <<"alternative decision", d.id>>
    PROVE  /\ key \in RecordKeys(log)
           /\ IsDecisionOf(Authoritative(log, EventIds(log)[key]), d)
           /\ EventIds(log)[key] = DecisionEventId(d)
  <1>0. TypeOK
    BY DEF LogOfState, TreeInv
  <1>1. PICK n \in DOMAIN log : IsDecisionOf(log[n], d)
    BY <1>0, DecisionIsInLog DEF LogOfState
  <1>2. RecordKey(log[n]) = key /\ key # <<>>
    BY <1>1, KeysOfEvents DEF LogOfState
  <1>3. /\ key \in RecordKeys(log)
        /\ EventIds(log)[key] = log[n].meta.eventId
        /\ Authoritative(log, EventIds(log)[key]) = log[n]
    BY <1>2, RecordIsFound
  <1> QED
    BY <1>1, <1>3 DEF IsDecisionOf, DecisionEventId

\* Every record of the Project is in the map.
LEMMA RecordsAreAll ==
    ASSUME NEW p, NEW log, LogOfState(p, log)
    PROVE  AllRecorded(p, log)
  <1> DEFINE keys == RecordKeys(log)
  <1>1. \A w \in reviews : w.project = p => <<"review", w.id>> \in keys
    BY ReviewIsFound
  <1>2. \A c \in comparisons : c.project = p => <<"comparison", c.id>> \in keys
    BY ComparisonIsFound
  <1>3. \A d \in decisions :
          d.project = p => <<"alternative decision", d.id>> \in keys
    BY DecisionIsFound
  <1>4. \A q \in ProjectProposals(p) : <<"proposal", q>> \in keys
    BY ProposalIsFound
  <1>5. \A x \in dispositions : x.proposal \in ProjectProposals(p) =>
          /\ <<"proposal decision", x.id>> \in keys
          /\ x.status = "confirmed" => <<"coaching child", x.proposal>> \in keys
    BY DispositionIsFound, ChildIsFound
  <1> HIDE DEF keys
  <1>6. \A d \in DecisionRows(p) : d \in decisions /\ d.project = p
    BY DEF DecisionRows
  <1>7. \A c \in ComparisonRows(p) :
          \E x \in comparisons : x.project = p /\ c.id = x.id
    BY DEF ComparisonRows
  <1>8. {<<"comparison", c.id>> : c \in ComparisonRows(p)} \subseteq keys
    <2>1. ASSUME NEW c \in ComparisonRows(p)
          PROVE  <<"comparison", c.id>> \in keys
      <3>1. PICK x \in comparisons : x.project = p /\ c.id = x.id
        BY <1>7
      <3>2. <<"comparison", x.id>> = <<"comparison", c.id>>
        BY <3>1, Zenon
      <3> QED
        BY <1>2, <3>1, <3>2
    <2> QED
      BY <2>1
  <1>9. {<<"alternative decision", d.id>> : d \in DecisionRows(p)}
          \subseteq keys
    BY <1>3, <1>6
  <1>10. {<<"review", w.id>> : w \in {x \in reviews : x.project = p}}
           \subseteq keys
    BY <1>1
  <1>11. {<<"proposal", q>> : q \in ProjectProposals(p)} \subseteq keys
    BY <1>4
  <1> DEFINE A == {<<"comparison", c.id>> : c \in ComparisonRows(p)}
             B == {<<"alternative decision", d.id>> : d \in DecisionRows(p)}
             C == {<<"review", w.id>> : w \in {x \in reviews : x.project = p}}
             D == {<<"proposal", q>> : q \in ProjectProposals(p)}
             E(x) == <<"proposal decision", x.id>>
             F(x) == <<"coaching child", x.proposal>>
  <1>12. \A x \in dispositions : x.proposal \in ProjectProposals(p) =>
           E(x) \in keys /\ (x.status = "confirmed" => F(x) \in keys)
    BY <1>5
  <1>13. AllRecorded(p, log) <=>
           /\ C \cup A \cup B \cup D \subseteq keys
           /\ \A x \in {y \in dispositions :
                          y.proposal \in ProjectProposals(p)} :
                E(x) \in keys /\ (x.status = "confirmed" => F(x) \in keys)
    BY Zenon DEF AllRecorded, keys
  <1>14. A \subseteq keys /\ B \subseteq keys /\ C \subseteq keys
         /\ D \subseteq keys
    BY <1>8, <1>9, <1>10, <1>11
  <1> HIDE DEF A, B, C, D, E, F
  <1> QED
    BY <1>12, <1>13, <1>14

-----------------------------------------------------------------------------
(* Nodes *)

\* The event that is found for a Node is the one that registered it, whose
\* payload is that of the Node.
LEMMA PayloadIsStored ==
    ASSUME NEW p, NEW log, LogOfState(p, log), NEW n \in nodes, n.project = p
    PROVE  LET envelope == StoredPayload(log, n.sha) IN
           /\ Opens(envelope) /\ DecodesPayload(envelope.data)
           /\ envelope.data = PayloadOf(NodeValue(n))
  <1> DEFINE Holds(k) == "payload" \in DOMAIN log[k]
                         /\ log[k].node.commitSha = n.sha
             k == CHOOSE i \in DOMAIN log : Holds(i)
             envelope == log[k].payload
  <1>0. TreeInv /\ IsLogOf(p, log)
    BY DEF LogOfState
  <1>1. \A m \in nodes : IsValueOf(NodeValue(m), m)
    BY <1>0, NodesHaveShape, NodeValueIs DEF NodeShape, Node
  <1>2. \E i \in DOMAIN log : Holds(i)
    BY <1>0, <1>1 DEF IsLogOf, IsValueOf
  <1>3. k \in DOMAIN log /\ Holds(k)
    BY <1>2
  <1>4. StoredPayload(log, n.sha) = envelope
    BY Zenon DEF StoredPayload
  <1> HIDE DEF k
  <1>5. Readable(p, log[k])
    BY <1>0, <1>3 DEF IsLogOf
  <1>6. PICK m \in nodes : m.project = p /\ log[k].node = NodeValue(m)
    BY <1>3, <1>5 DEF Readable
  <1>7. m = n
    <2>1. NodeValue(m).commitSha = m.sha
      BY <1>1 DEF IsValueOf
    <2>2. m.sha = n.sha
      BY <1>3, <1>6, <2>1
    <2> QED
      BY <1>0, <1>6, <2>2 DEF TreeInv, NodeGraphValid, NodesUnique
  <1>8. HoldsPayloadOf(NodeValue(n), envelope)
    BY <1>3, <1>5, <1>6, <1>7 DEF Readable, DecodesStored
  <1> HIDE DEF envelope, Holds
  <1>9. /\ Opens(envelope) /\ DecodesPayload(envelope.data)
        /\ Digest("payload", envelope.data)
             = Digest("payload", PayloadOf(NodeValue(n)))
    BY <1>8 DEF HoldsPayloadOf, Opens
  <1>10. envelope.data = PayloadOf(NodeValue(n))
    BY <1>9, PairsAreEqual DEF Digest
  <1> QED
    BY <1>4, <1>9, <1>10

\* The fields of a Node's card.
LEMMA CardIs ==
    ASSUME NEW n
    PROVE  /\ CardOf(n).sha = NodeValue(n).commitSha
           /\ CardOf(n).treeSha = NodeValue(n).treeSha
           /\ CardOf(n).managedRef = NodeValue(n).managedRef
           /\ CardOf(n).planDigest = NodeValue(n).planDigest
           /\ CardOf(n).payloadDigest = NodeValue(n).payloadDigest
           /\ CardOf(n).runnerDigest = Digest("runner", NodeValue(n).plan.how)
  BY DEF CardOf

\* A Node is read with the payload that it was registered with.
LEMMA NodeIsRead ==
    ASSUME NEW p, NEW log, LogOfState(p, log), NEW n \in nodes, n.project = p
    PROVE  NodeReads(p, log, n)
  <1> DEFINE envelope == StoredPayload(log, n.sha)
             v == NodeValue(n)
             payload == PayloadOf(v)
             card == CardOf(n)
  <1>0. TreeInv
    BY DEF LogOfState
  <1>1. IsValueOf(v, n)
    BY <1>0, NodesHaveShape, NodeValueIs DEF NodeShape, Node
  <1>2. /\ Opens(envelope) /\ DecodesPayload(envelope.data)
        /\ envelope.data = payload
    BY PayloadIsStored
  <1>3. /\ payload.projectId = v.projectId /\ payload.commitSha = v.commitSha
        /\ payload.treeSha = v.treeSha /\ payload.plan = v.plan
    BY DEF PayloadOf
  <1>4. /\ card.sha = v.commitSha /\ card.treeSha = v.treeSha
        /\ card.managedRef = v.managedRef /\ card.planDigest = v.planDigest
        /\ card.payloadDigest = v.payloadDigest
        /\ card.runnerDigest = Digest("runner", v.plan.how)
    BY CardIs
  <1>5. v.payloadDigest = Digest("payload", payload)
    BY <1>1 DEF IsValueOf
  <1>6. v.planDigest = Digest("plan", v.plan)
    BY <1>1 DEF IsValueOf, PlanDigest
  <1>7. v.projectId = p /\ v.managedRef = ManagedRef(p, n.sha)
    BY <1>1 DEF IsValueOf
  <1> HIDE DEF v, payload, card, envelope
  <1>8. PayloadMatches(p, card, payload)
    BY <1>3, <1>4, <1>5, <1>6, <1>7 DEF PayloadMatches
  <1> QED
    BY <1>2, <1>4, <1>7, <1>8 DEF NodeReads, card, envelope


-----------------------------------------------------------------------------
(* Runs, reviews *)

\* The Node that a commit is registered as is read.
LEMMA NodeAtIsRead ==
    ASSUME NEW p, NEW log, LogOfState(p, log), NEW s, HasNode(p, s)
    PROVE  /\ NodeReads(p, log, NodeAt(p, s))
           /\ StoredPayload(log, s).data = PayloadOf(NodeValue(NodeAt(p, s)))
           /\ IsValueOf(NodeValue(NodeAt(p, s)), NodeAt(p, s))
           /\ NodeAt(p, s).project = p /\ NodeAt(p, s).sha = s
           /\ NodeAt(p, s) \in nodes
  <1>0. TreeInv
    BY DEF LogOfState
  <1>1. /\ NodeAt(p, s) \in nodes /\ NodeAt(p, s).project = p
        /\ NodeAt(p, s).sha = s
    BY NodeFound
  <1>2. IsValueOf(NodeValue(NodeAt(p, s)), NodeAt(p, s))
    BY <1>0, <1>1, NodesHaveShape, NodeValueIs DEF NodeShape, Node
  <1>3. StoredPayload(log, s).data = PayloadOf(NodeValue(NodeAt(p, s)))
    BY <1>1, PayloadIsStored
  <1> QED
    BY <1>1, <1>2, <1>3, NodeIsRead

\* The fields of a Run's entry.
IsRunActivity(v, r) ==
    /\ Exact(v, {"id", "sourceNodeSha", "goalDigest", "runnerDigest", "branch",
                 "checkpoints", "evidenceIds", "outcome"})
    /\ v.id = r /\ v.sourceNodeSha = runs[r].source
    /\ v.goalDigest = Digest("goal", GoalValue(runs[r].goal))
    /\ v.runnerDigest = Digest("runner", RunnerValue(runs[r].how))
    /\ v.checkpoints = {[id |-> k.id, location |-> k.location] :
                          k \in RunValue(r).checkpoints}
    /\ v.evidenceIds = RunValue(r).evidenceIds
    /\ v.outcome = IF RunValue(r).status = "completed"
                   THEN [type |-> "completed",
                         nodeSha |-> RunValue(r).resultNodeSha]
                   ELSE [type |-> RunValue(r).status]

LEMMA RunActivityIs ==
    ASSUME NEW r
    PROVE  IsRunActivity(RunActivity(r), r)
  <1> DEFINE run == RunValue(r)
             a == ActiveRunView(r)
             K == {[id |-> k.id, location |-> k.location] :
                     k \in run.checkpoints}
             outcome == IF run.status = "completed"
                        THEN [type |-> "completed",
                              nodeSha |-> run.resultNodeSha]
                        ELSE [type |-> run.status]
             own == [runnerDigest |-> run.runnerDigest, branch |-> run.branch,
                     checkpoints |-> K, evidenceIds |-> run.evidenceIds,
                     outcome |-> outcome]
             v == a ++ own
  <1>1. RunActivity(r) = v
    BY Zenon DEF RunActivity
  <1>2. /\ DOMAIN a = {"id", "sourceNodeSha", "goalDigest"}
        /\ a.id = r /\ a.sourceNodeSha = run.sourceNodeSha
        /\ a.goalDigest = run.goalDigest
    BY DEF ActiveRunView
  <1> HIDE DEF K, outcome, a
  <1>3. /\ DOMAIN own = {"runnerDigest", "branch", "checkpoints",
                         "evidenceIds", "outcome"}
        /\ own.runnerDigest = run.runnerDigest /\ own.checkpoints = K
        /\ own.evidenceIds = run.evidenceIds /\ own.outcome = outcome
    OBVIOUS
  <1> HIDE DEF own
  <1>4. /\ DOMAIN v = DOMAIN a \cup DOMAIN own
        /\ \A field \in DOMAIN a : v[field] = a[field]
        /\ \A field \in DOMAIN own \ DOMAIN a : v[field] = own[field]
    BY Joined
  <1> HIDE DEF v
  <1>5. IsRunValue(run, r)
    BY RunValueIs
  <1>6. /\ DOMAIN v = {"id", "sourceNodeSha", "goalDigest", "runnerDigest",
                       "branch", "checkpoints", "evidenceIds", "outcome"}
        /\ v.id = r /\ v.sourceNodeSha = run.sourceNodeSha
        /\ v.goalDigest = run.goalDigest
        /\ v.runnerDigest = run.runnerDigest /\ v.checkpoints = K
        /\ v.evidenceIds = run.evidenceIds /\ v.outcome = outcome
    BY <1>2, <1>3, <1>4
  <1>7. /\ run.sourceNodeSha = runs[r].source
        /\ run.goalDigest = Digest("goal", GoalValue(runs[r].goal))
        /\ run.runnerDigest = Digest("runner", RunnerValue(runs[r].how))
    BY <1>5 DEF IsRunValue
  <1> HIDE DEF run
  <1>8. IsRunActivity(v, r)
    BY <1>6, <1>7 DEF IsRunActivity, Exact, K, outcome, run
  <1> QED
    BY <1>1, <1>8

\* A Run is read with the Goal and the Runner that its source offered, and
\* its evidence is for the criteria of this Goal.
LEMMA RunIsRead ==
    ASSUME NEW p, NEW log, LogOfState(p, log), OriginsFit,
           NEW r \in ProjectRuns(p)
    PROVE  RunReads(p, log, r)
  <1> DEFINE run == RunActivity(r)
             s == runs[r].source
             n == NodeAt(p, s)
             plan == PlanValue(n.plan)
             goal == GoalValue(runs[r].goal)
             goals == {g \in plan.nextGoals :
                         Digest("goal", g) = run.goalDigest}
  <1>0. TypeOK /\ r \in RunId /\ runs[r] # None /\ runs[r].project = p
    BY DEF LogOfState, TreeInv, ProjectRuns
  <1>1. /\ HasNode(p, s) /\ runs[r].goal \in n.plan.goals
        /\ runs[r].how = n.plan.how
    BY <1>0 DEF OriginsFit, IsFromPlan
  <1>2. /\ NodeReads(p, log, n) /\ IsValueOf(NodeValue(n), n)
        /\ StoredPayload(log, s).data = PayloadOf(NodeValue(n))
    BY <1>1, NodeAtIsRead
  <1>3. StoredPayload(log, s).data.plan = plan
    BY <1>2 DEF PayloadOf, IsValueOf
  <1>4. /\ run.sourceNodeSha = s /\ run.goalDigest = Digest("goal", goal)
        /\ run.runnerDigest = Digest("runner", RunnerValue(runs[r].how))
    BY RunActivityIs DEF IsRunActivity
  <1>5. goal \in plan.nextGoals /\ plan.how = RunnerValue(runs[r].how)
    BY <1>1 DEF PlanValue
  <1>6. goals = {goal}
    <2>1. \A g : Digest("goal", g) = Digest("goal", goal) => g = goal
      BY PairsAreEqual DEF Digest
    <2> HIDE DEF goal, plan, run
    <2> QED
      BY <1>4, <1>5, <2>1
  <1>7. ASSUME NEW e \in evidence, e.run = r,
               EvidenceActivity(e).target.type = "criterion"
        PROVE  EvidenceActivity(e).target.criterion \in goal.acceptanceCriteria
    <2> DEFINE target == IF e.criterion = None THEN [type |-> "run"]
                         ELSE [type |-> "criterion", criterion |-> e.criterion]
    <2>1. EvidenceActivity(e).target = target
      <3>1. EvidenceActivity(e).target = EvidenceValue(e).target
        BY DEF EvidenceActivity
      <3>2. EvidenceValue(e).target = target
        BY DEF EvidenceValue
      <3> QED
        BY <3>1, <3>2
    <2>2. target.type = "criterion"
      BY <1>7, <2>1
    <2>3. e.criterion # None /\ target.criterion = e.criterion
      BY <2>2
    <2>4. e.criterion \in CriteriaOf[runs[r].goal]
      BY <1>7, <2>3 DEF OriginsFit
    <2>5. goal.acceptanceCriteria = CriteriaOf[runs[r].goal]
      BY DEF GoalValue
    <2> HIDE DEF target, goal
    <2> QED
      BY <2>1, <2>3, <2>4, <2>5
  <1>8. \A e \in EvidenceActivities(r) : e.target.type = "criterion" =>
          \A g \in goals : e.target.criterion \in g.acceptanceCriteria
    <2> HIDE DEF goal, goals
    <2> QED
      BY <1>6, <1>7 DEF EvidenceActivities
  <1>9. goals # {}
    BY <1>6
  <1>10. Digest("runner", plan.how) = run.runnerDigest
    BY <1>4, <1>5
  <1>11. RunReads(p, log, r) <=>
           LET q == StoredPayload(log, run.sourceNodeSha).data.plan
               found == {g \in q.nextGoals : Digest("goal", g) = run.goalDigest}
           IN  /\ NodeReads(p, log, NodeAt(p, run.sourceNodeSha))
               /\ found # {} /\ Digest("runner", q.how) = run.runnerDigest
               /\ \A e \in EvidenceActivities(r) :
                    e.target.type = "criterion" =>
                      \A g \in found :
                         e.target.criterion \in g.acceptanceCriteria
    BY Zenon DEF RunReads
  <1> HIDE DEF run, plan, goals
  <1> QED
    BY <1>2, <1>3, <1>4, <1>8, <1>9, <1>10, <1>11 DEF goals

\* A review's entry is what its event says.
LEMMA ReviewIsRead ==
    ASSUME NEW p, NEW log, LogOfState(p, log), NEW w \in reviews, w.project = p
    PROVE  ReviewReads(log, ReviewActivity(w, EventIds(log)))
  <1> DEFINE v == ReviewActivity(w, EventIds(log))
             key == <<"review", w.id>>
             e == Authoritative(log, EventIds(log)[key])
             review == ReviewValue(w)
  <1>1. IsReviewOf(e, w)
    BY ReviewIsFound
  <1>2. e.type = "CoachReviewRecorded" /\ e.review = review
    BY <1>1 DEF IsReviewOf
  <1>3. /\ v.id = w.id /\ v.targetType = w.target.kind
        /\ v.targetId = w.target.of /\ v.eventId = EventIds(log)[key]
    BY DEF ReviewActivity
  <1>4. w.target.kind \in {"node", "run", "comparison"}
    BY DEF LogOfState, TreeInv, TypeOK, ReviewTarget
  <1>5. /\ review.id = w.id /\ review.target.type = w.target.kind
        /\ w.target.kind = "node" => review.target.nodeSha = w.target.of
        /\ w.target.kind = "run" => review.target.runId = w.target.of
        /\ w.target.kind = "comparison" =>
             review.target.comparisonId = w.target.of
    BY <1>4 DEF ReviewValue
  <1> HIDE DEF v, review, e, key
  <1>6. ReviewMatches(v, review)
    BY <1>3, <1>4, <1>5 DEF ReviewMatches
  <1> QED
    BY <1>2, <1>3, <1>6 DEF ReviewReads, v, e

\* The fields of what an entry says became of a proposal.
IsDispositionActivity(v, q, ids) ==
    \/ /\ ~ \E x \in dispositions : x.proposal = q
       /\ v = [type |-> "pending"]
    \/ \E x \in dispositions :
         /\ x.proposal = q /\ v.type = x.status /\ v.decisionId = x.id
         /\ v.decisionEventId = ids[<<"proposal decision", x.id>>]
         /\ DOMAIN v = {"type", "decisionId", "decisionEventId"}
                       \cup IF x.status = "confirmed"
                            THEN {"childRegistrationEventId", "childNodeSha"}
                            ELSE {}
         /\ x.status = "confirmed" =>
              /\ v.childRegistrationEventId = ids[<<"coaching child", q>>]
              /\ v.childNodeSha = x.child

LEMMA DispositionActivityIs ==
    ASSUME NEW q, NEW ids
    PROVE  IsDispositionActivity(DispositionActivity(q, ids), q, ids)
  <1> DEFINE on == {x \in dispositions : x.proposal = q}
             x == CHOOSE y \in on : TRUE
             decided == ids[<<"proposal decision", x.id>>]
             registered == ids[<<"coaching child", q>>]
             common == [type |-> x.status, decisionId |-> x.id,
                        decisionEventId |-> decided]
             own == IF x.status = "confirmed"
                    THEN [childRegistrationEventId |-> registered,
                          childNodeSha |-> x.child]
                    ELSE <<>>
             v == common ++ own
             pending == [type |-> "pending"]
  <1>1. DispositionActivity(q, ids) = IF on = {} THEN pending ELSE v
    BY Zenon DEF DispositionActivity
  <1>2. CASE on = {}
    BY <1>1, <1>2 DEF IsDispositionActivity
  <1>3. CASE on # {}
    <2>1. x \in dispositions /\ x.proposal = q
      BY <1>3
    <2> HIDE DEF x, decided, registered
    <2>2. /\ DOMAIN common = {"type", "decisionId", "decisionEventId"}
          /\ common.type = x.status /\ common.decisionId = x.id
          /\ common.decisionEventId = decided
      OBVIOUS
    <2>3. /\ DOMAIN own = IF x.status = "confirmed"
                          THEN {"childRegistrationEventId", "childNodeSha"}
                          ELSE {}
          /\ x.status = "confirmed" =>
               /\ own.childRegistrationEventId = registered
               /\ own.childNodeSha = x.child
      OBVIOUS
    <2> HIDE DEF common, own
    <2>4. /\ DOMAIN v = DOMAIN common \cup DOMAIN own
          /\ \A field \in DOMAIN common : v[field] = common[field]
          /\ \A field \in DOMAIN own \ DOMAIN common : v[field] = own[field]
      BY Joined
    <2> HIDE DEF v, on
    <2>5. /\ v.type = x.status /\ v.decisionId = x.id
          /\ v.decisionEventId = decided
          /\ DOMAIN v = {"type", "decisionId", "decisionEventId"}
                        \cup IF x.status = "confirmed"
                             THEN {"childRegistrationEventId", "childNodeSha"}
                             ELSE {}
          /\ x.status = "confirmed" =>
               /\ v.childRegistrationEventId = registered
               /\ v.childNodeSha = x.child
      BY <2>2, <2>3, <2>4
    <2>6. DispositionActivity(q, ids) = v
      BY <1>1, <1>3
    <2>7. decided = ids[<<"proposal decision", x.id>>]
          /\ registered = ids[<<"coaching child", q>>]
      BY DEF decided, registered
    <2> HIDE DEF x
    <2>8. IsDispositionActivity(v, q, ids)
      BY <2>1, <2>5, <2>7 DEF IsDispositionActivity
    <2> QED
      BY <2>6, <2>8
  <1> QED
    BY <1>2, <1>3

\* The registration of a child is read as that of the confirmed proposal.
LEMMA RegistrationIsRead ==
    ASSUME NEW p, NEW log, LogOfState(p, log), NEW q \in ProjectProposals(p),
           NEW x \in dispositions, x.proposal = q, x.status = "confirmed",
           NEW e, IsChildOf(e, x), \E n \in DOMAIN log : e = log[n],
           NEW v, v.id = q, v.sourceNodeSha = proposals[q].source,
           v.disposition.childNodeSha = x.child
    PROVE  /\ RegistrationMatches(p, log, v, PlanValue(proposals[q].plan), e)
           /\ NodeReads(p, log, NodeAt(p, x.child))
  <1>0. TreeInv /\ proposals[q].project = p
    BY DEF LogOfState, ProjectProposals
  <1>1. PICK n \in nodes :
          /\ n = NodeAt(p, x.child) /\ n.kind = "coaching_child"
          /\ n.origin = q /\ n.sha = x.child /\ n.project = p
          /\ n.parent = proposals[q].source /\ IsValueOf(NodeValue(n), n)
    BY <1>0, ChildOfDisposition
  <1> DEFINE node == NodeValue(n)
             payload == StoredPayload(log, x.child).data
             card == CardOf(n)
  <1>2. e.type = "CoachingChildNodeRegistered" /\ e.node = node
    BY <1>0, <1>1 DEF IsChildOf, Registers
  <1>3. payload = PayloadOf(node) /\ NodeReads(p, log, n)
    BY <1>1, PayloadIsStored, NodeIsRead
  <1>4. e.payload.digest = node.payloadDigest
    <2>1. Readable(p, e)
      BY DEF LogOfState, IsLogOf
    <2>2. DecodesRegistration(e, "coaching_child")
      BY <1>2, <2>1 DEF Readable, DecodesStored, DecodesEvent
    <2>3. "payload" \in DOMAIN e
      BY <2>2 DEF DecodesRegistration, Body
    <2>4. HoldsPayloadOf(node, e.payload)
      BY <1>2, <2>1, <2>3 DEF Readable, DecodesStored
    <2> QED
      BY <1>1, <2>4 DEF HoldsPayloadOf, IsValueOf
  <1>5. /\ card.treeSha = node.treeSha /\ card.managedRef = node.managedRef
        /\ card.planDigest = node.planDigest
        /\ card.payloadDigest = node.payloadDigest
    BY CardIs
  <1>6. /\ node.type = "coaching_child" /\ node.projectId = p
        /\ node.commitSha = x.child /\ node.parentSha = proposals[q].source
        /\ node.proposalId = q /\ node.plan = PlanValue(n.plan)
    BY <1>1 DEF IsValueOf
  <1>7. n.plan = proposals[q].plan
    BY <1>1 DEF LogOfState, ChildrenOfProposals
  <1>8. /\ payload.projectId = node.projectId
        /\ payload.commitSha = node.commitSha
        /\ payload.treeSha = node.treeSha /\ payload.plan = node.plan
    BY <1>3 DEF PayloadOf
  <1>9. NodeAt(p, v.disposition.childNodeSha) = n
    BY <1>1
  <1>10. StoredPayload(log, v.disposition.childNodeSha).data = payload
    OBVIOUS
  <1> DEFINE plan == PlanValue(proposals[q].plan)
  <1>11. RegistrationMatches(p, log, v, plan, e) <=>
           LET child == v.disposition.childNodeSha
               card2 == CardOf(NodeAt(p, child))
               payload2 == StoredPayload(log, child).data
               node2 == e.node
           IN
           /\ e.type = "CoachingChildNodeRegistered"
           /\ node2.type = "coaching_child"
           /\ node2.projectId = p /\ node2.commitSha = child
           /\ node2.parentSha = v.sourceNodeSha /\ node2.proposalId = v.id
           /\ \A key \in {"treeSha", "managedRef", "planDigest",
                          "payloadDigest"} : node2[key] = card2[key]
           /\ e.payload.digest = node2.payloadDigest
           /\ payload2.projectId = p /\ payload2.commitSha = child
           /\ payload2.treeSha = card2.treeSha
           /\ node2.plan = plan /\ node2.plan = payload2.plan
    BY Zenon DEF RegistrationMatches
  <1>12. node.plan = plan
    BY <1>6, <1>7
  <1> HIDE DEF node, payload, card, plan
  <1>13. RegistrationMatches(p, log, v, plan, e)
    BY <1>2, <1>4, <1>5, <1>6, <1>8, <1>9, <1>10, <1>11, <1>12 DEF card
  <1> QED
    BY <1>1, <1>3, <1>13 DEF plan

\* What became of a proposal is what the events of its decision say.
LEMMA DispositionIsRead ==
    ASSUME NEW p, NEW log, LogOfState(p, log), NEW q \in ProjectProposals(p),
           NEW v, v.id = q, v.sourceNodeSha = proposals[q].source,
           v.disposition = DispositionActivity(q, EventIds(log))
    PROVE  DispositionReads(p, log, v, PlanValue(proposals[q].plan))
  <1> DEFINE ids == EventIds(log)
             d == v.disposition
             plan == PlanValue(proposals[q].plan)
             e == Authoritative(log, d.decisionEventId)
             child == Authoritative(log, d.childRegistrationEventId)
             decided(type) ==
               /\ e.type = type /\ e.decision.id = d.decisionId
               /\ e.decision.proposalId = v.id
               /\ type = "CoachingProposalConfirmed" =>
                    e.decision.childNodeSha = d.childNodeSha
  <1>1. DispositionReads(p, log, v, plan) <=>
          CASE d.type = "pending" -> TRUE
            [] d.type = "rejected" -> decided("CoachingProposalRejected")
            [] d.type = "confirmed" ->
                 /\ decided("CoachingProposalConfirmed")
                 /\ NodeReads(p, log, NodeAt(p, d.childNodeSha))
                 /\ RegistrationMatches(p, log, v, plan, child)
    BY Zenon DEF DispositionReads
  <1>2. IsDispositionActivity(d, q, ids)
    BY DispositionActivityIs
  <1> HIDE DEF ids
  <1>3. CASE d = [type |-> "pending"]
    BY <1>1, <1>3
  <1>4. ASSUME NEW x \in dispositions,
               /\ x.proposal = q /\ d.type = x.status /\ d.decisionId = x.id
               /\ d.decisionEventId = ids[<<"proposal decision", x.id>>]
               /\ x.status = "confirmed" =>
                    /\ d.childRegistrationEventId = ids[<<"coaching child", q>>]
                    /\ d.childNodeSha = x.child
        PROVE  DispositionReads(p, log, v, plan)
    <2>1. IsDispositionOf(e, x)
      BY <1>4, DispositionIsFound DEF ids
    <2>2. IsDispositionValue(DispositionValue(x), x)
      BY DispositionValueIs
    <2>3. /\ e.decision.id = x.id /\ e.decision.proposalId = q
          /\ x.status = "confirmed" => e.decision.childNodeSha = x.child
      BY <1>4, <2>1, <2>2 DEF IsDispositionOf, IsDispositionValue
    <2>4. CASE x.status = "rejected"
      <3>1. e.type = "CoachingProposalRejected"
        BY <2>1, <2>4 DEF IsDispositionOf
      <3> HIDE DEF e, child, plan
      <3>2. decided("CoachingProposalRejected")
        BY <1>4, <2>3, <3>1
      <3> HIDE DEF decided
      <3> QED
        BY <1>1, <1>4, <2>4, <3>2
    <2>5. CASE x.status = "confirmed"
      <3>1. e.type = "CoachingProposalConfirmed"
        BY <2>1, <2>5 DEF IsDispositionOf
      <3>2. IsChildOf(child, x) /\ \E n \in DOMAIN log : child = log[n]
        <4>1. x.proposal \in ProjectProposals(p)
          BY <1>4
        <4>2. <<"coaching child", q>> = <<"coaching child", x.proposal>>
          BY <1>4
        <4>3. d.childRegistrationEventId
                = EventIds(log)[<<"coaching child", x.proposal>>]
          BY <1>4, <2>5 DEF ids
        <4>4. ASSUME NEW key, key = <<"coaching child", x.proposal>>
              PROVE  /\ IsChildOf(Authoritative(log, EventIds(log)[key]), x)
                     /\ \E n \in DOMAIN log :
                          Authoritative(log, EventIds(log)[key]) = log[n]
          <5>1. \E n \in DOMAIN log :
                   /\ key \in RecordKeys(log) /\ IsChildOf(log[n], x)
                   /\ Authoritative(log, EventIds(log)[key]) = log[n]
                   /\ EventIds(log)[key] = ChildEventId(x)
            BY <1>4, <2>5, <4>1, <4>4, ChildIsFound
          <5> QED
            BY <5>1
        <4> HIDE DEF d
        <4> QED
          BY <4>3, <4>4
      <3> HIDE DEF e, child
      <3>3. /\ RegistrationMatches(p, log, v, plan, child)
            /\ NodeReads(p, log, NodeAt(p, x.child))
        BY <1>4, <2>5, <3>2, RegistrationIsRead
      <3>4. decided("CoachingProposalConfirmed")
        BY <1>4, <2>3, <2>5, <3>1
      <3> HIDE DEF decided, plan
      <3> QED
        BY <1>1, <1>4, <2>5, <3>3, <3>4
    <2> QED
      BY <2>4, <2>5 DEF LogOfState, TreeInv, TypeOK, Disposition
  <1> QED
    BY <1>2, <1>3, <1>4 DEF IsDispositionActivity

\* A proposal is read as its event recorded it, of its source.
LEMMA ProposalIsRead ==
    ASSUME NEW p, NEW log, LogOfState(p, log), NEW q \in ProjectProposals(p)
    PROVE  ProposalReads(p, log, CoachingActivity(q, EventIds(log)))
  <1> DEFINE ids == EventIds(log)
             v == CoachingActivity(q, ids)
             s == proposals[q].source
             n == NodeAt(p, s)
             card == CardOf(n)
             e == Authoritative(log, v.eventId)
             proposal == ProposalValue(q)
             plan == PlanValue(proposals[q].plan)
  <1>0. proposals[q].project = p
    BY DEF ProjectProposals
  <1>1. HasNode(p, s)
    BY DEF LogOfState, RecordsFit, Proposed, ProjectProposals
  <1>2. NodeReads(p, log, n) /\ IsValueOf(NodeValue(n), n) /\ n.sha = s
    BY <1>1, NodeAtIsRead
  <1>3. /\ v.id = q /\ v.eventId = ids[<<"proposal", q>>]
        /\ v.sourceNodeSha = proposal.sourceNodeSha
        /\ v.sourcePayloadDigest = proposal.sourcePayloadDigest
        /\ v.sourcePlanDigest = proposal.sourcePlanDigest
        /\ v.proposedPlanDigest = proposal.proposedPlanDigest
        /\ v.summary = proposal.summary /\ v.rationale = proposal.rationale
        /\ v.disposition = DispositionActivity(q, ids)
    BY DEF CoachingActivity
  <1>4. /\ proposal.id = q
        /\ proposal.sourceNodeSha = NodeValue(n).commitSha
        /\ proposal.sourcePayloadDigest = NodeValue(n).payloadDigest
        /\ proposal.sourcePlanDigest = NodeValue(n).planDigest
        /\ proposal.proposedPlan = plan
        /\ proposal.proposedPlanDigest = Digest("plan", plan)
    BY <1>0 DEF ProposalValue, PlanDigest
  <1>5. IsProposalOf(e, q)
    BY <1>3, ProposalIsFound
  <1>6. e.type = "CoachingProposalRecorded" /\ e.proposal = proposal
    BY <1>5 DEF IsProposalOf
  <1>7. NodeValue(n).commitSha = s
    BY <1>2 DEF IsValueOf
  <1>8. /\ card.payloadDigest = NodeValue(n).payloadDigest
        /\ card.planDigest = NodeValue(n).planDigest
    BY CardIs
  <1> HIDE DEF v, proposal, n, s, card, e, ids, plan
  <1>9. ProposalMatches(v, proposal)
    BY <1>3, <1>4 DEF ProposalMatches, ProposalKeys
  <1>10. DispositionReads(p, log, v, plan)
    BY <1>3, <1>4, <1>7, DispositionIsRead DEF ids, plan, s
  <1>11. ProposalReads(p, log, v) <=>
           LET f == Authoritative(log, v.eventId)
               c == CardOf(NodeAt(p, v.sourceNodeSha))
           IN
           /\ NodeReads(p, log, NodeAt(p, v.sourceNodeSha))
           /\ f.type = "CoachingProposalRecorded"
           /\ ProposalMatches(v, f.proposal)
           /\ c.payloadDigest = v.sourcePayloadDigest
           /\ c.planDigest = v.sourcePlanDigest
           /\ Digest("plan", f.proposal.proposedPlan) = v.proposedPlanDigest
           /\ DispositionReads(p, log, v, f.proposal.proposedPlan)
    BY Zenon DEF ProposalReads
  <1>12. NodeAt(p, v.sourceNodeSha) = n
    BY <1>3, <1>4, <1>7 DEF n
  <1> QED
    BY <1>2, <1>3, <1>4, <1>6, <1>8, <1>9, <1>10, <1>11, <1>12
       DEF v, ids, e, card

\* The fields of a decision's entry.
IsDecisionActivity(v, d, ids) ==
    /\ Exact(v, {"id", "eventId", "type", "comparisonId", "nodeShas"})
    /\ v.id = d.id /\ v.eventId = ids[<<"alternative decision", d.id>>]
    /\ v.type = d.kind /\ v.comparisonId = d.comparison
    /\ v.nodeShas = IF d.kind = "selection"
                    THEN <<DecisionValue(d).selectedNodeSha>>
                    ELSE DecisionValue(d).rejectedNodeShas

LEMMA DecisionActivityIs ==
    ASSUME NEW d, NEW ids
    PROVE  IsDecisionActivity(DecisionActivity(d, ids), d, ids)
  BY DEF IsDecisionActivity, DecisionActivity, Exact

\* The decisions that a comparison's entry shows.
OwnDecisions(c) == {d \in DecisionRows(c.project) : d.comparison = c.id}

\* The fields of a comparison's entry.
IsComparisonActivity(v, c, ids) ==
    /\ v.id = c.id /\ v.eventId = ids[<<"comparison", c.id>>]
    /\ v.type = c.kind /\ v.nodeShas = Listing(c.nodes) /\ v.summary = Text
    /\ IF OwnDecisions(c) = {} THEN v.disposition = [type |-> "undecided"]
       ELSE v.disposition = [type |-> "decisions_recorded",
                             decisions |-> {DecisionActivity(d, ids) :
                                              d \in OwnDecisions(c)}]
    /\ Exact(v, {"type", "id", "eventId", "nodeShas", "summary", "disposition"}
                \cup IF c.kind = "sibling_runs" THEN {"parentNodeSha"}
                     ELSE {"anchorNodeSha", "goalDigest"})
    /\ IF c.kind = "sibling_runs" THEN v.parentNodeSha = c.anchor
       ELSE /\ v.anchorNodeSha = c.anchor
            /\ v.goalDigest = Digest("goal", GoalValue(c.goal))

LEMMA ComparisonActivityIs ==
    ASSUME NEW c, NEW ids
    PROVE  IsComparisonActivity(ComparisonActivity(c, ids), c, ids)
  <1> DEFINE comparison == ComparisonValue(c)
             own == {DecisionActivity(d, ids) :
                       d \in {x \in DecisionRows(c.project) :
                                x.comparison = c.id}}
             recorded == ids[<<"comparison", c.id>>]
             disposition == IF own = {} THEN [type |-> "undecided"]
                            ELSE [type |-> "decisions_recorded",
                                  decisions |-> own]
             common == [id |-> c.id, eventId |-> recorded,
                        type |-> c.kind, nodeShas |-> comparison.nodeShas,
                        summary |-> comparison.summary,
                        disposition |-> disposition]
             rest == IF c.kind = "sibling_runs"
                     THEN [parentNodeSha |-> comparison.parentNodeSha]
                     ELSE [anchorNodeSha |-> comparison.anchorNodeSha,
                           goalDigest |-> comparison.goalDigest]
             v == common ++ rest
  <1>1. ComparisonActivity(c, ids) = v
    BY Zenon DEF ComparisonActivity
  <1>2. IsComparisonOf(comparison, c)
    BY ComparisonValueIs
  <1>3. /\ comparison.nodeShas = Listing(c.nodes) /\ comparison.summary = Text
        /\ IF c.kind = "sibling_runs" THEN comparison.parentNodeSha = c.anchor
           ELSE /\ comparison.anchorNodeSha = c.anchor
                /\ comparison.goalDigest = Digest("goal", GoalValue(c.goal))
    BY <1>2 DEF IsComparisonOf
  <1>4. IF OwnDecisions(c) = {} THEN disposition = [type |-> "undecided"]
        ELSE disposition = [type |-> "decisions_recorded",
                            decisions |-> {DecisionActivity(d, ids) :
                                             d \in OwnDecisions(c)}]
    <2>1. own = {DecisionActivity(d, ids) : d \in OwnDecisions(c)}
      BY Zenon DEF OwnDecisions
    <2>2. own = {} <=> OwnDecisions(c) = {}
      <3> HIDE DEF own
      <3> QED
        BY <2>1
    <2> HIDE DEF own
    <2> QED
      BY <2>1, <2>2
  <1>5. recorded = ids[<<"comparison", c.id>>]
    OBVIOUS
  <1> HIDE DEF comparison, recorded, disposition
  <1>6. /\ DOMAIN common = {"id", "eventId", "type", "nodeShas", "summary",
                            "disposition"}
        /\ common.id = c.id /\ common.eventId = recorded
        /\ common.type = c.kind /\ common.nodeShas = comparison.nodeShas
        /\ common.summary = comparison.summary
        /\ common.disposition = disposition
    OBVIOUS
  <1>7. /\ DOMAIN rest = IF c.kind = "sibling_runs" THEN {"parentNodeSha"}
                         ELSE {"anchorNodeSha", "goalDigest"}
        /\ IF c.kind = "sibling_runs"
           THEN rest.parentNodeSha = comparison.parentNodeSha
           ELSE /\ rest.anchorNodeSha = comparison.anchorNodeSha
                /\ rest.goalDigest = comparison.goalDigest
    OBVIOUS
  <1> HIDE DEF common, rest
  <1>8. /\ DOMAIN v = DOMAIN common \cup DOMAIN rest
        /\ \A field \in DOMAIN common : v[field] = common[field]
        /\ \A field \in DOMAIN rest \ DOMAIN common : v[field] = rest[field]
    BY Joined
  <1> HIDE DEF v
  <1>9. /\ DOMAIN v = {"type", "id", "eventId", "nodeShas", "summary",
                       "disposition"}
                      \cup IF c.kind = "sibling_runs" THEN {"parentNodeSha"}
                           ELSE {"anchorNodeSha", "goalDigest"}
        /\ v.id = c.id /\ v.eventId = recorded /\ v.type = c.kind
        /\ v.nodeShas = comparison.nodeShas /\ v.summary = comparison.summary
        /\ v.disposition = disposition
        /\ IF c.kind = "sibling_runs"
           THEN v.parentNodeSha = comparison.parentNodeSha
           ELSE /\ v.anchorNodeSha = comparison.anchorNodeSha
                /\ v.goalDigest = comparison.goalDigest
    BY <1>6, <1>7, <1>8
  <1>10. IsComparisonActivity(v, c, ids)
    BY <1>3, <1>4, <1>5, <1>9 DEF IsComparisonActivity, Exact
  <1> QED
    BY <1>1, <1>10

\* A decision that an entry shows is what its event says.
LEMMA DecisionIsRead ==
    ASSUME NEW p, NEW log, LogOfState(p, log), NEW x \in decisions,
           x.project = p, NEW d, d = DecisionActivity(x, EventIds(log))
    PROVE  LET decided == Authoritative(log, d.eventId) IN
           /\ decided.type = IF d.type = "selection" THEN "AlternativeSelected"
                             ELSE "AlternativesRejected"
           /\ DecisionMatches(p, d, decided.decision)
  <1> DEFINE e == Authoritative(log, d.eventId)
             decision == DecisionValue(x)
  <1>1. /\ d.id = x.id
        /\ d.eventId = EventIds(log)[<<"alternative decision", x.id>>]
        /\ d.type = x.kind /\ d.comparisonId = x.comparison
        /\ d.nodeShas = IF x.kind = "selection"
                        THEN <<decision.selectedNodeSha>>
                        ELSE decision.rejectedNodeShas
    BY DecisionActivityIs DEF IsDecisionActivity
  <1>2. IsDecisionOf(e, x)
    BY <1>1, DecisionIsFound
  <1>3. /\ decision.type = x.kind /\ decision.id = x.id
        /\ decision.projectId = p /\ decision.comparisonId = x.comparison
    BY DecisionValueIs DEF IsDecisionValue
  <1>4. /\ e.decision = decision
        /\ e.type = IF x.kind = "selection" THEN "AlternativeSelected"
                    ELSE "AlternativesRejected"
    BY <1>2 DEF IsDecisionOf
  <1> HIDE DEF decision, e
  <1>5. DecisionMatches(p, d, decision)
    BY <1>1, <1>3 DEF DecisionMatches
  <1> QED
    BY <1>1, <1>4, <1>5 DEF e

\* A comparison is read as its event recorded it, with the decisions on it.
LEMMA ComparisonIsRead ==
    ASSUME NEW p, NEW log, LogOfState(p, log), NEW c \in comparisons,
           c.project = p
    PROVE  ComparisonReads(p, log, ComparisonActivity(c, EventIds(log)))
  <1> DEFINE ids == EventIds(log)
             v == ComparisonActivity(c, ids)
             e == Authoritative(log, v.eventId)
             comparison == ComparisonValue(c)
  <1>1. IsComparisonActivity(v, c, ids)
    BY ComparisonActivityIs
  <1>2. IsComparisonOf(comparison, c)
    BY ComparisonValueIs
  <1>3. IsComparedOf(e, c)
    BY <1>1, ComparisonIsFound DEF IsComparisonActivity
  <1>4. e.type = "AlternativesCompared" /\ e.comparison = comparison
    BY <1>3 DEF IsComparedOf
  <1> HIDE DEF v, comparison, e
  <1>5. ComparisonMatches(v, comparison)
    BY <1>1, <1>2
       DEF ComparisonMatches, IsComparisonActivity, IsComparisonOf, Exact
  <1>6. AlternativesRead(p, log, v.disposition)
    <2>1. CASE OwnDecisions(c) = {}
      <3>1. v.disposition.type = "undecided"
        BY <1>1, <2>1 DEF IsComparisonActivity
      <3> QED
        BY <3>1 DEF AlternativesRead
    <2>2. CASE OwnDecisions(c) # {}
      <3>1. v.disposition.decisions
              = {DecisionActivity(x, ids) : x \in OwnDecisions(c)}
        BY <1>1, <2>2 DEF IsComparisonActivity
      <3>2. \A d \in v.disposition.decisions : \E x \in decisions :
               x.project = p /\ d = DecisionActivity(x, ids)
        BY <3>1 DEF OwnDecisions, DecisionRows
      <3>3. ASSUME NEW d \in v.disposition.decisions
            PROVE  LET decided == Authoritative(log, d.eventId) IN
                   /\ decided.type = IF d.type = "selection"
                                     THEN "AlternativeSelected"
                                     ELSE "AlternativesRejected"
                   /\ DecisionMatches(p, d, decided.decision)
        <4>1. PICK x \in decisions :
                 x.project = p /\ d = DecisionActivity(x, ids)
          BY <3>2
        <4> QED
          BY <4>1, DecisionIsRead
      <3> QED
        BY <3>3, Zenon DEF AlternativesRead
    <2> QED
      BY <2>1, <2>2
  <1> QED
    BY <1>4, <1>5, <1>6 DEF ComparisonReads, e, v

\* All that a state shows is confirmed by its log.
LEMMA AllIsRead ==
    ASSUME NEW p, NEW log, LogOfState(p, log), OriginsFit
    PROVE  ReadsAreAuthoritative(p, log)
  <1> DEFINE ids == EventIds(log)
  <1>1. \A n \in {m \in nodes : m.project = p} : NodeReads(p, log, n)
    BY NodeIsRead
  <1>2. \A r \in ProjectRuns(p) : RunReads(p, log, r)
    BY RunIsRead
  <1>3. \A w \in {x \in reviews : x.project = p} :
           ReviewReads(log, ReviewActivity(w, ids))
    BY ReviewIsRead
  <1>4. \A q \in ProjectProposals(p) :
           ProposalReads(p, log, CoachingActivity(q, ids))
    BY ProposalIsRead
  <1>5. \A c \in {x \in comparisons : x.project = p} :
           ComparisonReads(p, log, ComparisonActivity(c, ids))
    BY ComparisonIsRead
  <1> QED
    BY <1>1, <1>2, <1>3, <1>4, <1>5, Zenon DEF ReadsAreAuthoritative

-----------------------------------------------------------------------------
(* The entries of the activity lists are what their decoders accept *)

\* The entry of a Run, those of its evidence and those of its reviews.
LEMMA RunActivityDecodes ==
    ASSUME TypeOK, ResultsMatchRuns, NEW r \in RunId, runs[r] # None
    PROVE  DecodesRunActivity(RunActivity(r))
  <1> DEFINE v == RunActivity(r)
             run == RunValue(r)
             active == [id |-> v.id, sourceNodeSha |-> v.sourceNodeSha,
                        goalDigest |-> v.goalDigest]
  <1>1. DecodesRun(run)
    BY RunDecodes
  <1>2. IsRunActivity(v, r)
    BY RunActivityIs
  <1>3. IsRunValue(run, r)
    BY RunValueIs
  <1> HIDE DEF v, run
  <1>4. /\ v.id = r /\ v.sourceNodeSha \in Sha /\ IsDigest("goal", v.goalDigest)
        /\ v.evidenceIds \subseteq EvidenceId
    <2>1. /\ run.sourceNodeSha \in Sha /\ IsDigest("goal", run.goalDigest)
          /\ run.evidenceIds \subseteq EvidenceId
      BY <1>1 DEF DecodesRun
    <2>2. /\ v.id = r /\ v.sourceNodeSha = run.sourceNodeSha
          /\ v.goalDigest = run.goalDigest /\ v.evidenceIds = run.evidenceIds
      BY <1>2, <1>3 DEF IsRunActivity, IsRunValue, run
    <2> QED
      BY <2>1, <2>2
  <1>5. DecodesActiveRun(active)
    BY <1>4 DEF DecodesActiveRun, Exact
  <1>6. \A k \in v.checkpoints :
          /\ k.location = [type |-> "observation"] /\ k.id \in CheckpointId
          /\ k = [id |-> k.id, location |-> k.location]
    <2>1. v.checkpoints = {[id |-> k.id, location |-> k.location] :
                             k \in run.checkpoints}
      BY <1>2 DEF IsRunActivity, run
    <2>2. \A k \in run.checkpoints :
            k.id \in CheckpointId /\ k.location = [type |-> "observation"]
      <3>1. ASSUME NEW x \in checkpoints
            PROVE  /\ CheckpointValue(x).id \in CheckpointId
                   /\ CheckpointValue(x).location = [type |-> "observation"]
        BY DEF TypeOK, CheckpointValue
      <3> QED
        BY <1>3, <3>1 DEF IsRunValue
    <2> QED
      BY <2>1, <2>2
  <1>7. DecodesOutcome(v.outcome)
    <2>1. /\ run.status \in {"running", "completed", "failed", "canceled"}
          /\ run.status = "completed" => run.resultNodeSha \in Sha
      BY <1>1 DEF DecodesRun
    <2>2. v.outcome = IF run.status = "completed"
                      THEN [type |-> "completed", nodeSha |-> run.resultNodeSha]
                      ELSE [type |-> run.status]
      BY <1>2 DEF IsRunActivity, run
    <2> QED
      BY <2>1, <2>2 DEF DecodesOutcome, Exact
  <1>8. \A k \in v.checkpoints : Exact(k, {"id", "location"})
    BY <1>6 DEF Exact
  <1>9. \A k, l \in v.checkpoints : k.id = l.id => k = l
    BY <1>6
  <1>10. Exact(v, {"id", "sourceNodeSha", "goalDigest", "runnerDigest",
                   "branch", "checkpoints", "evidenceIds", "outcome"})
    BY <1>2 DEF IsRunActivity
  <1>11. DecodesRunActivity(v)
    BY <1>4, <1>5, <1>6, <1>7, <1>8, <1>9, <1>10 DEF DecodesRunActivity
  <1> QED
    BY <1>11 DEF v

LEMMA EvidenceActivityDecodes ==
    ASSUME TypeOK, NEW e \in evidence, runs[e.run] # None
    PROVE  /\ DecodesEvidenceActivity(EvidenceActivity(e))
           /\ EvidenceActivity(e).id = e.id /\ EvidenceActivity(e).runId = e.run
           /\ EvidenceActivity(e).goalDigest
                = Digest("goal", GoalValue(runs[e.run].goal))
  <1> DEFINE v == EvidenceActivity(e)
             item == EvidenceValue(e)
  <1>1. DecodesEvidence(item)
    BY EvidenceDecodes
  <1>2. /\ item.id = e.id /\ item.runId = e.run
    BY DEF EvidenceValue
  <1>3. /\ v.id = e.id /\ v.runId = e.run
        /\ v.goalDigest = RunValue(e.run).goalDigest
        /\ v.kind = item.kind /\ v.target = item.target
        /\ v.location = item.location
        /\ DOMAIN v = {"id", "runId", "goalDigest", "kind", "target",
                       "location"}
    BY DEF EvidenceActivity
  <1>4. v.goalDigest = Digest("goal", GoalValue(runs[e.run].goal))
    BY <1>3, RunValueIs DEF IsRunValue
  <1> HIDE DEF v, item
  <1>5. IsDigest("goal", v.goalDigest)
    BY <1>4 DEF IsDigest, Digest
  <1>6. e.id \in EvidenceId /\ e.run \in RunId
    BY DEF TypeOK
  <1>7. DecodesEvidenceActivity(v)
    BY <1>1, <1>3, <1>5, <1>6
       DEF DecodesEvidence, DecodesEvidenceActivity, Exact
  <1> QED
    BY <1>3, <1>4, <1>7 DEF v

LEMMA ReviewActivityDecodes ==
    ASSUME TypeOK, NEW w \in reviews, NEW ids
    PROVE  /\ DecodesReviewActivity(ReviewActivity(w, ids))
           /\ ReviewActivity(w, ids).targetType = w.target.kind
           /\ ReviewActivity(w, ids).targetId = w.target.of
  <1>1. w.id \in ReviewId /\ w.target.kind \in {"node", "run", "comparison"}
    BY DEF TypeOK, ReviewTarget
  <1> QED
    BY <1>1 DEF ReviewActivity, DecodesReviewActivity, Exact

LEMMA RunShardDecodes ==
    ASSUME TypeOK, ResultsMatchRuns, NEW p, NEW r \in ProjectRuns(p), NEW ids
    PROVE  DecodesRunShard(RunActivity(r), EvidenceActivities(r),
                           RunReviews(p, r, ids))
  <1> DEFINE run == RunActivity(r)
             items == EvidenceActivities(r)
             reviewed == RunReviews(p, r, ids)
  <1>1. r \in RunId /\ runs[r] # None
    BY DEF ProjectRuns
  <1>2. DecodesRunActivity(run)
    BY <1>1, RunActivityDecodes
  <1>3. /\ run.id = r
        /\ run.goalDigest = Digest("goal", GoalValue(runs[r].goal))
        /\ run.evidenceIds = {e.id : e \in {x \in evidence : x.run = r}}
    <2>1. IsRunActivity(run, r) /\ IsRunValue(RunValue(r), r)
      BY RunActivityIs, RunValueIs
    <2> HIDE DEF run
    <2> QED
      BY <2>1 DEF IsRunActivity, IsRunValue
  <1> HIDE DEF run
  <1>4. \A e \in {x \in evidence : x.run = r} :
          /\ DecodesEvidenceActivity(EvidenceActivity(e))
          /\ EvidenceActivity(e).id = e.id
          /\ EvidenceActivity(e).runId = run.id
          /\ EvidenceActivity(e).goalDigest = run.goalDigest
    BY <1>1, <1>3, EvidenceActivityDecodes
  <1>5. /\ \A e \in items : /\ DecodesEvidenceActivity(e)
                            /\ e.runId = run.id /\ e.goalDigest = run.goalDigest
        /\ {e.id : e \in items} = run.evidenceIds
    BY <1>3, <1>4 DEF EvidenceActivities
  <1>6. \A w \in reviewed : /\ DecodesReviewActivity(w)
                            /\ w.targetType = "run" /\ w.targetId = run.id
    BY <1>3, ReviewActivityDecodes DEF RunReviews
  <1> HIDE DEF items, reviewed
  <1> QED
    BY <1>2, <1>5, <1>6 DEF DecodesRunShard, run, items, reviewed

\* The entry of a decision, with the Nodes that it is on.
LEMMA DecisionActivityDecodes ==
    ASSUME TypeOK, NEW d \in decisions, IsFiniteSet(d.nodes), d.nodes # {},
           NEW ids
    PROVE  /\ DecodesDecisionActivity(DecisionActivity(d, ids))
           /\ Range(DecisionActivity(d, ids).nodeShas) \subseteq d.nodes
  <1> DEFINE v == DecisionActivity(d, ids)
             value == DecisionValue(d)
  <1>1. IsDecisionActivity(v, d, ids)
    BY DecisionActivityIs
  <1>2. IsDecisionValue(value, d)
    BY DecisionValueIs
  <1>3. DecodesDecision(value) /\ value.type = d.kind
    BY DecisionDecodes
  <1>4. /\ d.id \in DecisionId /\ d.comparison \in ComparisonId
        /\ d.kind \in {"selection", "rejection"} /\ d.nodes \subseteq Sha
    BY DEF TypeOK, Decision
  <1>5. /\ v.id = d.id /\ v.comparisonId = d.comparison /\ v.type = d.kind
        /\ v.nodeShas = IF d.kind = "selection"
                        THEN <<value.selectedNodeSha>>
                        ELSE value.rejectedNodeShas
        /\ Exact(v, {"id", "eventId", "type", "comparisonId", "nodeShas"})
    BY <1>1 DEF IsDecisionActivity
  <1> HIDE DEF v, value
  <1>6. CASE d.kind = "selection"
    <2> DEFINE s == value.selectedNodeSha
    <2>1. s = CHOOSE x \in d.nodes : TRUE
      BY <1>2, <1>6 DEF IsDecisionValue
    <2>2. s \in d.nodes
      BY <2>1
    <2>3. v.nodeShas = <<s>>
      BY <1>5, <1>6
    <2> HIDE DEF s
    <2>4. /\ Range(v.nodeShas) \subseteq d.nodes /\ IsInjective(v.nodeShas)
          /\ v.nodeShas # <<>> /\ Len(v.nodeShas) = 1
      BY <2>2, <2>3 DEF Range, IsInjective
    <2> QED
      BY <1>4, <1>5, <2>4 DEF DecodesDecisionActivity, v
  <1>7. CASE d.kind = "rejection"
    <2> DEFINE shas == Listing(d.nodes)
    <2>1. v.nodeShas = value.rejectedNodeShas /\ value.rejectedNodeShas = shas
      BY <1>2, <1>5, <1>7 DEF IsDecisionValue
    <2>2. /\ shas # <<>> /\ IsInjective(shas) /\ Range(shas) \subseteq Sha
      BY <1>3, <1>7, <2>1 DEF DecodesDecision
    <2>3. Range(shas) = d.nodes
      BY ListingListsOnce, ReverseLists
    <2> HIDE DEF shas
    <2> QED
      BY <1>4, <1>5, <1>7, <2>1, <2>2, <2>3 DEF DecodesDecisionActivity, v
  <1> QED
    BY <1>4, <1>6, <1>7

\* The entry of a comparison, with the decisions on it: each is on Nodes that
\* were compared, and no two are the same.
LEMMA ComparisonActivityDecodes ==
    ASSUME NEW p, NEW log, LogOfState(p, log), AlternativesInv,
           NEW c \in comparisons, c.project = p
    PROVE  DecodesComparisonActivity(ComparisonActivity(c, EventIds(log)))
  <1> DEFINE ids == EventIds(log)
             v == ComparisonActivity(c, ids)
             own == OwnDecisions(c)
             shown == {DecisionActivity(d, ids) : d \in own}
             shas == Listing(c.nodes)
  <1>0. TypeOK /\ RecordsFit /\ RecordsHaveIds
    BY DEF LogOfState, TreeInv
  <1>1. /\ c.id \in ComparisonId /\ c.anchor \in Sha /\ c.nodes \subseteq Sha
        /\ c.kind \in {"sibling_runs", "coached_how_experiment"}
    BY <1>0 DEF TypeOK, Comparison
  <1>2. IsFiniteSet(c.nodes) /\ Cardinality(c.nodes) >= 2
    BY <1>0 DEF RecordsFit
  <1>3. /\ Range(shas) = c.nodes /\ IsInjective(shas) /\ Len(shas) >= 2
    <2>1. IsListingOf(shas, c.nodes)
      BY <1>2, ListingListsOnce
    <2> HIDE DEF shas
    <2> QED
      BY <1>2, <2>1, ReverseLists DEF IsListingOf
  <1>4. IsComparisonActivity(v, c, ids)
    BY ComparisonActivityIs
  <1>5. ids[<<"comparison", c.id>>] = <<<<"CompareAlternatives", c.id>>, 0>>
    BY ComparisonIsFound
  <1> HIDE DEF ids, v, shas
  <1>6. /\ v.id = c.id /\ v.type = c.kind /\ v.nodeShas = shas
        /\ v.eventId = <<<<"CompareAlternatives", c.id>>, 0>>
        /\ IF own = {} THEN v.disposition = [type |-> "undecided"]
           ELSE v.disposition = [type |-> "decisions_recorded",
                                 decisions |-> shown]
    BY <1>4, <1>5 DEF IsComparisonActivity, shas
  <1>7. ASSUME NEW d \in own
        PROVE  LET a == DecisionActivity(d, ids) IN
               /\ d \in decisions
               /\ DecodesDecisionActivity(a) /\ a.id = d.id
               /\ a.eventId = DecisionEventId(d) /\ a.comparisonId = c.id
               /\ Range(a.nodeShas) \subseteq c.nodes
    <2> DEFINE a == DecisionActivity(d, ids)
    <2>1. d \in decisions /\ d.project = p /\ d.comparison = c.id
      BY DEF OwnDecisions, DecisionRows
    <2>2. IsFiniteSet(d.nodes) /\ d.nodes # {}
      BY <1>0, <2>1 DEF RecordsFit
    <2>3. DecodesDecisionActivity(a) /\ Range(a.nodeShas) \subseteq d.nodes
      BY <1>0, <2>1, <2>2, DecisionActivityDecodes
    <2>4. IsDecisionActivity(a, d, ids)
      BY DecisionActivityIs
    <2>5. ids[<<"alternative decision", d.id>>] = DecisionEventId(d)
      BY <2>1, DecisionIsFound DEF ids
    <2>6. d.nodes \subseteq c.nodes
      BY <2>1 DEF AlternativesInv
    <2> HIDE DEF a
    <2>7. a.id = d.id /\ a.eventId = DecisionEventId(d) /\ a.comparisonId = c.id
      BY <2>1, <2>4, <2>5 DEF IsDecisionActivity
    <2> QED
      BY <2>1, <2>3, <2>6, <2>7 DEF a
  <1>8. ASSUME own # {}
        PROVE  DecodesDecided(shown, v)
    <2>1. \A d \in own : DecisionEventId(d) # v.eventId
      <3>1. ASSUME NEW d, NEW key, key = DecisionEventId(d)
            PROVE  key[1][1] # "CompareAlternatives"
        BY <3>1 DEF DecisionEventId
      <3>2. v.eventId[1][1] = "CompareAlternatives"
        BY <1>6
      <3> QED
        BY <3>1, <3>2
    <2>2. ASSUME NEW d, NEW e, DecisionEventId(d) = DecisionEventId(e)
          PROVE  d.id = e.id
      <3>1. ASSUME NEW x
            PROVE  DecisionEventId(x)[1][2] = x.id
        BY DEF DecisionEventId
      <3> QED
        BY <2>2, <3>1
    <2>3. \A d, e \in own : d.id = e.id => d = e
      BY <1>0, <1>7 DEF RecordsHaveIds, IdsDiffer
    <2> DEFINE A(d) == DecisionActivity(d, ids)
    <2>4. \A d \in own :
            /\ DecodesDecisionActivity(A(d)) /\ A(d).id = d.id
            /\ A(d).eventId = DecisionEventId(d) /\ A(d).comparisonId = v.id
            /\ Range(A(d).nodeShas) \subseteq Range(v.nodeShas)
      BY <1>3, <1>6, <1>7
    <2>5. shown = {A(d) : d \in own}
      BY Zenon
    <2> HIDE DEF A, own, shown
    <2>6. shown # {}
      BY <1>8, <2>5
    <2>7. \A x \in shown : /\ DecodesDecisionActivity(x)
                           /\ x.eventId # v.eventId /\ x.comparisonId = v.id
                           /\ Range(x.nodeShas) \subseteq Range(v.nodeShas)
      BY <2>1, <2>4, <2>5
    <2>8. \A x, y \in shown : x.id = y.id \/ x.eventId = y.eventId => x = y
      BY <2>2, <2>3, <2>4, <2>5
    <2> QED
      BY <2>6, <2>7, <2>8 DEF DecodesDecided
  <1> HIDE DEF own, shown
  <1>9. \/ v.disposition = [type |-> "undecided"]
        \/ /\ Exact(v.disposition, {"type", "decisions"})
           /\ v.disposition.type = "decisions_recorded"
           /\ DecodesDecided(v.disposition.decisions, v)
    BY <1>6, <1>8 DEF Exact
  <1>10. /\ AnchorOf(v) \in Sha
         /\ v.type = "coached_how_experiment" => IsDigest("goal", v.goalDigest)
    BY <1>1, <1>4 DEF IsComparisonActivity, AnchorOf, IsDigest, Digest
  <1>11. Exact(v, {"type", "id", "eventId", "nodeShas", "summary",
                   "disposition"}
                  \cup IF v.type = "sibling_runs" THEN {"parentNodeSha"}
                       ELSE {"anchorNodeSha", "goalDigest"})
    BY <1>4 DEF IsComparisonActivity
  <1>12. DecodesComparisonActivity(v)
    BY <1>1, <1>3, <1>6, <1>9, <1>10, <1>11 DEF DecodesComparisonActivity
  <1> QED
    BY <1>12 DEF v, ids

\* What became of a proposal: the events of its life are distinct.
LEMMA DispositionActivityDecodes ==
    ASSUME NEW p, NEW log, LogOfState(p, log), NEW q \in ProjectProposals(p)
    PROVE  DecodesDisposition(DispositionActivity(q, EventIds(log)),
                              <<<<"RecordCoachingProposal", q>>, 0>>)
  <1> DEFINE ids == EventIds(log)
             v == DispositionActivity(q, ids)
             recorded == <<<<"RecordCoachingProposal", q>>, 0>>
  <1>0. TypeOK /\ TreeInv
    BY DEF LogOfState, TreeInv
  <1>1. IsDispositionActivity(v, q, ids)
    BY DispositionActivityIs
  <1> HIDE DEF v
  <1>2. ASSUME v = [type |-> "pending"]
        PROVE  DecodesDisposition(v, recorded)
    BY <1>2 DEF DecodesDisposition, Exact
  <1>3. ASSUME NEW x \in dispositions, x.proposal = q, v.type = x.status,
               v.decisionId = x.id,
               v.decisionEventId = ids[<<"proposal decision", x.id>>],
               DOMAIN v = {"type", "decisionId", "decisionEventId"}
                          \cup IF x.status = "confirmed"
                               THEN {"childRegistrationEventId", "childNodeSha"}
                               ELSE {},
               x.status = "confirmed" =>
                 /\ v.childRegistrationEventId = ids[<<"coaching child", q>>]
                 /\ v.childNodeSha = x.child
        PROVE  DecodesDisposition(v, recorded)
    <2>0. x \in dispositions /\ x.proposal \in ProjectProposals(p)
      BY <1>3
    <2>1. x.status \in {"confirmed", "rejected"} /\ x.id \in DecisionId
      BY <1>0 DEF TypeOK, Disposition
    <2>2. v.decisionEventId = DispositionEventId(x)
      <3>1. ASSUME NEW key, key = <<"proposal decision", x.id>>
            PROVE  ids[key] = DispositionEventId(x)
        BY <2>0, <3>1, DispositionIsFound
      <3> HIDE DEF ids
      <3> QED
        BY <1>3, <3>1
    <2>3. x.status = "confirmed" =>
            v.childRegistrationEventId = ChildEventId(x)
      <3> SUFFICES ASSUME x.status = "confirmed"
                   PROVE  v.childRegistrationEventId = ChildEventId(x)
        OBVIOUS
      <3>1. ASSUME NEW key, key = <<"coaching child", x.proposal>>
            PROVE  ids[key] = ChildEventId(x)
        BY <2>0, <3>1, ChildIsFound, ZenonT(30)
      <3>2. <<"coaching child", x.proposal>> = <<"coaching child", q>>
        BY <1>3, Zenon
      <3> HIDE DEF ids
      <3> QED
        BY <1>3, <3>1, <3>2
    <2>4. x.status = "confirmed" => x.child \in Sha
      <3>1. \A n \in nodes : n.sha \in Sha
        BY <1>0 DEF TypeOK, Node
      <3> QED
        BY <1>0, <3>1, ChildOfDisposition
    <2> HIDE DEF ids, recorded
    <2>5. recorded[1][1] = "RecordCoachingProposal" /\ recorded[2] = 0
      BY DEF recorded
    <2>6. /\ v.decisionEventId # recorded
          /\ x.status = "confirmed" =>
               /\ v.childRegistrationEventId # recorded
               /\ v.childRegistrationEventId # v.decisionEventId
      <3>1. /\ DispositionEventId(x)[1][1] # "RecordCoachingProposal"
            /\ DispositionEventId(x)[2] = 0
        BY DEF DispositionEventId
      <3>2. ChildEventId(x)[2] = 1
        BY DEF ChildEventId
      <3> QED
        BY <2>2, <2>3, <2>5, <3>1, <3>2
    <2>7. CASE x.status = "confirmed"
      <3>1. Exact(v, {"type", "decisionId", "decisionEventId",
                      "childRegistrationEventId", "childNodeSha"})
        BY <1>3, <2>7 DEF Exact
      <3> QED
        BY <1>3, <2>1, <2>4, <2>6, <2>7, <3>1 DEF DecodesDisposition
    <2>8. CASE x.status = "rejected"
      <3>1. Exact(v, {"type", "decisionId", "decisionEventId"})
        BY <1>3, <2>8 DEF Exact
      <3> QED
        BY <1>3, <2>1, <2>6, <2>8, <3>1 DEF DecodesDisposition
    <2> QED
      BY <2>1, <2>7, <2>8
  <1>4. DecodesDisposition(v, recorded)
    <2> HIDE DEF ids, recorded
    <2>1. CASE v # [type |-> "pending"]
      <3>1. PICK x \in dispositions :
              /\ x.proposal = q /\ v.type = x.status /\ v.decisionId = x.id
              /\ v.decisionEventId = ids[<<"proposal decision", x.id>>]
              /\ DOMAIN v = {"type", "decisionId", "decisionEventId"}
                            \cup IF x.status = "confirmed"
                                 THEN {"childRegistrationEventId", "childNodeSha"}
                                 ELSE {}
              /\ x.status = "confirmed" =>
                   /\ v.childRegistrationEventId = ids[<<"coaching child", q>>]
                   /\ v.childNodeSha = x.child
        BY <1>1, <2>1 DEF IsDispositionActivity
      <3> QED
        BY <1>3, <3>1
    <2> QED
      BY <1>2, <2>1
  <1> QED
    BY <1>4 DEF v

LEMMA CoachingActivityDecodes ==
    ASSUME NEW p, NEW log, LogOfState(p, log), NEW q \in ProjectProposals(p)
    PROVE  DecodesCoachingActivity(CoachingActivity(q, EventIds(log)))
  <1> DEFINE ids == EventIds(log)
             v == CoachingActivity(q, ids)
             value == ProposalValue(q)
             disposition == DispositionActivity(q, ids)
             recorded == <<<<"RecordCoachingProposal", q>>, 0>>
  <1>0. TypeOK /\ RecordsFit /\ q \in ProposalId /\ proposals[q] # None
    BY DEF LogOfState, TreeInv, ProjectProposals
  <1>1. DecodesProposal(value)
    BY <1>0, ProposalDecodes DEF RecordsFit, Proposed
  <1>2. DecodesDisposition(disposition, recorded)
    BY DispositionActivityDecodes
  <1>3. ids[<<"proposal", q>>] = recorded
    BY ProposalIsFound
  <1> HIDE DEF disposition, value
  <1>4. /\ v.id = q /\ v.eventId = ids[<<"proposal", q>>]
        /\ v.sourceNodeSha = value.sourceNodeSha
        /\ v.sourcePayloadDigest = value.sourcePayloadDigest
        /\ v.sourcePlanDigest = value.sourcePlanDigest
        /\ v.proposedPlanDigest = value.proposedPlanDigest
        /\ v.disposition = disposition
        /\ DOMAIN v = {"id", "eventId", "sourceNodeSha", "sourcePayloadDigest",
                       "sourcePlanDigest", "proposedPlanDigest", "summary",
                       "rationale", "disposition"}
    BY DEF CoachingActivity, value, disposition
  <1> HIDE DEF v, recorded
  <1>5. DecodesCoachingActivity(v)
    BY <1>0, <1>1, <1>2, <1>3, <1>4
       DEF DecodesCoachingActivity, DecodesProposal, DecodesProposed, Exact
  <1> QED
    BY <1>5 DEF v

\* All entries are what their decoders accept.
LEMMA AllRecordsAreReadable ==
    ASSUME NEW p, NEW log, LogOfState(p, log), AlternativesInv
    PROVE  RecordsAreReadable(p, log)
  <1> DEFINE ids == EventIds(log)
  <1>0. TypeOK /\ ResultsMatchRuns /\ RecordsFit
    BY DEF LogOfState, TreeInv
  <1>1. RecordedOnce(log) /\ AllRecorded(p, log)
    BY RecordsAreOnce, RecordsAreAll
  <1>2. \A r \in ProjectRuns(p) :
          DecodesRunShard(RunActivity(r), EvidenceActivities(r),
                          RunReviews(p, r, ids))
    BY <1>0, RunShardDecodes
  <1>3. \A d \in DecisionRows(p) :
          DecodesDecisionActivity(DecisionActivity(d, ids))
    BY <1>0, DecisionActivityDecodes DEF DecisionRows, RecordsFit
  <1>4. \A c \in {x \in comparisons : x.project = p} :
          DecodesComparisonActivity(ComparisonActivity(c, ids))
    BY ComparisonActivityDecodes
  <1>5. \A q \in ProjectProposals(p) :
          DecodesCoachingActivity(CoachingActivity(q, ids))
    BY CoachingActivityDecodes
  <1>6. \A w \in {x \in reviews : x.project = p} :
          DecodesReviewActivity(ReviewActivity(w, ids))
    BY <1>0, ReviewActivityDecodes
  <1> QED
    BY <1>1, <1>2, <1>3, <1>4, <1>5, <1>6, Zenon DEF RecordsAreReadable

-----------------------------------------------------------------------------
(* What the index says an event is about *)

\* The reference of an event decodes and is that of the event.
Refers(e) ==
    DecodesReference(Reference(e)) /\ ReferenceMatches(Reference(e), e)

LEMMA NodeReferenceDecodes ==
    ASSUME NEW s \in Sha
    PROVE  DecodesReference(NodeReference(s))
  <1>1. NodeReference(s) \in [kind : {"node"}, nodeSha : Sha]
    BY DEF NodeReference
  <1> QED
    BY <1>1, Zenon DEF DecodesReference

\* The reference of a Run, of which target is what became of it.
IsRunReference(v, r, target) ==
    /\ v.kind = "run" /\ v.runId = r /\ v.sourceNodeSha = runs[r].source
    /\ v.target = target
    /\ DecodesReference(v)

LEMMA RunReferenceIs ==
    ASSUME NEW r \in RunId, runs[r].source \in Sha, NEW run, run.id = r,
           run.sourceNodeSha = runs[r].source,
           run.status = "completed" => run.resultNodeSha \in Sha
    PROVE  IsRunReference(RunReference(run), r,
             IF run.status = "completed"
             THEN [kind |-> "registered", nodeSha |-> run.resultNodeSha]
             ELSE [kind |-> "pending"])
  <1> DEFINE v == RunReference(run)
             target == IF run.status = "completed"
                       THEN [kind |-> "registered",
                             nodeSha |-> run.resultNodeSha]
                       ELSE [kind |-> "pending"]
  <1>1. /\ DOMAIN v = {"kind", "runId", "sourceNodeSha", "target"}
        /\ v.kind = "run" /\ v.runId = r /\ v.sourceNodeSha = runs[r].source
        /\ v.target = target
    BY DEF RunReference
  <1>2. \/ target = [kind |-> "pending"]
        \/ target \in [kind : {"registered"}, nodeSha : Sha]
    OBVIOUS
  <1> HIDE DEF v, target
  <1>3. DecodesReference(v)
    BY <1>1, <1>2 DEF DecodesReference, Exact
  <1>4. IsRunReference(v, r, target)
    BY <1>1, <1>3 DEF IsRunReference
  <1> QED
    BY <1>4 DEF v, target

\* A Run that is there is referred to as it is by now.
LEMMA RunIsReferred ==
    ASSUME TypeOK, ResultsMatchRuns, NEW r \in RunId, runs[r] # None
    PROVE  IsRunReference(RunReferenceById(r), r,
             IF runs[r].status = "completed"
             THEN [kind |-> "registered", nodeSha |-> runs[r].result]
             ELSE [kind |-> "pending"])
  <1> DEFINE run == RunValue(r)
  <1>1. IsRunValue(run, r)
    BY RunValueIs
  <1>2. runs[r].source \in Sha
    BY DEF TypeOK, Run
  <1>3. runs[r].status = "completed" => runs[r].result \in Sha
    <2>1. \A n \in nodes : n.sha \in Sha
      BY DEF TypeOK, Node
    <2> QED
      BY <2>1 DEF ResultsMatchRuns
  <1>4. RunReferenceById(r) = RunReference(run)
    BY DEF RunReferenceById
  <1> HIDE DEF run
  <1>5. /\ run.id = r /\ run.sourceNodeSha = runs[r].source
        /\ run.status = runs[r].status
        /\ run.status = "completed" => run.resultNodeSha = runs[r].result
    BY <1>1 DEF IsRunValue
  <1>6. IsRunReference(RunReference(run), r,
          IF run.status = "completed"
          THEN [kind |-> "registered", nodeSha |-> run.resultNodeSha]
          ELSE [kind |-> "pending"])
    BY <1>2, <1>3, <1>5, RunReferenceIs
  <1> QED
    BY <1>4, <1>5, <1>6

\* The events of a Node's registration are about the Node.
LEMMA RegistrationRefers ==
    ASSUME NEW e, DecodesEvent(e),
           e.type \in {"RootNodeRegistered", "RunChildNodeRegistered",
                       "CoachingChildNodeRegistered"}
    PROVE  Refers(e)
  <1> DEFINE s == e.node.commitSha
  <1>1. DecodesNode(e.node)
    BY DEF DecodesEvent, DecodesRegistration
  <1>2. s \in Sha
    BY <1>1 DEF DecodesNode
  <1>3. Reference(e) = NodeReference(s)
    BY DEF Reference
  <1>4. ReferenceMatches(NodeReference(s), e)
    BY DEF ReferenceMatches
  <1> QED
    BY <1>2, <1>3, <1>4, NodeReferenceDecodes DEF Refers

\* Those of a Run are about the Run.
LEMMA RunEventRefers ==
    ASSUME TypeOK, ResultsMatchRuns, NEW p, NEW e, DecodesEvent(e),
           RunTold(p, e)
    PROVE  Refers(e)
  <1>1. PICK r \in ProjectRuns(p) :
          \/ IsStartOf(e, r)
          \/ \E k \in checkpoints : k.run = r /\ IsCheckpointOf(e, k)
          \/ \E x \in evidence : x.run = r /\ IsEvidenceOf(e, x)
          \/ /\ runs[r].status = "completed"
             /\ \/ IsCompletionOf(e, r)
                \/ Registers(e, "RunChildNodeRegistered",
                             NodeAt(runs[r].project, runs[r].result))
          \/ IsEndOf(e, r)
    BY DEF RunTold
  <1>2. r \in RunId /\ runs[r] # None
    BY DEF ProjectRuns
  <1>3. runs[r].source \in Sha
    BY <1>2 DEF TypeOK, Run
  <1> DEFINE v == RunReferenceById(r)
             target == IF runs[r].status = "completed"
                       THEN [kind |-> "registered", nodeSha |-> runs[r].result]
                       ELSE [kind |-> "pending"]
  <1>4. IsRunReference(v, r, target)
    BY <1>2, RunIsReferred
  <1>11. /\ v.kind = "run" /\ v.runId = r /\ v.target = target
         /\ DecodesReference(v)
    BY <1>4 DEF IsRunReference
  <1> HIDE DEF v
  <1>5. CASE IsStartOf(e, r)
    <2> DEFINE run == StartedRun(r)
               w == RunReference(run)
    <2>1. /\ run.id = r /\ run.sourceNodeSha = runs[r].source
          /\ run.status = "running"
      BY DEF StartedRun
    <2>2. e.type = "RunStarted" /\ e.run = run
      BY <1>5 DEF IsStartOf
    <2> HIDE DEF run
    <2>3. IsRunReference(w, r, [kind |-> "pending"])
      BY <1>2, <1>3, <2>1, RunReferenceIs
    <2>4. Reference(e) = w
      BY <2>2 DEF Reference
    <2> HIDE DEF w
    <2>5. ReferenceMatches(w, e)
      BY <2>1, <2>2, <2>3 DEF ReferenceMatches, IsRunReference
    <2> QED
      BY <2>3, <2>4, <2>5 DEF Refers, IsRunReference
  <1>6. ASSUME NEW k \in checkpoints, k.run = r, IsCheckpointOf(e, k)
        PROVE  Refers(e)
    <2>1. e.type = "RunCheckpointed" /\ e.checkpoint.runId = r
      BY <1>6 DEF IsCheckpointOf, CheckpointValue
    <2>2. Reference(e) = v
      BY <2>1 DEF Reference, v
    <2>3. ReferenceMatches(v, e)
      BY <1>11, <2>1 DEF ReferenceMatches
    <2> QED
      BY <1>11, <2>2, <2>3 DEF Refers
  <1>7. ASSUME NEW x \in evidence, x.run = r, IsEvidenceOf(e, x)
        PROVE  Refers(e)
    <2>1. e.type = "RunEvidenceAttached" /\ e.evidence.runId = r
      BY <1>7 DEF IsEvidenceOf, EvidenceValue
    <2>2. Reference(e) = v
      BY <2>1 DEF Reference, v
    <2>3. ReferenceMatches(v, e)
      BY <1>11, <2>1 DEF ReferenceMatches
    <2> QED
      BY <1>11, <2>2, <2>3 DEF Refers
  <1>8. ASSUME runs[r].status = "completed", IsCompletionOf(e, r)
        PROVE  Refers(e)
    <2>1. /\ e.type = "RunCompleted" /\ e.result.runId = r
          /\ e.result.resultSha = runs[r].result
      BY <1>8 DEF IsCompletionOf, ResultValue
    <2>2. Reference(e) = v
      BY <2>1 DEF Reference, v
    <2>3. ReferenceMatches(v, e)
      BY <1>11, <1>8, <2>1 DEF ReferenceMatches
    <2> QED
      BY <1>11, <2>2, <2>3 DEF Refers
  <1>9. CASE Registers(e, "RunChildNodeRegistered",
                       NodeAt(runs[r].project, runs[r].result))
    BY <1>9, RegistrationRefers DEF Registers
  <1>10. CASE IsEndOf(e, r)
    <2>1. e.type \in {"RunFailed", "RunCanceled"} /\ e.runId = r
      BY <1>10 DEF IsEndOf
    <2>2. Reference(e) = v
      BY <2>1 DEF Reference, v
    <2>3. ReferenceMatches(v, e)
      BY <1>11, <2>1 DEF ReferenceMatches
    <2> QED
      BY <1>11, <2>2, <2>3 DEF Refers
  <1> QED
    BY <1>1, <1>5, <1>6, <1>7, <1>8, <1>9, <1>10

\* Those of reviews and proposals are about a Node or a Run, or what they were
\* about is of the Project.
LEMMA ReviewEventRefers ==
    ASSUME TypeOK, ResultsMatchRuns, OriginsFit, NEW e, DecodesEvent(e),
           NEW w \in reviews, ReviewFound(w), IsReviewOf(e, w)
    PROVE  Refers(e)
  <1> DEFINE target == e.review.target
             of == w.target.of
             v == Reference(e)
  <1>1. e.type = "CoachReviewRecorded" /\ e.review = ReviewValue(w)
    BY DEF IsReviewOf
  <1>2. w.target.kind \in {"node", "run", "comparison"}
    BY DEF TypeOK, ReviewTarget
  <1>3. v = ReviewReference(target)
    BY <1>1 DEF Reference
  <1>4. /\ w.target.kind = "node" => target = [type |-> "node", nodeSha |-> of]
        /\ w.target.kind = "run" => target = [type |-> "run", runId |-> of]
        /\ w.target.kind = "comparison" =>
             target = [type |-> "comparison", comparisonId |-> of]
    BY <1>1, <1>2 DEF ReviewValue
  <1>5. ReferenceMatches(v, e) <=>
          \/ target.type = "node" /\ v = NodeReference(target.nodeSha)
          \/ target.type = "run" /\ v.kind = "run" /\ v.runId = target.runId
          \/ target.type = "comparison" /\ v.kind \in {"node", "project"}
    <2> HIDE DEF v
    <2> QED
      BY <1>1 DEF ReferenceMatches
  <1> HIDE DEF v, target
  <1>6. CASE w.target.kind = "node"
    <2>1. target.type = "node" /\ target.nodeSha = of /\ of \in Sha
      BY <1>4, <1>6 DEF ReviewFound
    <2>2. v = NodeReference(of)
      BY <1>3, <2>1 DEF ReviewReference
    <2> QED
      BY <1>5, <2>1, <2>2, NodeReferenceDecodes DEF Refers, v
  <1>7. CASE w.target.kind = "run"
    <2>1. target.type = "run" /\ target.runId = of
      BY <1>4, <1>7
    <2>2. of \in RunId /\ runs[of] # None
      BY <1>7 DEF ReviewFound, OriginsFit
    <2>3. v = RunReferenceById(of)
      BY <1>3, <2>1 DEF ReviewReference
    <2>4. v.kind = "run" /\ v.runId = of /\ DecodesReference(v)
      BY <2>2, <2>3, RunIsReferred DEF IsRunReference
    <2> QED
      BY <1>5, <2>1, <2>4 DEF Refers, v
  <1>8. CASE w.target.kind = "comparison"
    <2> DEFINE reviewed == {c \in comparisons : c.id = target.comparisonId}
               c == CHOOSE x \in reviewed : TRUE
    <2>1. target.type = "comparison"
      BY <1>4, <1>8
    <2>2. v = IF reviewed = {} THEN [kind |-> "project"]
              ELSE NodeReference(c.anchor)
      <3> HIDE DEF reviewed
      <3> QED
        BY <1>3, <2>1 DEF ReviewReference, reviewed
    <2>3. reviewed # {} => c.anchor \in Sha
      <3>1. \A x \in reviewed : x.anchor \in Sha
        BY DEF TypeOK, Comparison
      <3> HIDE DEF reviewed
      <3> QED
        BY <3>1
    <2> HIDE DEF reviewed, c
    <2>4. DecodesReference(v)
      <3>1. DecodesReference([kind |-> "project"])
        BY Zenon DEF DecodesReference
      <3> QED
        BY <2>2, <2>3, <3>1, NodeReferenceDecodes
    <2>5. v.kind \in {"node", "project"}
      BY <2>2 DEF NodeReference
    <2> QED
      BY <1>5, <2>1, <2>4, <2>5 DEF Refers, v
  <1> QED
    BY <1>2, <1>6, <1>7, <1>8

\* Those of a decision on a proposal are about the child or the source.
LEMMA DispositionEventRefers ==
    ASSUME TypeOK, NEW e, DecodesEvent(e),
           NEW x \in dispositions, IsDispositionOf(e, x)
    PROVE  Refers(e)
  <1>1. CASE e.type = "CoachingProposalConfirmed"
    <2> DEFINE s == e.decision.childNodeSha
    <2>1. DecodesCoachingDecision(e.decision) /\ e.decision.status = "confirmed"
      BY <1>1 DEF DecodesEvent
    <2>2. s \in Sha
      BY <2>1 DEF DecodesCoachingDecision
    <2>3. Reference(e) = NodeReference(s)
      BY <1>1 DEF Reference
    <2>4. ReferenceMatches(NodeReference(s), e)
      BY <1>1 DEF ReferenceMatches
    <2> QED
      BY <2>2, <2>3, <2>4, NodeReferenceDecodes DEF Refers
  <1>2. CASE e.type = "CoachingProposalRejected"
    <2> DEFINE q == e.decision.proposalId
               v == Reference(e)
    <2>1. q \in ProposalId
      BY <1>2 DEF DecodesEvent, DecodesCoachingDecision
    <2>2. v = IF proposals[q] = None THEN [kind |-> "project"]
              ELSE NodeReference(proposals[q].source)
      BY <1>2 DEF Reference
    <2>3. proposals[q] # None => proposals[q].source \in Sha
      BY <2>1 DEF TypeOK, Proposal
    <2> HIDE DEF v, q
    <2>4. v.kind \in {"node", "project"}
      BY <2>2 DEF NodeReference
    <2>5. ReferenceMatches(v, e)
      BY <1>2, <2>4 DEF ReferenceMatches
    <2>6. DecodesReference(v)
      <3>1. DecodesReference([kind |-> "project"])
        BY Zenon DEF DecodesReference
      <3> QED
        BY <2>2, <2>3, <3>1, NodeReferenceDecodes
    <2> QED
      BY <2>5, <2>6 DEF Refers, v
  <1> QED
    BY <1>1, <1>2 DEF IsDispositionOf

LEMMA CoachingEventRefers ==
    ASSUME TypeOK, ResultsMatchRuns, OriginsFit, RecordsFit, NEW p, NEW e,
           DecodesEvent(e), CoachingTold(p, e)
    PROVE  Refers(e)
  <1>1. ASSUME NEW w \in reviews, IsReviewOf(e, w)
        PROVE  Refers(e)
    BY <1>1, ReviewEventRefers DEF RecordsFit
  <1>2. ASSUME NEW q, IsProposalOf(e, q)
        PROVE  Refers(e)
    <2> DEFINE s == e.proposal.sourceNodeSha
    <2>1. e.type = "CoachingProposalRecorded"
      BY <1>2 DEF IsProposalOf
    <2>2. DecodesProposal(e.proposal)
      BY <2>1 DEF DecodesEvent
    <2>3. s \in Sha
      BY <2>2 DEF DecodesProposal, DecodesProposed
    <2>4. Reference(e) = NodeReference(s)
      BY <2>1 DEF Reference
    <2>5. ReferenceMatches(NodeReference(s), e)
      BY <2>1 DEF ReferenceMatches
    <2> QED
      BY <2>3, <2>4, <2>5, NodeReferenceDecodes DEF Refers
  <1>3. ASSUME NEW x \in dispositions, IsDispositionOf(e, x)
        PROVE  Refers(e)
    BY <1>3, DispositionEventRefers
  <1>4. ASSUME NEW x, IsChildOf(e, x)
        PROVE  Refers(e)
    BY <1>4, RegistrationRefers DEF IsChildOf, Registers
  <1> QED
    BY <1>1, <1>2, <1>3, <1>4, Zenon DEF CoachingTold

\* Those of comparisons and decisions are about the Nodes that were compared.
LEMMA AlternativesEventRefers ==
    ASSUME NEW p, NEW e, DecodesEvent(e), RecordsFit, AlternativesTold(p, e)
    PROVE  Refers(e)
  <1>1. ASSUME NEW c, IsComparedOf(e, c)
        PROVE  Refers(e)
    <2> DEFINE s == AnchorOf(e.comparison)
    <2>1. e.type = "AlternativesCompared"
      BY <1>1 DEF IsComparedOf
    <2>2. DecodesComparison(e.comparison)
      BY <2>1 DEF DecodesEvent
    <2>3. s \in Sha
      BY <2>2 DEF DecodesComparison, AnchorOf
    <2>4. Reference(e) = NodeReference(s)
      BY <2>1 DEF Reference
    <2> HIDE DEF s
    <2>5. ReferenceMatches(NodeReference(s), e)
      BY <2>1 DEF ReferenceMatches, s
    <2> QED
      BY <2>3, <2>4, <2>5, NodeReferenceDecodes DEF Refers
  <1>2. ASSUME NEW d \in decisions, IsDecisionOf(e, d)
        PROVE  Refers(e)
    <2>0. DecodesDecision(e.decision)
      BY <1>2 DEF DecodesEvent, IsDecisionOf
    <2>1. CASE d.kind = "selection"
      <3> DEFINE s == e.decision.selectedNodeSha
      <3>1. e.type = "AlternativeSelected"
        BY <1>2, <2>1 DEF IsDecisionOf
      <3>2. e.decision.type = "selection"
        BY <3>1 DEF DecodesEvent
      <3>3. s \in Sha
        BY <2>0, <3>2 DEF DecodesDecision
      <3>4. Reference(e) = NodeReference(s)
        BY <3>1 DEF Reference
      <3>5. ReferenceMatches(NodeReference(s), e)
        BY <3>1 DEF ReferenceMatches
      <3> QED
        BY <3>3, <3>4, <3>5, NodeReferenceDecodes DEF Refers
    <2>2. CASE d.kind = "rejection"
      <3> DEFINE shas == Listing(d.nodes)
                 s == e.decision.rejectedNodeShas[1]
      <3>1. e.type = "AlternativesRejected" /\ e.decision = DecisionValue(d)
        BY <1>2, <2>2 DEF IsDecisionOf
      <3>2. e.decision.type # "selection"
        BY <2>2, <3>1, DecisionValueIs DEF IsDecisionValue
      <3>3. e.decision.rejectedNodeShas = shas
        BY <2>2, <3>1, DecisionValueIs DEF IsDecisionValue
      <3>4. shas # <<>> /\ Range(shas) \subseteq Sha
        BY <2>0, <3>2, <3>3 DEF DecodesDecision
      <3>5. shas \in Seq(d.nodes)
        BY <1>2, ListingListsOnce DEF IsListingOf, RecordsFit
      <3> HIDE DEF shas
      <3>6. s \in Sha
        <4>1. 1 \in DOMAIN shas
          BY <3>4, <3>5
        <4> QED
          BY <3>3, <3>4, <4>1 DEF Range
      <3>7. Reference(e) = NodeReference(s)
        BY <3>1 DEF Reference
      <3>8. ReferenceMatches(NodeReference(s), e)
        BY <3>1 DEF ReferenceMatches
      <3> QED
        BY <3>6, <3>7, <3>8, NodeReferenceDecodes DEF Refers
    <2> QED
      BY <1>2, <2>1, <2>2 DEF IsDecisionOf
  <1> QED
    BY <1>1, <1>2 DEF AlternativesTold

\* Every event of the log is what its entry says.
LEMMA EventRefers ==
    ASSUME NEW p, NEW log, LogOfState(p, log), OriginsFit, NEW n \in DOMAIN log
    PROVE  Refers(log[n]) /\ log[n].meta.actor \in {User, Coach, Plugin}
  <1> DEFINE e == log[n]
  <1>0. TypeOK /\ ResultsMatchRuns /\ RecordsFit
    BY DEF LogOfState, TreeInv
  <1>1. DecodesEvent(e)
    BY DEF LogOfState, IsLogOf, Readable, DecodesStored
  <1>2. Told(p, e)
    BY LogIsTold DEF LogOfState
  <1> HIDE DEF e
  <1>3. Refers(e)
    <2>1. CASE IsCreationOf(e, p)
      <3> DEFINE v == [kind |-> "project"]
      <3>1. Reference(e) = v
        BY <2>1 DEF Reference, IsCreationOf
      <3>2. ReferenceMatches(v, e)
        BY <2>1 DEF ReferenceMatches, IsCreationOf
      <3>3. DecodesReference(v)
        BY Zenon DEF DecodesReference
      <3> QED
        BY <3>1, <3>2, <3>3 DEF Refers
    <2>2. CASE Registers(e, "RootNodeRegistered", NodeAt(p, rootSha[p]))
      BY <1>1, <2>2, RegistrationRefers DEF Registers
    <2>3. CASE RunTold(p, e)
      BY <1>0, <1>1, <2>3, RunEventRefers
    <2>4. CASE CoachingTold(p, e)
      BY <1>0, <1>1, <2>4, CoachingEventRefers
    <2>5. CASE AlternativesTold(p, e)
      BY <1>0, <1>1, <2>5, AlternativesEventRefers
    <2> QED
      BY <1>2, <2>1, <2>2, <2>3, <2>4, <2>5 DEF Told
  <1> QED
    BY <1>2, <1>3 DEF Told, e

-----------------------------------------------------------------------------
(* The event index *)

\* What is stored of the events of a log.
IsStored(p, log, stored) ==
    /\ Len(log) \in Nat \ {0} /\ DOMAIN stored = 1..Len(log)
    /\ Len(stored) = Len(log) /\ DOMAIN log = 1..Len(log)
    /\ stored = [n \in 1..Len(log) |-> stored[n]]
    /\ \A n \in 1..Len(log) :
         /\ stored[n].projectId = p /\ stored[n].sequence = n
         /\ stored[n].event = log[n]
    /\ \A i, j \in 1..Len(log) : stored[i].eventId = stored[j].eventId => i = j

\* So it is with the stored log.
LEMMA LogIsStored ==
    ASSUME NEW p, NEW log, IsLogOf(p, log), NEW stored,
           stored = SubSeq([n \in DOMAIN log |-> StoredEvent(p, log, n)],
                           1, Len(log))
    PROVE  IsStored(p, log, stored)
  <1> DEFINE f == [n \in DOMAIN log |-> StoredEvent(p, log, n)]
  <1>1. Len(log) \in Nat \ {0} /\ DOMAIN log = 1..Len(log)
    BY DEF IsLogOf
  <1>2. stored = f
    BY <1>1, SubSeqFull
  <1>3. /\ DOMAIN stored = 1..Len(log)
        /\ stored = [n \in 1..Len(log) |-> stored[n]]
        /\ \A n \in DOMAIN log : stored[n] = StoredEvent(p, log, n)
    BY <1>1, <1>2
  <1>4. Len(stored) = Len(log)
    <2> DEFINE E == {StoredEvent(p, log, n) : n \in DOMAIN log}
    <2>1. \A n \in 1..Len(log) : stored[n] \in E
      BY <1>1, <1>3
    <2> HIDE DEF E, f
    <2>2. stored \in [1..Len(log) -> E]
      BY <1>3, <2>1
    <2> QED
      BY <1>1, <2>2
  <1> HIDE DEF f
  <1>5. BatchesValid(p, stored)
    BY <1>1, <1>3, BatchesAreValid
  <1>6. ASSUME NEW n \in 1..Len(log)
        PROVE  /\ stored[n].projectId = p /\ stored[n].sequence = n
               /\ stored[n].event = log[n]
    <2>1. PICK b, l, key, actor : BatchAt(log, n, b, l, key, actor)
      BY <1>1 DEF IsLogOf
    <2>2. StoredAt(stored[n], p, log, n, b, l, key, actor)
      BY <1>1, <1>3, <2>1, EventIsStored
    <2> QED
      BY <2>2 DEF StoredAt
  <1>7. \A i, j \in 1..Len(log) : stored[i].eventId = stored[j].eventId => i = j
    BY <1>3, <1>5 DEF BatchesValid
  <1> QED
    BY <1>1, <1>3, <1>4, <1>6, <1>7 DEF IsStored

\* The entry of an event decodes and is that of the stored event.
LEMMA EntryDecodes ==
    ASSUME NEW p, NEW log, LogOfState(p, log), OriginsFit,
           NEW stored, IsStored(p, log, stored), NEW n \in 1..Len(log)
    PROVE  LET entry == EventEntry(stored[n]) IN
           /\ DecodesEntry(entry) /\ EventMatches(p, entry, stored[n])
           /\ entry.sequence = n /\ entry.storedEventId = stored[n].eventId
           /\ entry.domainEventId = log[n].meta.eventId
  <1> DEFINE entry == EventEntry(stored[n])
             e == log[n]
  <1>1. stored[n].projectId = p /\ stored[n].sequence = n /\ stored[n].event = e
    BY DEF IsStored
  <1>2. Refers(e) /\ e.meta.actor \in {User, Coach, Plugin}
    BY EventRefers DEF IsStored
  <1> HIDE DEF e
  <1>3. /\ DOMAIN entry = {"sequence", "storedEventId", "domainEventId",
                           "eventType", "actor", "reference"}
        /\ entry.sequence = n /\ entry.storedEventId = stored[n].eventId
        /\ entry.domainEventId = e.meta.eventId /\ entry.eventType = e.type
        /\ entry.actor = ActorShown(e.meta.actor)
        /\ entry.reference = Reference(e)
    BY <1>1 DEF EventEntry
  <1> HIDE DEF entry
  <1>4. Exact(ActorShown(e.meta.actor), {"id", "label"})
    BY <1>2 DEF ActorShown, Exact, User, Coach, Plugin
  <1>5. n \in Nat /\ n > 0
    BY DEF IsStored
  <1>6. DecodesEntry(entry)
    BY <1>2, <1>3, <1>4, <1>5 DEF DecodesEntry, Exact, Refers
  <1>7. EventMatches(p, entry, stored[n])
    BY <1>1, <1>2, <1>3 DEF EventMatches, Refers
  <1> QED
    BY <1>3, <1>6, <1>7 DEF entry, e

\* The entries of the events that are stored.
AreEntries(entries, stored, log) ==
    /\ entries = [n \in 1..Len(log) |-> entries[n]]
    /\ \A n \in 1..Len(log) : entries[n] = EventEntry(stored[n])

\* Shard number i of the index: the events of its page, and what is known of it.
IsShard(mine, d, stored, log, i) ==
    LET N == Len(log)
        from == i * EVENT_INDEX_SHARD_SIZE
        to == PageEnd(N, i, EVENT_INDEX_SHARD_SIZE)
    IN  /\ Len(mine) = to - from /\ DOMAIN mine = 1..(to - from)
        /\ \A k \in 1..(to - from) : /\ from + k \in 1..N
                                     /\ mine[k] = EventEntry(stored[from + k])
        /\ d.index = i /\ d.count = to - from
        /\ d.sequenceStart = from + 1 /\ d.sequenceEnd = to
        /\ d.lastEvent = log[to].meta.eventId

\* A page of a list of known length.
LEMMA PageOfLength ==
    ASSUME NEW E, NEW s \in Seq(E), NEW N \in Nat \ {0}, Len(s) = N,
           NEW size \in Nat \ {0}, NEW i \in 0..(Pages(N, size) - 1),
           NEW part, part = PageOf(s, i, size)
    PROVE  /\ IsPart(part, s, i * size, PageEnd(N, i, size))
           /\ part \in Seq(E) /\ Len(part) = PageEnd(N, i, size) - i * size
  BY PageIsPart

\* So it is with each shard and its descriptor.
LEMMA ShardIs ==
    ASSUME NEW p, NEW log, NEW stored, IsStored(p, log, stored),
           NEW entries, AreEntries(entries, stored, log),
           NEW i \in 0..(Pages(Len(log), EVENT_INDEX_SHARD_SIZE) - 1)
    PROVE  IsShard(PageOf(entries, i, EVENT_INDEX_SHARD_SIZE),
                   ShardDescriptor(entries, i), stored, log, i)
  <1> DEFINE N == Len(log)
             size == EVENT_INDEX_SHARD_SIZE
             from == i * size
             to == PageEnd(N, i, size)
             mine == PageOf(entries, i, size)
             d == ShardDescriptor(entries, i)
             E == {entries[n] : n \in 1..N}
  <1>1. N \in Nat \ {0} /\ size \in Nat \ {0} /\ DOMAIN stored = 1..N
    BY EventBoundsArePositive DEF IsStored
  <1>2. entries \in Seq(E) /\ Len(entries) = N
    <2>1. entries = [n \in 1..N |-> entries[n]]
      BY DEF AreEntries
    <2> QED
      BY <1>1, <2>1, ListIsSequence
  <1> HIDE DEF E
  <1>3. /\ IsPart(mine, entries, from, to) /\ mine \in Seq(E)
        /\ Len(mine) = to - from
    <2>1. mine = PageOf(entries, i, size) /\ i \in 0..(Pages(N, size) - 1)
      OBVIOUS
    <2> HIDE DEF mine, N, size
    <2>2. /\ IsPart(mine, entries, i * size, PageEnd(N, i, size))
          /\ mine \in Seq(E) /\ Len(mine) = PageEnd(N, i, size) - i * size
      BY <1>1, <1>2, <2>1, PageOfLength
    <2> QED
      BY <2>2
  <1> HIDE DEF N, size
  <1>4. /\ from \in Nat /\ to \in 1..N /\ from < to
        /\ to - from \in 1..size
    BY <1>1, PageBounds DEF N, size
  <1> HIDE DEF from, to, mine
  <1>5. DOMAIN mine = 1..(to - from)
        /\ \A k \in 1..(to - from) : /\ from + k \in 1..N
                                     /\ mine[k] = EventEntry(stored[from + k])
    <2>1. \A k \in 1..(to - from) : from + k \in 1..N
      BY <1>1, <1>4
    <2> QED
      BY <1>1, <1>3, <2>1 DEF IsPart, AreEntries, N
  <1>6. Head(mine) = EventEntry(stored[from + 1])
    <2>1. 1 \in 1..(to - from)
      BY <1>4
    <2>2. mine # <<>> /\ Head(mine) = mine[1]
      BY <1>3, <1>4
    <2> QED
      BY <1>5, <2>1, <2>2
  <1>7. Last(mine) = EventEntry(stored[to])
    <2>1. to - from \in 1..(to - from) /\ from + (to - from) = to
      BY <1>1, <1>4
    <2>2. Last(mine) = mine[to - from]
      BY <1>3 DEF Last
    <2>3. mine[to - from] = EventEntry(stored[from + (to - from)])
      BY <1>5, <2>1
    <2> QED
      BY <2>1, <2>2, <2>3
  <1>8. \A n \in 1..N : /\ EventEntry(stored[n]).sequence = n
                        /\ EventEntry(stored[n]).domainEventId
                             = log[n].meta.eventId
    BY DEF IsStored, EventEntry, N
  <1>9. /\ d.index = i /\ d.count = Len(mine)
        /\ d.sequenceStart = Head(mine).sequence
        /\ d.sequenceEnd = Last(mine).sequence
        /\ d.lastEvent = Last(mine).domainEventId
    BY DEF ShardDescriptor, mine, size
  <1> HIDE DEF d
  <1>10. from + 1 \in 1..N
    BY <1>1, <1>4
  <1>11. /\ d.index = i /\ d.count = to - from
         /\ d.sequenceStart = from + 1 /\ d.sequenceEnd = to
         /\ d.lastEvent = log[to].meta.eventId
    BY <1>3, <1>4, <1>6, <1>7, <1>8, <1>9, <1>10
  <1>12. IsShard(mine, d, stored, log, i)
    BY <1>3, <1>5, <1>11, Zenon DEF IsShard, from, to, N, size
  <1> QED
    BY <1>12 DEF mine, d, size

\* The number of shards of the index, and their bounds.
LEMMA ShardBounds ==
    ASSUME NEW p, NEW log, NEW stored, IsStored(p, log, stored),
           NEW N, N = Len(log), NEW size, size = EVENT_INDEX_SHARD_SIZE,
           NEW P, P = Pages(N, size)
    PROVE  /\ N \in Nat \ {0} /\ size \in Nat \ {0} /\ P \in Nat \ {0}
           /\ \A k \in 1..P :
                /\ k - 1 \in 0..(P - 1) /\ (k - 1) * size \in Nat
                /\ PageEnd(N, k - 1, size) \in 1..N
                /\ PageEnd(N, k - 1, size) - (k - 1) * size \in 1..size
                /\ k # 1 => PageEnd(N, k - 1 - 1, size) = (k - 1) * size
           /\ PageEnd(N, P - 1, size) = N
  <1>1. N \in Nat \ {0} /\ size \in Nat \ {0}
    BY EventBoundsArePositive DEF IsStored
  <1>2. /\ P \in Nat \ {0}
        /\ \A i \in 0..(P - 1) :
             /\ i * size \in Nat /\ PageEnd(N, i, size) \in 1..N
             /\ PageEnd(N, i, size) - i * size \in 1..size
             /\ ~ (i < P - 1) => PageEnd(N, i, size) = N
             /\ i # 0 => PageEnd(N, i - 1, size) = i * size
    BY <1>1, PageBounds
  <1>3. \A k \in 1..P : k - 1 \in 0..(P - 1) /\ (k # 1 => k - 1 # 0)
    BY <1>2
  <1>4. P - 1 \in 0..(P - 1) /\ ~ (P - 1 < P - 1)
    BY <1>2
  <1>5. PageEnd(N, P - 1, size) = N
    BY <1>2, <1>4
  <1> QED
    BY <1>1, <1>2, <1>3, <1>5

\* The descriptors of the shards are those of a manifest that readers take.
LEMMA IndexManifestDecodes ==
    ASSUME NEW p, NEW log, NEW stored, IsStored(p, log, stored),
           NEW entries, AreEntries(entries, stored, log),
           NEW P, P = Pages(Len(log), EVENT_INDEX_SHARD_SIZE),
           NEW ds, ds = [k \in 1..P |-> ShardDescriptor(entries, k - 1)]
    PROVE  EventManifestDecodes(ds, Checkpoint(stored))
  <1> DEFINE N == Len(log)
             size == EVENT_INDEX_SHARD_SIZE
             s == [k \in DOMAIN ds |-> ds[k].count]
             t == [k \in 0..P |->
                     IF k = 0 THEN 0 ELSE PageEnd(N, k - 1, size)]
             c == Checkpoint(stored)
  <1>1. /\ N \in Nat \ {0} /\ size \in Nat \ {0} /\ P \in Nat \ {0}
        /\ \A k \in 1..P :
             /\ k - 1 \in 0..(P - 1) /\ (k - 1) * size \in Nat
             /\ PageEnd(N, k - 1, size) \in 1..N
             /\ PageEnd(N, k - 1, size) - (k - 1) * size \in 1..size
             /\ k # 1 => PageEnd(N, k - 1 - 1, size) = (k - 1) * size
        /\ PageEnd(N, P - 1, size) = N
    BY ShardBounds, SMT
  <1>2. DOMAIN ds = 1..P /\ Len(ds) = P
    <2>1. ds = [k \in 1..P |-> ds[k]]
      OBVIOUS
    <2> QED
      BY <1>1, <2>1, ListIsSequence
  <1>3. \A k \in 1..P :
          IsShard(PageOf(entries, k - 1, size), ds[k], stored, log, k - 1)
    <2> SUFFICES ASSUME NEW k \in 1..P
                 PROVE IsShard(PageOf(entries, k - 1, size), ds[k], stored,
                               log, k - 1)
      OBVIOUS
    <2>1. ds[k] = ShardDescriptor(entries, k - 1)
      OBVIOUS
    <2>2. k - 1 \in 0..(P - 1)
      BY <1>1
    <2>3. IsShard(PageOf(entries, k - 1, size),
                  ShardDescriptor(entries, k - 1), stored, log, k - 1)
      BY <2>2, ShardIs, Zenon
    <2> QED
      BY <2>1, <2>3, Zenon
  <1>4. \A k \in 1..P :
          /\ ds[k].index = k - 1
          /\ ds[k].count = PageEnd(N, k - 1, size) - (k - 1) * size
          /\ ds[k].sequenceStart = (k - 1) * size + 1
          /\ ds[k].sequenceEnd = PageEnd(N, k - 1, size)
          /\ ds[k].lastEvent = log[PageEnd(N, k - 1, size)].meta.eventId
    BY <1>3, Zenon DEF IsShard
  <1>5. /\ c.eventCount = N /\ c.lastSequence = N
        /\ c.lastDomainEventId = log[N].meta.eventId
    <2>1. N \in 1..N /\ Len(stored) = N
      BY <1>1 DEF IsStored
    <2>2. stored[N].sequence = N /\ stored[N].event = log[N]
      BY <2>1 DEF IsStored
    <2>3. Last(stored) = stored[N]
      BY <2>1 DEF Last
    <2> HIDE DEF N
    <2>4. /\ c.eventCount = Len(stored)
          /\ c.lastSequence = Last(stored).sequence
          /\ c.lastDomainEventId = Last(stored).event.meta.eventId
      BY DEF Checkpoint
    <2> QED
      BY <2>1, <2>2, <2>3, <2>4
  <1> HIDE DEF c, N, size
  <1>6. SumOf(s) = N
    <2>1. s = [k \in 1..P |-> s[k]]
          /\ \A k \in 1..P : s[k] = PageEnd(N, k - 1, size) - (k - 1) * size
      BY <1>2, <1>4
    <2>2. /\ t = [k \in 0..P |-> t[k]] /\ t[0] = 0
          /\ t[P] = PageEnd(N, P - 1, size)
      BY <1>1
    <2>3. \A k \in 1..P : t[k] = t[k - 1] + s[k]
      <3> SUFFICES ASSUME NEW k \in 1..P
                   PROVE  t[k] = t[k - 1] + s[k]
        OBVIOUS
      <3>1. /\ k \in 0..P /\ k # 0 /\ k - 1 \in 0..P
            /\ (k - 1 = 0) = (k = 1)
        BY <1>1
      <3>2. /\ t[k] = PageEnd(N, k - 1, size)
            /\ t[k - 1] = IF k = 1 THEN 0 ELSE PageEnd(N, k - 1 - 1, size)
        BY <3>1
      <3>3. s[k] = PageEnd(N, k - 1, size) - (k - 1) * size
        BY <2>1
      <3> HIDE DEF t, s
      <3>4. /\ (k - 1) * size \in Nat /\ PageEnd(N, k - 1, size) \in 1..N
            /\ k # 1 => PageEnd(N, k - 1 - 1, size) = (k - 1) * size
        BY <1>1
      <3>5. k = 1 => (k - 1) * size = 0
        BY <1>1
      <3> QED
        BY <1>1, <3>2, <3>3, <3>4, <3>5
    <2> HIDE DEF s, t
    <2>4. Len(s) = P
      BY <1>1, <2>1, ListIsSequence
    <2>5. SumOf(s) = t[P]
      <3>1. Grows(t, s, P)
        BY <2>2, <2>3, Zenon DEF Grows
      <3> QED
        BY <3>1, <2>4, <1>1, SumOfGrowth
    <2> QED
      BY <1>1, <2>2, <2>5
  <1>7. Last(ds).sequenceEnd = N /\ Last(ds).lastEvent = log[N].meta.eventId
    <2>1. P \in 1..P /\ Last(ds) = ds[P]
      BY <1>1, <1>2 DEF Last
    <2> QED
      BY <1>1, <1>4, <2>1
  <1>8. \A k \in 1..P :
          /\ ds[k].index = k - 1 /\ ds[k].count \in 1..size
          /\ ds[k].sequenceStart = ds[k].index * size + 1
          /\ ds[k].sequenceEnd = ds[k].sequenceStart + ds[k].count - 1
    <2> SUFFICES ASSUME NEW k \in 1..P
                 PROVE  /\ ds[k].index = k - 1 /\ ds[k].count \in 1..size
                        /\ ds[k].sequenceStart = ds[k].index * size + 1
                        /\ ds[k].sequenceEnd
                             = ds[k].sequenceStart + ds[k].count - 1
      OBVIOUS
    <2> HIDE DEF s, t
    <2> DEFINE a == (k - 1) * size
               b == PageEnd(N, k - 1, size)
    <2>1. a \in Nat /\ b \in 1..N /\ b - a \in 1..size
      BY <1>1
    <2>2. /\ ds[k].index = k - 1 /\ ds[k].count = b - a
          /\ ds[k].sequenceStart = a + 1 /\ ds[k].sequenceEnd = b
      BY <1>4
    <2>3. ds[k].index * size = a
      BY <2>2
    <2> HIDE DEF a, b
    <2>4. /\ ds[k].index = k - 1 /\ ds[k].count \in 1..size
          /\ ds[k].sequenceStart = ds[k].index * size + 1
      BY <2>1, <2>2, <2>3, Zenon
    <2>5. ds[k].sequenceEnd = ds[k].sequenceStart + ds[k].count - 1
      <3>1. a + 1 + (b - a) - 1 = b
        BY <1>1, <2>1
      <3> QED
        BY <2>2, <3>1, Zenon
    <2> QED
      BY <2>4, <2>5
  <1> HIDE DEF s
  <1>9. EventManifestDecodes(ds, c) <=>
          /\ \A k \in DOMAIN ds :
               /\ ds[k].index = k - 1 /\ ds[k].count \in 1..size
               /\ ds[k].sequenceStart = ds[k].index * size + 1
               /\ ds[k].sequenceEnd = ds[k].sequenceStart + ds[k].count - 1
          /\ Len(ds) = Pages(c.eventCount, size)
          /\ SumOf(s) = c.eventCount
          /\ Last(ds).sequenceEnd = c.lastSequence
          /\ Last(ds).lastEvent = c.lastDomainEventId
    BY Zenon DEF EventManifestDecodes, s, size
  <1>10. Len(ds) = Pages(c.eventCount, size)
    BY <1>2, <1>5 DEF N, size
  <1>11. EventManifestDecodes(ds, c)
    BY <1>2, <1>5, <1>6, <1>7, <1>8, <1>9, <1>10, Zenon
  <1> QED
    BY <1>11 DEF c

\* A shard of the index decodes: its entries do, in order, each id once.
LEMMA EventShardIsDecoded ==
    ASSUME NEW p, NEW log, LogOfState(p, log), OriginsFit,
           NEW stored, IsStored(p, log, stored),
           NEW entries, AreEntries(entries, stored, log),
           NEW i \in 0..(Pages(Len(log), EVENT_INDEX_SHARD_SIZE) - 1)
    PROVE  EventShardDecodes(entries, ShardDescriptor(entries, i))
  <1> DEFINE N == Len(log)
             size == EVENT_INDEX_SHARD_SIZE
             from == i * size
             to == PageEnd(N, i, size)
             mine == PageOf(entries, i, size)
             d == ShardDescriptor(entries, i)
  <1>1. N \in Nat \ {0} /\ size \in Nat \ {0} /\ DOMAIN log = 1..N
    BY EventBoundsArePositive DEF IsStored
  <1>2. from \in Nat /\ to - from \in 1..size
    BY <1>1, PageBounds
  <1>3. IsShard(mine, d, stored, log, i)
    BY ShardIs
  <1>4. /\ Len(mine) = to - from /\ DOMAIN mine = 1..(to - from)
        /\ \A k \in 1..(to - from) :
             from + k \in 1..N /\ mine[k] = EventEntry(stored[from + k])
        /\ d.index = i /\ d.sequenceStart = from + 1
    BY <1>3, Zenon DEF IsShard
  <1> HIDE DEF N, size, from, to, mine, d
  <1>5. \A k \in DOMAIN mine :
          /\ from + k \in 1..N /\ from + k \in DOMAIN log
          /\ DecodesEntry(mine[k]) /\ mine[k].sequence = from + k
          /\ mine[k].storedEventId = stored[from + k].eventId
          /\ mine[k].domainEventId = log[from + k].meta.eventId
    <2> SUFFICES ASSUME NEW k \in DOMAIN mine
                 PROVE
          /\ from + k \in 1..N /\ from + k \in DOMAIN log
          /\ DecodesEntry(mine[k]) /\ mine[k].sequence = from + k
          /\ mine[k].storedEventId = stored[from + k].eventId
          /\ mine[k].domainEventId = log[from + k].meta.eventId
      OBVIOUS
    <2> DEFINE n == from + k
    <2>1. n \in 1..N /\ mine[k] = EventEntry(stored[n])
      BY <1>4
    <2> HIDE DEF n
    <2>2. /\ DecodesEntry(EventEntry(stored[n]))
          /\ EventEntry(stored[n]).sequence = n
          /\ EventEntry(stored[n]).storedEventId = stored[n].eventId
          /\ EventEntry(stored[n]).domainEventId = log[n].meta.eventId
      <3>1. n \in 1..Len(log)
        BY <2>1 DEF N
      <3> QED
        BY <3>1, EntryDecodes
    <2>3. n \in DOMAIN log
      BY <1>1, <2>1
    <2> QED
      BY <2>1, <2>2, <2>3 DEF n
  <1>6. \A k \in DOMAIN mine : mine[k].sequence = d.sequenceStart + k - 1
    BY <1>2, <1>4, <1>5
  <1>7. ASSUME NEW j \in DOMAIN mine, NEW k \in DOMAIN mine,
               \/ mine[j].storedEventId = mine[k].storedEventId
               \/ mine[j].domainEventId = mine[k].domainEventId
        PROVE  j = k
    <2>1. /\ from + j \in 1..N /\ from + k \in 1..N
          /\ from + j \in DOMAIN log /\ from + k \in DOMAIN log
      BY <1>5, <1>7
    <2>2. \/ stored[from + j].eventId = stored[from + k].eventId
          \/ log[from + j].meta.eventId = log[from + k].meta.eventId
      BY <1>5, <1>7
    <2>3. IsLogOf(p, log)
      BY DEF LogOfState
    <2>4. from + j = from + k
      <3>1. CASE stored[from + j].eventId = stored[from + k].eventId
        BY <2>1, <3>1 DEF IsStored, N
      <3>2. CASE log[from + j].meta.eventId = log[from + k].meta.eventId
        BY <2>1, <2>3, <3>2, EventIdsDiffer
      <3> QED
        BY <2>2, <3>1, <3>2
    <2>5. j \in Int /\ k \in Int
      BY <1>4
    <2> QED
      BY <1>2, <2>4, <2>5
  <1>8. Len(mine) \in 1..size
    BY <1>2, <1>4
  <1>9. EventShardDecodes(entries, d) <=>
          /\ Len(mine) \in 1..size
          /\ \A k \in DOMAIN mine :
               /\ DecodesEntry(mine[k])
               /\ mine[k].sequence = d.sequenceStart + k - 1
          /\ \A j, k \in DOMAIN mine :
               \/ mine[j].storedEventId = mine[k].storedEventId
               \/ mine[j].domainEventId = mine[k].domainEventId
               => j = k
    <2>1. mine = PageOf(entries, d.index, size)
      BY <1>4 DEF mine
    <2> QED
      BY <2>1, Zenon DEF EventShardDecodes, size
  <1>10. EventShardDecodes(entries, d)
    BY <1>5, <1>6, <1>7, <1>8, <1>9
  <1> QED
    BY <1>10 DEF d

\* The event index of a log can be read, from its shards and by an id.
LEMMA IndexOfLogIsReadable ==
    ASSUME NEW p, NEW log, LogOfState(p, log), OriginsFit,
           NEW stored, IsStored(p, log, stored)
    PROVE  IndexIsReadable(p, stored)
  <1> DEFINE entries == [n \in DOMAIN stored |-> EventEntry(stored[n])]
             P == Pages(Len(stored), EVENT_INDEX_SHARD_SIZE)
             ds == [k \in 1..P |-> ShardDescriptor(entries, k - 1)]
  <1>1. /\ P = Pages(Len(log), EVENT_INDEX_SHARD_SIZE)
        /\ DOMAIN stored = 1..Len(log)
    BY DEF IsStored
  <1>2. /\ AreEntries(entries, stored, log)
        /\ \A n \in DOMAIN stored : entries[n] = EventEntry(stored[n])
    BY <1>1 DEF AreEntries
  <1> HIDE DEF entries, P
  <1>3. EventManifestDecodes(ds, Checkpoint(stored))
    BY <1>1, <1>2, IndexManifestDecodes, Zenon
  <1>4. \A k \in DOMAIN ds : EventShardDecodes(entries, ds[k])
    <2> SUFFICES ASSUME NEW k \in DOMAIN ds
                 PROVE  EventShardDecodes(entries, ds[k])
      OBVIOUS
    <2>1. k \in 1..P /\ ds[k] = ShardDescriptor(entries, k - 1)
      OBVIOUS
    <2>2. P \in Nat \ {0}
      BY <1>1, ShardBounds
    <2>3. k - 1 \in 0..(P - 1)
      BY <2>1, <2>2
    <2>4. EventShardDecodes(entries, ShardDescriptor(entries, k - 1))
      BY <1>1, <1>2, <2>3, EventShardIsDecoded, Zenon
    <2> QED
      BY <2>1, <2>4
  <1>5. \A n \in DOMAIN stored :
          DecodesEntry(entries[n]) /\ EventMatches(p, entries[n], stored[n])
    <2> SUFFICES ASSUME NEW n \in 1..Len(log)
                 PROVE  /\ DecodesEntry(entries[n])
                        /\ EventMatches(p, entries[n], stored[n])
      BY <1>1
    <2>1. /\ DecodesEntry(EventEntry(stored[n]))
          /\ EventMatches(p, EventEntry(stored[n]), stored[n])
      BY EntryDecodes, Zenon
    <2> QED
      BY <1>1, <1>2, <2>1
  <1> HIDE DEF ds
  <1>6. IndexIsReadable(p, stored) <=>
          /\ EventManifestDecodes(ds, Checkpoint(stored))
          /\ \A k \in DOMAIN ds : EventShardDecodes(entries, ds[k])
          /\ \A n \in DOMAIN stored : /\ DecodesEntry(entries[n])
                                      /\ EventMatches(p, entries[n], stored[n])
    BY Zenon DEF IndexIsReadable, ds, entries, P
  <1> QED
    BY <1>3, <1>4, <1>5, <1>6

\* What the invariants say of a state is enough for every read that is confirmed
\* by the log.
LEMMA ActivityIsConfirmed ==
    ASSUME TreeInv, StateIsFinite, RecordsHaveIds, LogInv, ChildrenOfProposals,
           OriginsFit, AlternativesInv
    PROVE  ActivityIsAuthoritative
  <1> SUFFICES ASSUME NEW p \in {q \in Project : rootSha[q] # None}
               PROVE  /\ IndexIsReadable(p, StoredLog(p))
                      /\ RecordsAreReadable(p, LogOf(p))
                      /\ ReadsAreAuthoritative(p, LogOf(p))
    BY Zenon DEF ActivityIsAuthoritative
  <1>1. RecordsFit
    BY DEF LogInv
  <1>2. LogOfState(p, LogOf(p))
    BY <1>1, LogShape DEF LogOfState
  <1>3. StoredLog(p) = SubSeq([n \in DOMAIN LogOf(p) |->
                                 StoredEvent(p, LogOf(p), n)], 1, Len(LogOf(p)))
    BY Zenon DEF StoredLog
  <1>4. IsStored(p, LogOf(p), StoredLog(p))
    BY <1>2, <1>3, LogIsStored DEF LogOfState
  <1>5. IndexIsReadable(p, StoredLog(p))
    BY <1>2, <1>4, IndexOfLogIsReadable
  <1> QED
    BY <1>2, <1>5, AllRecordsAreReadable, AllIsRead

\* Whatever the commands of a Project lead to, everything that its shards show
\* is confirmed by its log: every event is found in the index and by its id, as
\* it was stored, and every Node, Run, review, proposal, comparison and decision
\* is what the event that recorded it says.  No order of the records is assumed.
THEOREM ShownIsConfirmed == Spec => []ActivityIsAuthoritative
  <1>1. TreeInv /\ StateIsFinite /\ RecordsHaveIds /\ LogInv
        /\ ChildrenOfProposals /\ OriginsFit /\ AlternativesInv
        => ActivityIsAuthoritative
    BY ActivityIsConfirmed
  <1> QED
    BY <1>1, TreeInvariant, RecordsStayFinite, IdsAreUnique, LogInvariant,
       ChildrenInvariant, OriginsInvariant, AlternativesInvariant, PTL

\* Whatever the commands of a Project lead to, its log, its graph, every list of
\* activity of its Nodes that the writer and the readers sort alike, and what
\* confirms it can be read again.
THEOREM StatesAreReadable ==
    Spec /\ NodesInOrder /\ RecordsInOrder => []EveryStateIsReadable
  <1>1. LogIsReadable /\ GraphIsReadable /\ ActivityIsReadable
        /\ ActivityIsAuthoritative => EveryStateIsReadable
    BY Zenon DEF EveryStateIsReadable
  <1> QED
    BY <1>1, LogsAreReadable, GraphsAreReadable, ActivityListsAreReadable,
       ShownIsConfirmed, PTL
=============================================================================
