-------------------------- MODULE PageCommitments ---------------------------
(***************************************************************************)
(* The Merkle commitments of the read models: over the Nodes of a graph    *)
(* page, and over the pages of one kind of a Node's activity.  Both build  *)
(* their tree and check a membership proof in the same way.                *)
(*                                                                         *)
(* A digest is modelled as the term it is computed from, so that two       *)
(* digests are equal exactly when their inputs are.                        *)
(***************************************************************************)
EXTENDS Integers, Sequences

LeafDigest(value) == <<value>>
BranchDigest(left, right) == <<left, right>>

HalfUp(n) == (n + 1) \div 2

\* How often a level of n digests is halved until one is left.
Depth(n) ==
    LET depth[m \in 0..n] == IF m <= 1 THEN 0 ELSE depth[HalfUp(m)] + 1
    IN  depth[n]

\* The level above; a last digest without a sibling is paired with itself.
NextLevel(level) ==
    [j \in 1..HalfUp(Len(level)) |->
       BranchDigest(level[2 * j - 1],
                    IF 2 * j <= Len(level) THEN level[2 * j]
                    ELSE level[2 * j - 1])]

\* The levels of the tree, from the leaves up.
Levels(leaves) ==
    LET level[k \in 0..Depth(Len(leaves))] ==
          IF k = 0 THEN leaves ELSE NextLevel(level[k - 1])
    IN  level

RootOf(leaves) == Levels(leaves)[Depth(Len(leaves))][1]

\* The places on every level, counted from 0, of what leaf number `leaf` is
\* part of.
PathOf(leaf, depth) ==
    LET at[k \in 0..depth] == IF k = 0 THEN leaf ELSE at[k - 1] \div 2
    IN  at

\* The siblings along that path, from the leaf up.
ProofOf(leaves, leaf) ==
    [k \in 1..Depth(Len(leaves)) |->
       LET level == Levels(leaves)[k - 1]
           at == PathOf(leaf, Depth(Len(leaves)))[k - 1]
       IN  IF at % 2 = 1
           THEN [side |-> "left", digest |-> level[at]]
           ELSE [side |-> "right",
                 digest |-> level[IF at + 2 <= Len(level) THEN at + 2
                                  ELSE Len(level)]]]

\* What a verifier has after every sibling: the digest it computed, the place
\* of that digest on its level and the width of the level.
Climb(digest, leaf, count, siblings) ==
    LET at[k \in 0..Len(siblings)] ==
          IF k = 0 THEN [digest |-> digest, index |-> leaf, count |-> count]
          ELSE LET below == at[k - 1] IN
               [digest |-> IF below.index % 2 = 1
                           THEN BranchDigest(siblings[k].digest, below.digest)
                           ELSE BranchDigest(below.digest, siblings[k].digest),
                index |-> below.index \div 2,
                count |-> HalfUp(below.count)]
    IN  at

\* The proof has the depth of the tree, names the right sides, duplicates only
\* a digest that has no sibling, and ends in the root.
ProofHolds(digest, leaf, count, siblings, root) ==
    LET at == Climb(digest, leaf, count, siblings) IN
    /\ Len(siblings) = Depth(count)
    /\ \A k \in 1..Len(siblings) :
         LET below == at[k - 1] IN
         /\ siblings[k].side = IF below.index % 2 = 1 THEN "left" ELSE "right"
         /\ below.index % 2 = 0 /\ below.index + 1 >= below.count =>
              siblings[k].digest = below.digest
    /\ at[Len(siblings)].digest = root
=============================================================================
