---------------------------- MODULE RecentlyUsed ----------------------------
(***************************************************************************)
(* The Maps of an API process that are keyed by installation and give up   *)
(* the entry used longest ago when they are full: the cooldowns of         *)
(* GitHubRestTransport, by the order of their keys, and the cache of       *)
(* GitHubAppTokenProvider, by lastUsedOrder.                               *)
(***************************************************************************)
EXTENDS Integers, FiniteSets

CONSTANTS Installation, None

\* A table: the entries, or None, and which of them were used after each one.
NoEntries == [held  |-> [i \in Installation |-> None],
              newer |-> [i \in Installation |-> {}]]

Keys(table) == {i \in Installation : table.held[i] # None}

\* What is left when all others are deleted.
Only(table, K) ==
    [held  |-> [i \in Installation |-> IF i \in K THEN table.held[i] ELSE None],
     newer |-> [i \in Installation |-> IF i \in K THEN table.newer[i] \cap K
                                                  ELSE {}]]

\* The entry of i is set, or used again.
Put(table, i, entry) ==
    [held  |-> [table.held EXCEPT ![i] = entry],
     newer |-> [j \in Installation |->
                  IF j # i /\ table.held[j] # None THEN table.newer[j] \cup {i}
                                                   ELSE {}]]

\* Those of K that remain when the oldest is deleted until there are n.
Newest(table, K, n) == {i \in K : Cardinality(table.newer[i] \cap K) < n}
=============================================================================
