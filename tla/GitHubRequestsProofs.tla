------------------------ MODULE GitHubRequestsProofs ------------------------
(***************************************************************************)
(* Theorems about GitHubRequests: requests of an installation take turns,  *)
(* cooldowns hold, calls are made with good tokens, and the tables of      *)
(* tokens and cooldowns stay within their limits.                          *)
(***************************************************************************)
EXTENDS GitHubRequests, FiniteSetTheorems, TLAPS

-----------------------------------------------------------------------------
(* Tables that give up the entry used longest ago. *)

\* `newer` is an order: among any entries, all others are newer than one.
Ordered(table) ==
    /\ table.newer \in [Installation -> SUBSET Installation]
    /\ \A i \in Installation : i \notin table.newer[i]
    /\ \A S \in SUBSET Keys(table) :
          S # {} => \E x \in S : S \ {x} \subseteq table.newer[x]

\* No table has entries in the beginning.
LEMMA NoEntriesOrdered ==
  Ordered(NoEntries) /\ Keys(NoEntries) = {}
BY DEF Ordered, NoEntries, Keys

\* Deleting entries keeps the others, in their order.
LEMMA OnlyOrdered ==
  ASSUME NEW table, NEW K, Ordered(table)
  PROVE  /\ Ordered(Only(table, K))
         /\ Keys(Only(table, K)) = Keys(table) \cap K
         /\ Only(table, K).held =
              [i \in Installation |-> IF i \in K THEN table.held[i] ELSE None]
<1>1. Only(table, K).held =
        [i \in Installation |-> IF i \in K THEN table.held[i] ELSE None]
  BY DEF Only
<1>2. Keys(Only(table, K)) = Keys(table) \cap K
  BY <1>1 DEF Keys
<1>3. /\ Only(table, K).newer \in [Installation -> SUBSET Installation]
      /\ \A i \in Installation : i \notin Only(table, K).newer[i]
  BY DEF Ordered, Only
<1>4. ASSUME NEW S \in SUBSET Keys(Only(table, K)), S # {}
      PROVE  \E x \in S : S \ {x} \subseteq Only(table, K).newer[x]
  <2>1. S \in SUBSET Keys(table) /\ S \subseteq K /\ S \subseteq Installation
    BY <1>2, <1>4 DEF Keys
  <2>2. PICK x \in S : S \ {x} \subseteq table.newer[x]
    BY <1>4, <2>1 DEF Ordered
  <2>3. Only(table, K).newer[x] = table.newer[x] \cap K
    BY <2>1 DEF Only
  <2> QED
    BY <2>1, <2>2, <2>3
<1> QED
  BY <1>1, <1>2, <1>3, <1>4 DEF Ordered

\* An entry that is set or used becomes the newest.
LEMMA PutOrdered ==
  ASSUME NEW table, NEW i \in Installation, NEW entry, entry # None,
         Ordered(table), DOMAIN table.held = Installation,
         table.held = [j \in Installation |-> table.held[j]]
  PROVE  /\ Ordered(Put(table, i, entry))
         /\ Keys(Put(table, i, entry)) = Keys(table) \cup {i}
         /\ Put(table, i, entry).held = [table.held EXCEPT ![i] = entry]
         /\ Put(table, i, entry).newer[i] = {}
<1> DEFINE put == Put(table, i, entry)
<1>1. put.held = [table.held EXCEPT ![i] = entry]
  BY DEF Put
<1>2. \A j \in Installation :
         put.newer[j] = IF j # i /\ table.held[j] # None
                        THEN table.newer[j] \cup {i} ELSE {}
  BY DEF Put
<1>3. Keys(put) = Keys(table) \cup {i}
  BY <1>1 DEF Keys
<1>4. /\ put.newer \in [Installation -> SUBSET Installation]
      /\ \A j \in Installation : j \notin put.newer[j]
  BY DEF Ordered, Put
<1>5. ASSUME NEW S \in SUBSET Keys(put), S # {}
      PROVE  \E x \in S : S \ {x} \subseteq put.newer[x]
  <2>1. CASE S = {i}
    BY <2>1
  <2>2. CASE S # {i}
    <3>1. S \ {i} \in SUBSET Keys(table) /\ S \ {i} # {}
      BY <1>3, <1>5, <2>2
    <3>2. PICK x \in S \ {i} : (S \ {i}) \ {x} \subseteq table.newer[x]
      BY <3>1 DEF Ordered
    <3>3. x \in Installation /\ x # i /\ table.held[x] # None
      BY <3>1, <3>2 DEF Keys
    <3>4. put.newer[x] = table.newer[x] \cup {i}
      BY <1>2, <3>3
    <3> QED
      BY <3>2, <3>4
  <2> QED
    BY <2>1, <2>2
<1> QED
  BY <1>1, <1>2, <1>3, <1>4, <1>5 DEF Ordered

\* Of more than n entries, n remain at most.
LEMMA NewestBound ==
  ASSUME NEW table, NEW K \in SUBSET Keys(table), NEW n \in Nat,
         Ordered(table)
  PROVE  Cardinality(Newest(table, K, n)) <= n
<1> DEFINE kept == Newest(table, K, n)
<1>1. /\ kept \subseteq K /\ K \subseteq Installation
      /\ \A x \in kept : Cardinality(table.newer[x] \cap K) < n
  BY DEF Newest, Keys
<1>2. IsFiniteSet(kept) /\ IsFiniteSet(K)
  BY <1>1, InstallationsFinite, FS_Subset
<1>3. CASE kept = {}
  BY <1>3, FS_EmptySet
<1>4. CASE kept # {}
  <2>1. PICK x \in kept : kept \ {x} \subseteq table.newer[x]
    BY <1>1, <1>4 DEF Ordered
  <2> DEFINE newer == table.newer[x] \cap K
  <2>2. IsFiniteSet(newer) /\ kept \ {x} \subseteq newer
    BY <1>1, <1>2, <2>1, FS_Subset
  <2>3. Cardinality(kept \ {x}) <= Cardinality(newer)
    BY <2>2, FS_Subset
  <2>4. Cardinality(newer) < n /\ Cardinality(newer) \in Nat
    BY <1>1, <2>2, FS_CardinalityType
  <2>5. /\ Cardinality(kept) \in Nat
        /\ Cardinality(kept \ {x}) = Cardinality(kept) - 1
    BY <1>2, FS_RemoveElement, FS_CardinalityType
  <2> HIDE DEF newer, kept
  <2>6. Cardinality(kept) <= n
    BY <2>3, <2>4, <2>5
  <2> QED
    BY <2>6 DEF kept
<1> QED
  BY <1>3, <1>4

\* No more than n entries all remain.
LEMMA NewestKeepsFew ==
  ASSUME NEW table, NEW K \in SUBSET Installation, NEW n \in Nat,
         Ordered(table), Cardinality(K) <= n
  PROVE  Newest(table, K, n) = K
<1>1. ASSUME NEW x \in K
      PROVE  Cardinality(table.newer[x] \cap K) < n
  <2> DEFINE newer == table.newer[x] \cap K
  <2>1. IsFiniteSet(K) /\ IsFiniteSet(K \ {x})
    BY InstallationsFinite, FS_Subset
  <2>2. newer \subseteq K \ {x}
    BY DEF Ordered
  <2>3. Cardinality(newer) <= Cardinality(K \ {x})
    BY <2>1, <2>2, FS_Subset
  <2>4. /\ Cardinality(K) \in Nat
        /\ Cardinality(K \ {x}) = Cardinality(K) - 1
    BY <2>1, FS_RemoveElement, FS_CardinalityType
  <2>5. Cardinality(newer) \in Nat
    BY <2>1, <2>2, FS_Subset, FS_CardinalityType
  <2> HIDE DEF newer
  <2>6. Cardinality(newer) < n
    BY <2>3, <2>4, <2>5
  <2> QED
    BY <2>6 DEF newer
<1> QED
  BY <1>1 DEF Newest

\* The newest entry remains.
LEMMA NewestKeepsLast ==
  ASSUME NEW table, NEW K, NEW i \in K, NEW n \in Nat \ {0},
         table.newer[i] = {}
  PROVE  i \in Newest(table, K, n)
<1>1. table.newer[i] \cap K = {}
  OBVIOUS
<1>2. Cardinality(table.newer[i] \cap K) = 0
  BY <1>1, FS_EmptySet
<1> QED
  BY <1>2 DEF Newest

-----------------------------------------------------------------------------
(* Types. *)

\* What is kept of a table of tokens are entries of it.
LEMMA PrunedType ==
  ASSUME NEW table, NEW time,
         table.held \in [Installation -> Authority \cup {None}]
  PROVE  /\ Pruned(table, time).held \in [Installation -> Authority \cup {None}]
         /\ \A i \in Installation : Pruned(table, time).held[i] # None =>
               /\ Pruned(table, time).held[i] = table.held[i]
               /\ Usable(table.held[i], time)
<1> DEFINE live == {i \in Keys(table) : Usable(table.held[i], time)}
           K == Newest(table, live, MaxTokens)
<1>1. Pruned(table, time).held =
        [i \in Installation |-> IF i \in K THEN table.held[i] ELSE None]
  BY DEF Pruned, Only
<1>2. K \subseteq live
  BY DEF Newest
<1> HIDE DEF K
<1> QED
  BY <1>1, <1>2

\* The entries after an attempt has begun, and the one it was given.
LEMMA BeginFacts ==
  ASSUME NEW r \in Request, NEW n \in {0, 1}, NEW table, NEW generation \in Nat,
         TypeOK, table.held \in [Installation -> Authority \cup {None}],
         Begin(r, n, table, generation)
  PROVE  LET i == InstallationOf[r] IN
         /\ cache'.held \in [Installation -> Authority \cup {None}]
         /\ \A j \in Installation : cache'.held[j] # None =>
               cache'.held[j] = table.held[j]
         /\ inFlight' \in [Installation -> TokenRequest \cup {None}]
         /\ minted' = minted
         /\ attempt' \in [Request -> {0, 1}]
         /\ deadline' = [deadline EXCEPT ![r] = now + RequestTimeout]
         /\ token' = [token EXCEPT ![r] = token'[r]]
         /\ token'[r] \in Authority \cup {None}
         /\ token'[r] # None => /\ token'[r] = table.held[i]
                                /\ Usable(token'[r], now)
         /\ pc' = [pc EXCEPT ![r] = IF token'[r] = None THEN "authority"
                                                        ELSE "calling"]
<1> DEFINE i == InstallationOf[r]
           kept == Pruned(table, now)
<1>1. i \in Installation
  BY InstallationOfType
<1>2. /\ kept.held \in [Installation -> Authority \cup {None}]
      /\ \A j \in Installation : kept.held[j] # None =>
            kept.held[j] = table.held[j] /\ Usable(table.held[j], now)
  BY PrunedType
<1>3. HeldIn(table, i) = kept.held[i]
  BY DEF HeldIn
<1>4. /\ token' = [token EXCEPT ![r] = kept.held[i]]
      /\ pc' = [pc EXCEPT ![r] = IF kept.held[i] = None THEN "authority"
                                                        ELSE "calling"]
      /\ attempt' = [attempt EXCEPT ![r] = n]
      /\ deadline' = [deadline EXCEPT ![r] = now + RequestTimeout]
      /\ GetAuthority(table, generation, i)
  BY <1>3 DEF Begin
<1>5. token'[r] = kept.held[i]
  BY <1>4 DEF TypeOK
<1>6. /\ cache' = IF kept.held[i] = None THEN kept
                  ELSE Put(kept, i, kept.held[i])
      /\ minted' = minted
      /\ inFlight' = IF kept.held[i] # None \/ inFlight[i] # None THEN inFlight
                     ELSE [inFlight EXCEPT ![i] = [started |-> now,
                                                   generation |-> generation]]
  BY <1>3, <1>4 DEF GetAuthority
<1>7. \A j \in Installation : cache'.held[j] = kept.held[j]
  BY <1>1, <1>2, <1>6 DEF Put
<1>8. cache'.held \in [Installation -> Authority \cup {None}]
  BY <1>1, <1>2, <1>6 DEF Put
<1>9. inFlight' \in [Installation -> TokenRequest \cup {None}]
  BY <1>1, <1>6 DEF TypeOK, TokenRequest
<1>10. attempt' \in [Request -> {0, 1}]
  BY <1>4 DEF TypeOK
<1> HIDE DEF kept
<1> QED
  BY <1>1, <1>2, <1>4, <1>5, <1>6, <1>7, <1>8, <1>9, <1>10

\* The token it was given is the one held; without one, one is being minted.
LEMMA BeginMints ==
  ASSUME NEW r \in Request, NEW n \in {0, 1}, NEW table, NEW generation \in Nat,
         TypeOK, table.held \in [Installation -> Authority \cup {None}],
         Begin(r, n, table, generation)
  PROVE  LET i == InstallationOf[r] IN
         /\ cache'.held[i] = token'[r]
         /\ inFlight' = IF token'[r] # None \/ inFlight[i] # None THEN inFlight
                        ELSE [inFlight EXCEPT
                                ![i] = [started |-> now,
                                        generation |-> generation]]
         /\ attempt' = [attempt EXCEPT ![r] = n]
<1> DEFINE i == InstallationOf[r]
           kept == Pruned(table, now)
<1>1. i \in Installation
  BY InstallationOfType
<1>2. kept.held \in [Installation -> Authority \cup {None}]
  BY PrunedType
<1>3. HeldIn(table, i) = kept.held[i]
  BY DEF HeldIn
<1>4. /\ token' = [token EXCEPT ![r] = kept.held[i]]
      /\ attempt' = [attempt EXCEPT ![r] = n]
      /\ GetAuthority(table, generation, i)
  BY <1>3 DEF Begin
<1>5. token'[r] = kept.held[i]
  BY <1>4 DEF TypeOK
<1>6. /\ cache' = IF kept.held[i] = None THEN kept
                  ELSE Put(kept, i, kept.held[i])
      /\ inFlight' = IF kept.held[i] # None \/ inFlight[i] # None THEN inFlight
                     ELSE [inFlight EXCEPT ![i] = [started |-> now,
                                                   generation |-> generation]]
  BY <1>3, <1>4 DEF GetAuthority
<1> HIDE DEF kept
<1>7. cache'.held[i] = kept.held[i]
  BY <1>1, <1>2, <1>6 DEF Put
<1> QED
  BY <1>4, <1>5, <1>6, <1>7

\* The two histories of cooldowns keep their types.
LEMMA RecordType ==
  ASSUME NEW i \in Installation, NEW seconds \in Cooldowns, TypeOK,
         RecordCooldown(i, seconds)
  PROVE  /\ cooldowns'.held \in [Installation -> Nat \cup {None}]
         /\ quietUntil' \in [Installation -> Nat]
<1>1. now + seconds \in Nat
  BY GateTimes DEF TypeOK
<1> DEFINE table == IF cooldowns.held[i] # None
                         /\ cooldowns.held[i] > now + seconds THEN cooldowns
                    ELSE Put(cooldowns, i, now + seconds)
<1>2. table.held \in [Installation -> Nat \cup {None}]
  BY <1>1 DEF Put, TypeOK
<1>3. cooldowns' = Remembered(table)
  BY DEF RecordCooldown
<1>4. cooldowns'.held \in [Installation -> Nat \cup {None}]
  <2> HIDE DEF table
  <2> QED
    BY <1>2, <1>3 DEF Remembered, Only
<1>5. quietUntil' \in [Installation -> Nat]
  BY <1>1 DEF RecordCooldown, Later, TypeOK
<1> QED
  BY <1>4, <1>5

\* So do the queues when a request leaves.
LEMMA LeaveType ==
  ASSUME NEW r \in Request, TypeOK, Leave(r)
  PROVE  /\ tail' \in [Installation -> Request \cup {None}]
         /\ after' \in [Request -> Request \cup {None}]
         /\ pc' \in [Request -> Phase]
         /\ attempt' \in [Request -> {0, 1}] /\ deadline' \in [Request -> Nat]
         /\ token' \in [Request -> Authority \cup {None}]
         /\ \A q \in Request : pc'[q] = "calling" => token'[q] # None
BY DEF TypeOK, Leave, NextTail, Phase

\* The types are kept by every step.
LEMMA TypeStep ==
  TypeOK /\ [Next]_vars => TypeOK'
<1> SUFFICES ASSUME TypeOK, [Next]_vars PROVE TypeOK'
  OBVIOUS
<1> USE InstallationOfType, GateTimes
<1>1. ASSUME NEW r \in Request, Send(r) PROVE TypeOK'
  BY <1>1 DEF TypeOK, Send, tokenVars, Phase
<1>2. ASSUME NEW r \in Request, Enter(r) PROVE TypeOK'
  <2>1. /\ Begin(r, 0, cache, generations[InstallationOf[r]])
        /\ cache.held \in [Installation -> Authority \cup {None}]
        /\ generations[InstallationOf[r]] \in Nat
    BY <1>2 DEF Enter, TypeOK
  <2>2. /\ cache'.held \in [Installation -> Authority \cup {None}]
        /\ inFlight' \in [Installation -> TokenRequest \cup {None}]
        /\ minted' = minted /\ attempt' \in [Request -> {0, 1}]
        /\ deadline' = [deadline EXCEPT ![r] = now + RequestTimeout]
        /\ token' = [token EXCEPT ![r] = token'[r]]
        /\ token'[r] \in Authority \cup {None}
        /\ pc' = [pc EXCEPT ![r] = IF token'[r] = None THEN "authority"
                                                       ELSE "calling"]
    BY <2>1, BeginFacts
  <2>3. /\ token' \in [Request -> Authority \cup {None}]
        /\ \A q \in Request : pc'[q] = "calling" => token'[q] # None
        /\ pc' \in [Request -> Phase] /\ deadline' \in [Request -> Nat]
    BY <2>2 DEF TypeOK, Phase, Attempting
  <2>4. cooldowns'.held \in [Installation -> Nat \cup {None}]
    BY <1>2 DEF Enter, Only, TypeOK
  <2> QED
    BY <1>2, <2>2, <2>3, <2>4 DEF TypeOK, Enter
<1>3. ASSUME NEW r \in Request, Refuse(r) PROVE TypeOK'
  <2>1. cooldowns'.held \in [Installation -> Nat \cup {None}]
    BY <1>3 DEF Refuse, Only, Put, TypeOK
  <2>2. Leave(r)
    BY <1>3 DEF Refuse
  <2> QED
    BY <1>3, <2>1, <2>2, LeaveType DEF TypeOK, Refuse, tokenVars
<1>4. ASSUME NEW r \in Request, Answered(r) \/ RejectedAgain(r) PROVE TypeOK'
  <2>1. \/ doubted' = doubted
        \/ pc[r] = "calling" /\ doubted' = doubted \cup {token[r].token}
    BY <1>4 DEF Answered, RejectedAgain
  <2>2. doubted' \subseteq Nat
    BY <2>1 DEF TypeOK, Authority
  <2>3. Leave(r) /\ UNCHANGED <<now, tokenVars, cooldowns, quietUntil, rejected>>
    BY <1>4 DEF Answered, RejectedAgain
  <2> QED
    BY <2>2, <2>3, LeaveType DEF TypeOK, tokenVars
<1>5. ASSUME NEW r \in Request, Rejected(r) PROVE TypeOK'
  <2> DEFINE i == InstallationOf[r]
             table == AfterRejection(i, token[r].token)
  <2>1. /\ Begin(r, 1, table, generations'[i])
        /\ generations' = GenerationsAfter(i, token[r].token)
        /\ rejected' = rejected \cup {token[r].token}
        /\ doubted' = doubted \ {token[r].token}
        /\ UNCHANGED <<now, tail, after, cooldowns, quietUntil>>
        /\ pc[r] = "calling"
    BY <1>5 DEF Rejected
  <2>6. rejected' \cup doubted' \subseteq Nat
    BY <2>1 DEF TypeOK, Authority
  <2>2. table.held \in [Installation -> Authority \cup {None}]
    BY DEF AfterRejection, Only, TypeOK
  <2>3. generations' \in [Installation -> Nat] /\ generations'[i] \in Nat
    BY <2>1 DEF GenerationsAfter, TypeOK
  <2> HIDE DEF table
  <2>4. /\ cache'.held \in [Installation -> Authority \cup {None}]
        /\ inFlight' \in [Installation -> TokenRequest \cup {None}]
        /\ minted' = minted /\ attempt' \in [Request -> {0, 1}]
        /\ deadline' = [deadline EXCEPT ![r] = now + RequestTimeout]
        /\ token' = [token EXCEPT ![r] = token'[r]]
        /\ token'[r] \in Authority \cup {None}
        /\ pc' = [pc EXCEPT ![r] = IF token'[r] = None THEN "authority"
                                                       ELSE "calling"]
    BY <2>1, <2>2, <2>3, BeginFacts
  <2>5. /\ token' \in [Request -> Authority \cup {None}]
        /\ \A q \in Request : pc'[q] = "calling" => token'[q] # None
        /\ pc' \in [Request -> Phase] /\ deadline' \in [Request -> Nat]
    BY <2>4 DEF TypeOK, Phase, Attempting
  <2> QED
    BY <2>1, <2>3, <2>4, <2>5, <2>6 DEF TypeOK
<1>6. ASSUME NEW r \in Request, TimesOut(r) PROVE TypeOK'
  BY <1>6, LeaveType, RecordType DEF TypeOK, TimesOut, tokenVars
<1>7. ASSUME NEW r \in Request, NEW c \in Cooldowns,
             Unauthorized(r, c) \/ Failed(r, c)
      PROVE  TypeOK'
  <2>1. /\ RecordCooldown(InstallationOf[r], c) /\ Leave(r)
        /\ UNCHANGED <<now, rejected, doubted, cache, generations, minted>>
        /\ inFlight' \in [Installation -> TokenRequest \cup {None}]
    BY <1>7 DEF Unauthorized, Failed, MintFails, tokenVars, TypeOK
  <2> QED
    BY <2>1, LeaveType, RecordType DEF TypeOK
<1>8. ASSUME NEW i \in Installation, Minted(i) PROVE TypeOK'
  <2>1. NewEntry(i) \in Authority
    BY TokenTimes DEF NewEntry, Authority, TypeOK
  <2>2. /\ inFlight[i] # None /\ minted' = minted + 1
        /\ cache' = IF inFlight[i].generation = generations[i]
                    THEN Pruned(Put(cache, i, NewEntry(i)),
                                inFlight[i].started)
                    ELSE cache
        /\ inFlight' = [inFlight EXCEPT ![i] = None]
        /\ UNCHANGED generations
    BY <1>8 DEF Minted, TokenMinted
  <2> DEFINE table == Put(cache, i, NewEntry(i))
  <2>3. table.held \in [Installation -> Authority \cup {None}]
    BY <2>1 DEF Put, TypeOK
  <2> HIDE DEF table
  <2>4. cache'.held \in [Installation -> Authority \cup {None}]
    BY <2>2, <2>3, PrunedType DEF TypeOK, table
  <2>5. /\ pc' \in [Request -> Phase]
        /\ token' \in [Request -> Authority \cup {None}]
        /\ \A q \in Request : pc'[q] = "calling" => token'[q] # None
    BY <1>8, <2>1, NoneIsNoEntry DEF Minted, TypeOK, Phase, Attempting
  <2> QED
    BY <1>8, <2>2, <2>4, <2>5 DEF TypeOK, Minted
<1>9. ASSUME Tick PROVE TypeOK'
  BY <1>9 DEF TypeOK, Tick, tokenVars
<1>10. CASE UNCHANGED vars
  BY <1>10 DEF TypeOK, vars, tokenVars, gateVars
<1> QED
  BY <1>1, <1>2, <1>3, <1>4, <1>5, <1>6, <1>7, <1>8, <1>9, <1>10 DEF Next

\* The types of tables, queues, attempts and history hold in every state.
THEOREM TypesHold == Spec => []TypeOK
<1>1. Init => TypeOK
  BY DEF Init, TokensInit, NoEntries, TypeOK, Phase
<1> QED
  BY <1>1, TypeStep, PTL DEF Spec

-----------------------------------------------------------------------------
(* Turns. *)

\* The requests of an installation that are not idle are a queue: the tail is
\* its end, nobody has two successors, one at most waits for nobody, and
\* following those that are waited for leads out of every set of requests.
TurnInv ==
    /\ \A i \in Installation : tail[i] # None =>
          pc[tail[i]] # "idle" /\ InstallationOf[tail[i]] = i
    /\ \A r \in Request : after[r] # None =>
          /\ pc[r] = "queued" /\ pc[after[r]] # "idle"
          /\ InstallationOf[after[r]] = InstallationOf[r]
          /\ tail[InstallationOf[r]] # after[r]
    /\ \A q, r \in Request : after[q] # None /\ after[q] = after[r] => q = r
    /\ \A q, r \in Request :
          /\ pc[q] # "idle" /\ pc[r] # "idle"
          /\ InstallationOf[q] = InstallationOf[r]
          /\ after[q] = None /\ after[r] = None
          => q = r
    /\ \A r \in Request : pc[r] # "idle" => tail[InstallationOf[r]] # None
    /\ \A S \in SUBSET Request : S # {} => \E x \in S : after[x] \notin S

\* Who enters the queue is its new end.
LEMMA SendKeepsTurns ==
  ASSUME NEW r \in Request, TypeOK, TurnInv, Send(r)
  PROVE  TurnInv'
<1> DEFINE i == InstallationOf[r]
<1>1. /\ i \in Installation /\ pc[r] = "idle" /\ r # None
      /\ pc' = [pc EXCEPT ![r] = "queued"]
      /\ after' = [after EXCEPT ![r] = tail[i]]
      /\ tail' = [tail EXCEPT ![i] = r]
  BY InstallationOfType, NoneIsNoRequest DEF Send
<1>2. tail[i] # r /\ after[r] = None /\ \A q \in Request : after[q] # r
  BY <1>1 DEF TurnInv, TypeOK
<1>3. /\ \A j \in Installation : tail'[j] # None =>
            pc'[tail'[j]] # "idle" /\ InstallationOf[tail'[j]] = j
      /\ \A q \in Request : pc'[q] # "idle" => tail'[InstallationOf[q]] # None
  BY <1>1, InstallationOfType DEF TurnInv, TypeOK
<1>4. \A q \in Request : after'[q] # None =>
         /\ pc'[q] = "queued" /\ pc'[after'[q]] # "idle"
         /\ InstallationOf[after'[q]] = InstallationOf[q]
         /\ tail'[InstallationOf[q]] # after'[q]
  <2> TAKE q \in Request
  <2> HAVE after'[q] # None
  <2>1. CASE q = r
    BY <1>1, <1>2, <2>1, InstallationOfType DEF TurnInv, TypeOK
  <2>2. CASE q # r
    BY <1>1, <1>2, <2>2, InstallationOfType DEF TurnInv, TypeOK
  <2> QED
    BY <2>1, <2>2
<1>5. \A p, q \in Request : after'[p] # None /\ after'[p] = after'[q] => p = q
  BY <1>1, <1>2, InstallationOfType DEF TurnInv, TypeOK
<1>6. \A p, q \in Request :
         /\ pc'[p] # "idle" /\ pc'[q] # "idle"
         /\ InstallationOf[p] = InstallationOf[q]
         /\ after'[p] = None /\ after'[q] = None
         => p = q
  BY <1>1, <1>2, InstallationOfType DEF TurnInv, TypeOK
<1>7. ASSUME NEW S \in SUBSET Request, S # {}
      PROVE  \E x \in S : after'[x] \notin S
  <2>1. CASE S = {r}
    BY <1>1, <1>2, <2>1 DEF TypeOK
  <2>2. CASE S # {r}
    <3>0. S \ {r} \in SUBSET Request /\ S \ {r} # {}
      BY <1>7, <2>2
    <3>1. PICK x \in S \ {r} : after[x] \notin S \ {r}
      BY <3>0 DEF TurnInv
    <3>2. after'[x] = after[x] /\ after[x] # r
      BY <1>1, <1>2, <3>1 DEF TypeOK
    <3> QED
      BY <3>1, <3>2
  <2> QED
    BY <2>1, <2>2
<1> QED
  BY <1>3, <1>4, <1>5, <1>6, <1>7 DEF TurnInv

\* Who leaves was the first; the next one, if any, is first now.
LEMMA LeaveKeepsTurns ==
  ASSUME NEW r \in Request, TypeOK, TurnInv, Leave(r),
         pc[r] # "idle", after[r] = None
  PROVE  TurnInv'
<1> DEFINE i == InstallationOf[r]
           others == {q \in Request : /\ pc[q] # "idle" /\ q # r
                                      /\ InstallationOf[q] = i}
<1>1. /\ i \in Installation /\ r # None
      /\ pc' = [pc EXCEPT ![r] = "idle"]
      /\ tail' = IF tail[i] = r THEN [tail EXCEPT ![i] = None] ELSE tail
      /\ after' = [q \in Request |-> IF after[q] = r THEN None ELSE after[q]]
  BY InstallationOfType, NoneIsNoRequest DEF Leave, NextTail, Released
<1>2. ASSUME tail[i] = r PROVE others = {}
  <2> SUFFICES ASSUME others # {} PROVE FALSE
    OBVIOUS
  <2>1. PICK x \in others : after[x] \notin others
    <3> HIDE DEF others
    <3> QED
      BY DEF TurnInv, others
  <2>2. CASE after[x] = None
    BY <2>1, <2>2 DEF TurnInv
  <2>3. CASE after[x] # None
    <3>1. /\ after[x] \in Request /\ pc[after[x]] # "idle"
          /\ InstallationOf[after[x]] = i /\ after[x] # r
      BY <1>2, <2>1, <2>3 DEF TurnInv, TypeOK
    <3> QED
      BY <2>1, <3>1
  <2> QED
    BY <2>2, <2>3
<1>3. \A j \in Installation : tail'[j] # None =>
         pc'[tail'[j]] # "idle" /\ InstallationOf[tail'[j]] = j
  BY <1>1 DEF TurnInv, TypeOK
<1>4. \A q \in Request : pc'[q] # "idle" => tail'[InstallationOf[q]] # None
  BY <1>1, <1>2, InstallationOfType DEF TurnInv, TypeOK
<1>5. \A q \in Request : after'[q] # None =>
         /\ pc'[q] = "queued" /\ pc'[after'[q]] # "idle"
         /\ InstallationOf[after'[q]] = InstallationOf[q]
         /\ tail'[InstallationOf[q]] # after'[q]
  BY <1>1, InstallationOfType DEF TurnInv, TypeOK
<1>6. \A p, q \in Request : after'[p] # None /\ after'[p] = after'[q] => p = q
  BY <1>1 DEF TurnInv, TypeOK
<1>7. \A p, q \in Request :
         /\ pc'[p] # "idle" /\ pc'[q] # "idle"
         /\ InstallationOf[p] = InstallationOf[q]
         /\ after'[p] = None /\ after'[q] = None
         => p = q
  BY <1>1 DEF TurnInv, TypeOK
<1>8. ASSUME NEW S \in SUBSET Request, S # {}
      PROVE  \E x \in S : after'[x] \notin S
  <2>1. PICK x \in S : after[x] \notin S
    BY <1>8 DEF TurnInv
  <2>2. after'[x] \in {None, after[x]} /\ None \notin S
    BY <1>1, NoneIsNoRequest
  <2> QED
    BY <2>1, <2>2
<1> QED
  BY <1>3, <1>4, <1>5, <1>6, <1>7, <1>8 DEF TurnInv

\* Attempts begin and go on in the first place.
LEMMA AttemptKeepsTurns ==
  ASSUME TypeOK, TurnInv, tail' = tail, after' = after,
         pc' \in [Request -> Phase],
         \A r \in Request : /\ pc[r] = "idle" <=> pc'[r] = "idle"
                            /\ after[r] # None => pc'[r] = pc[r]
  PROVE  TurnInv'
<1>1. \A i \in Installation : tail[i] # None =>
         pc'[tail[i]] # "idle" /\ InstallationOf[tail[i]] = i
  BY DEF TurnInv, TypeOK
<1>2. \A r \in Request : after[r] # None =>
         pc'[r] = "queued" /\ pc'[after[r]] # "idle"
  BY DEF TurnInv, TypeOK
<1> QED
  BY <1>1, <1>2 DEF TurnInv

\* Turns are kept by every step.
LEMMA TurnStep ==
  TypeOK /\ TurnInv /\ [Next]_vars => TurnInv'
<1> SUFFICES ASSUME TypeOK, TurnInv, [Next]_vars PROVE TurnInv'
  OBVIOUS
<1>0. TypeOK'
  BY TypeStep
<1>a. \A r \in Request : pc[r] \in Attempting => after[r] = None
  BY DEF TurnInv, Attempting
<1>1. ASSUME NEW r \in Request, Send(r) PROVE TurnInv'
  BY <1>1, SendKeepsTurns
<1>2. ASSUME NEW r \in Request, Enter(r) PROVE TurnInv'
  <2>1. /\ tail' = tail /\ after' = after /\ after[r] = None
        /\ pc[r] = "queued"
        /\ \E p \in Attempting : pc' = [pc EXCEPT ![r] = p]
    BY <1>2 DEF Enter, MyTurn, Begin, Attempting
  <2>2. \A q \in Request : /\ pc[q] = "idle" <=> pc'[q] = "idle"
                           /\ after[q] # None => pc'[q] = pc[q]
    BY <2>1 DEF Attempting, TypeOK
  <2> QED
    BY <1>0, <2>1, <2>2, AttemptKeepsTurns DEF TypeOK
<1>3. ASSUME NEW r \in Request, Refuse(r) PROVE TurnInv'
  BY <1>3, LeaveKeepsTurns DEF Refuse, MyTurn
<1>4. ASSUME NEW r \in Request,
             \/ Answered(r) \/ RejectedAgain(r) \/ TimesOut(r)
             \/ \E c \in Cooldowns : Unauthorized(r, c) \/ Failed(r, c)
      PROVE  TurnInv'
  <2>1. Leave(r) /\ pc[r] \in Attempting
    BY <1>4 DEF Answered, RejectedAgain, TimesOut, Unauthorized, Failed, Attempting
  <2> QED
    BY <1>a, <2>1, LeaveKeepsTurns DEF Attempting
<1>5. ASSUME NEW r \in Request, Rejected(r) PROVE TurnInv'
  <2>1. /\ tail' = tail /\ after' = after /\ after[r] = None
        /\ pc[r] = "calling"
        /\ \E p \in Attempting : pc' = [pc EXCEPT ![r] = p]
    BY <1>5, <1>a DEF Rejected, Begin, Attempting
  <2>2. \A q \in Request : /\ pc[q] = "idle" <=> pc'[q] = "idle"
                           /\ after[q] # None => pc'[q] = pc[q]
    BY <2>1 DEF Attempting, TypeOK
  <2> QED
    BY <1>0, <2>1, <2>2, AttemptKeepsTurns DEF TypeOK
<1>6. ASSUME NEW i \in Installation, Minted(i) PROVE TurnInv'
  <2>1. \A q \in Request : /\ pc[q] = "idle" <=> pc'[q] = "idle"
                           /\ after[q] # None => pc'[q] = pc[q]
    BY <1>6, <1>a DEF Minted, Waiting, Attempting
  <2> QED
    BY <1>0, <1>6, <2>1, AttemptKeepsTurns DEF Minted, TypeOK
<1>7. CASE Tick \/ UNCHANGED vars
  BY <1>7 DEF TurnInv, Tick, vars, gateVars
<1> QED
  BY <1>1, <1>2, <1>3, <1>4, <1>5, <1>6, <1>7 DEF Next

LEMMA TurnsHold == Spec => []TurnInv
<1>1. Init => TurnInv
  BY NoneIsNoRequest DEF Init, TurnInv
<1> QED
  BY <1>1, TurnStep, TypesHold, PTL DEF Spec

\* Who makes an attempt waits for nobody.
LEMMA TurnsExclude == TurnInv => OneAtATime
BY DEF TurnInv, OneAtATime, Attempting

\* Two requests of an installation are never attempted at one time, however
\* those before them ended (#withInstallationRequestLock).
THEOREM TurnsAreTaken == Spec => []OneAtATime
BY TurnsHold, TurnsExclude, PTL

-----------------------------------------------------------------------------
(* Cooldowns. *)

\* A cooldown that must hold is in the table, which keeps to its limit.
CooldownInv ==
    /\ Ordered(cooldowns)
    /\ Cardinality(Keys(cooldowns)) <= MaxCooldowns
    /\ \A i \in Quiet :
          cooldowns.held[i] # None /\ cooldowns.held[i] >= quietUntil[i]

\* Deleting what is over deletes none that must hold.
LEMMA ExpiryKeepsCooldowns ==
  ASSUME TypeOK, CooldownInv
  PROVE  LET table == Only(cooldowns, Active(cooldowns)) IN
         /\ Ordered(table) /\ Keys(table) = Active(cooldowns)
         /\ Cardinality(Keys(table)) <= MaxCooldowns
         /\ table.held \in [Installation -> Nat \cup {None}]
         /\ \A i \in Active(cooldowns) : table.held[i] = cooldowns.held[i]
<1> DEFINE table == Only(cooldowns, Active(cooldowns))
<1>1. /\ Ordered(table) /\ Keys(table) = Keys(cooldowns) \cap Active(cooldowns)
      /\ table.held = [i \in Installation |-> IF i \in Active(cooldowns)
                                              THEN cooldowns.held[i] ELSE None]
  BY OnlyOrdered DEF CooldownInv
<1>2. /\ Active(cooldowns) \subseteq Keys(cooldowns)
      /\ Keys(cooldowns) \subseteq Installation
  BY DEF Active, Keys
<1>3. /\ IsFiniteSet(Keys(cooldowns)) /\ IsFiniteSet(Active(cooldowns))
      /\ Cardinality(Active(cooldowns)) <= Cardinality(Keys(cooldowns))
  BY <1>2, InstallationsFinite, FS_Subset
<1>4. /\ Cardinality(Keys(cooldowns)) \in Nat
      /\ Cardinality(Active(cooldowns)) \in Nat
  BY <1>3, FS_CardinalityType
<1>5. Cardinality(Active(cooldowns)) <= MaxCooldowns
  BY <1>3, <1>4, GateTimes DEF CooldownInv
<1>6. Keys(table) = Active(cooldowns)
  BY <1>1, <1>2
<1>7. /\ table.held \in [Installation -> Nat \cup {None}]
      /\ \A i \in Active(cooldowns) : table.held[i] = cooldowns.held[i]
  BY <1>1, <1>2 DEF TypeOK
<1> HIDE DEF table
<1> QED
  BY <1>1, <1>5, <1>6, <1>7 DEF table

\* What must hold is active.
LEMMA QuietIsActive ==
  TypeOK /\ CooldownInv => Quiet \subseteq Active(cooldowns)
<1> SUFFICES ASSUME TypeOK, CooldownInv, NEW i \in Quiet
             PROVE  i \in Active(cooldowns)
  OBVIOUS
<1>1. /\ i \in Installation /\ quietUntil[i] > now
      /\ cooldowns.held[i] # None /\ cooldowns.held[i] >= quietUntil[i]
  BY DEF CooldownInv, Quiet
<1>2. cooldowns.held[i] \in Nat /\ quietUntil[i] \in Nat /\ now \in Nat
  BY <1>1 DEF TypeOK
<1> QED
  BY <1>1, <1>2 DEF Active, Keys

\* A cooldown that is recorded holds, and so do the others if there is room.
LEMMA RecordKeepsCooldowns ==
  ASSUME NEW i \in Installation, NEW seconds \in Cooldowns, TypeOK,
         CooldownInv, RecordCooldown(i, seconds), now' = now
  PROVE  CooldownInv'
<1> DEFINE retryAt == now + seconds
           longer == cooldowns.held[i] # None /\ cooldowns.held[i] > retryAt
           table == IF longer THEN cooldowns ELSE Put(cooldowns, i, retryAt)
           crowded == Cardinality(Active(cooldowns) \cup {i}) > MaxCooldowns
           live == Active(table)
           kept == Newest(table, live, MaxCooldowns)
<1>1. /\ retryAt \in Nat /\ retryAt > now /\ retryAt # None /\ now \in Nat
      /\ MaxCooldowns \in Nat \ {0}
  BY GateTimes, NoneIsNoEntry DEF TypeOK
<1>2. /\ cooldowns' = Only(table, kept)
      /\ quietUntil' = [j \in Installation |->
                          IF j = i THEN Later(quietUntil[i], retryAt)
                          ELSE IF crowded THEN 0 ELSE quietUntil[j]]
  BY DEF RecordCooldown, Remembered
<1> HIDE DEF retryAt
<1>3. /\ Ordered(table)
      /\ table.held \in [Installation -> Nat \cup {None}]
      /\ \A j \in Installation \ {i} : table.held[j] = cooldowns.held[j]
      /\ table.held[i] \in Nat /\ table.held[i] >= retryAt
      /\ i \in Quiet => table.held[i] >= quietUntil[i]
      /\ ~longer => table.newer[i] = {}
  <2>1. CASE longer
    <3>1. cooldowns.held[i] \in Nat
      BY <2>1 DEF TypeOK
    <3> QED
      BY <1>1, <2>1, <3>1 DEF CooldownInv, TypeOK
  <2>2. CASE ~longer
    <3>1. /\ Ordered(table)
          /\ table.held = [cooldowns.held EXCEPT ![i] = retryAt]
          /\ table.newer[i] = {}
      BY <1>1, <2>2, PutOrdered DEF CooldownInv, TypeOK
    <3>2. i \in Quiet => retryAt >= quietUntil[i]
      <4> SUFFICES ASSUME i \in Quiet PROVE retryAt >= quietUntil[i]
        OBVIOUS
      <4>1. cooldowns.held[i] # None /\ cooldowns.held[i] >= quietUntil[i]
        BY DEF CooldownInv
      <4>2. cooldowns.held[i] \in Nat /\ quietUntil[i] \in Nat
        BY <4>1 DEF TypeOK
      <4> QED
        BY <1>1, <2>2, <4>1, <4>2
    <3>3. /\ table.held \in [Installation -> Nat \cup {None}]
          /\ \A j \in Installation \ {i} : table.held[j] = cooldowns.held[j]
          /\ table.held[i] = retryAt
      BY <1>1, <3>1 DEF TypeOK
    <3> QED
      BY <1>1, <2>2, <3>1, <3>2, <3>3
  <2> QED
    BY <2>1, <2>2
<1>4. longer => table = cooldowns
  OBVIOUS
<1> HIDE DEF table, longer
<1>5. /\ live \subseteq Keys(table) /\ live \subseteq Installation
      /\ live \subseteq Active(cooldowns) \cup {i} /\ i \in live
  <2>1. table.held[i] > now /\ table.held[i] # None
    BY <1>1, <1>3, NoneIsNoEntry
  <2> QED
    BY <1>3, <2>1 DEF Active, Keys
<1>6. /\ IsFiniteSet(Active(cooldowns) \cup {i}) /\ IsFiniteSet(live)
      /\ IsFiniteSet(Keys(cooldowns))
  <2>1. /\ Active(cooldowns) \cup {i} \subseteq Installation
        /\ Keys(cooldowns) \subseteq Installation
    BY DEF Active, Keys
  <2> QED
    BY <1>5, <2>1, InstallationsFinite, FS_Subset
<1>7. /\ Cardinality(Active(cooldowns) \cup {i}) \in Nat
      /\ Cardinality(live) \in Nat /\ Cardinality(Keys(cooldowns)) \in Nat
      /\ Cardinality(live) <= Cardinality(Active(cooldowns) \cup {i})
  BY <1>5, <1>6, FS_CardinalityType, FS_Subset
<1>8. ~crowded => kept = live
  <2> SUFFICES ASSUME ~crowded PROVE kept = live
    OBVIOUS
  <2>1. Cardinality(live) <= MaxCooldowns
    BY <1>1, <1>7
  <2> HIDE DEF live
  <2> QED
    BY <1>1, <1>3, <1>5, <2>1, NewestKeepsFew
<1>9. i \in kept
  <2>1. CASE longer
    <3>1. live \subseteq Keys(cooldowns)
      BY <1>4, <1>5, <2>1
    <3>2. Cardinality(live) <= Cardinality(Keys(cooldowns))
      BY <1>6, <3>1, FS_Subset
    <3>3. Cardinality(live) <= MaxCooldowns
      BY <1>1, <1>7, <3>2 DEF CooldownInv
    <3> HIDE DEF live
    <3>4. kept = live
      BY <1>1, <1>3, <1>5, <3>3, NewestKeepsFew
    <3> QED
      BY <1>5, <3>4
  <2>2. CASE ~longer
    <3> HIDE DEF live
    <3> QED
      BY <1>1, <1>3, <1>5, <2>2, NewestKeepsLast
  <2> QED
    BY <2>1, <2>2
<1>10. kept \subseteq live
  BY DEF Newest
<1>11. Ordered(cooldowns') /\ Cardinality(Keys(cooldowns')) <= MaxCooldowns
  <2> HIDE DEF live
  <2>1. Cardinality(kept) <= MaxCooldowns
    BY <1>1, <1>3, <1>5, NewestBound
  <2> HIDE DEF kept
  <2>2. /\ Ordered(Only(table, kept))
        /\ Keys(Only(table, kept)) = Keys(table) \cap kept
    BY <1>3, OnlyOrdered
  <2>3. Keys(table) \cap kept = kept
    BY <1>5, <1>10
  <2> QED
    BY <1>2, <2>1, <2>2, <2>3
<1>12. \A j \in kept : cooldowns'.held[j] = table.held[j]
  <2> HIDE DEF kept, live
  <2> QED
    BY <1>2, <1>5, <1>10 DEF Only
<1>13. ASSUME NEW j \in Installation, quietUntil'[j] > now
       PROVE  cooldowns'.held[j] # None /\ cooldowns'.held[j] >= quietUntil'[j]
  <2>1. CASE j = i
    <3>1. quietUntil'[i] = Later(quietUntil[i], retryAt)
      BY <1>2
    <3>2. /\ quietUntil[i] \in Nat
          /\ quietUntil[i] > retryAt => i \in Quiet
      BY <1>1 DEF TypeOK, Quiet
    <3>3. quietUntil'[i] <= table.held[i]
      BY <1>1, <1>3, <3>1, <3>2 DEF Later
    <3>4. table.held[i] # None
      BY <1>3, NoneIsNoEntry
    <3>5. cooldowns'.held[i] = table.held[i]
      BY <1>9, <1>12
    <3> HIDE DEF kept, live
    <3> QED
      BY <1>1, <1>3, <2>1, <3>1, <3>2, <3>3, <3>4, <3>5 DEF Later
  <2>2. CASE j # i
    <3>1. ~crowded /\ quietUntil'[j] = quietUntil[j]
      <4> HIDE DEF crowded
      <4> QED
        BY <1>1, <1>2, <1>13, <2>2
    <3>2. j \in Quiet
      BY <1>13, <3>1 DEF Quiet
    <3>3. /\ j \in Active(cooldowns) /\ cooldowns.held[j] >= quietUntil[j]
          /\ cooldowns.held[j] # None
      BY <3>2, QuietIsActive DEF CooldownInv
    <3>4. j \in live
      BY <1>3, <2>2, <3>3 DEF Active, Keys
    <3>5. cooldowns'.held[j] = cooldowns.held[j]
      BY <1>3, <1>8, <1>12, <2>2, <3>1, <3>4
    <3> QED
      BY <3>1, <3>3, <3>5
  <2> QED
    BY <2>1, <2>2
<1> QED
  BY <1>11, <1>13 DEF CooldownInv, Quiet

\* Cooldowns are kept by every step.
LEMMA CooldownStep ==
  TypeOK /\ CooldownInv /\ [Next]_vars => CooldownInv'
<1> SUFFICES ASSUME TypeOK, CooldownInv, [Next]_vars PROVE CooldownInv'
  OBVIOUS
<1> DEFINE table == Only(cooldowns, Active(cooldowns))
<1>1. /\ Ordered(table) /\ Keys(table) = Active(cooldowns)
      /\ Cardinality(Keys(table)) <= MaxCooldowns
      /\ table.held \in [Installation -> Nat \cup {None}]
      /\ \A i \in Active(cooldowns) : table.held[i] = cooldowns.held[i]
      /\ Quiet \subseteq Active(cooldowns)
  BY ExpiryKeepsCooldowns, QuietIsActive
<1> HIDE DEF table
<1>2. ASSUME NEW r \in Request, Enter(r) PROVE CooldownInv'
  <2>1. cooldowns' = table /\ now' = now /\ quietUntil' = quietUntil
    BY <1>2 DEF Enter, table
  <2>2. \A i \in Quiet :
           table.held[i] # None /\ table.held[i] >= quietUntil[i]
    BY <1>1 DEF CooldownInv
  <2> QED
    BY <1>1, <2>1, <2>2 DEF CooldownInv, Quiet
<1>3. ASSUME NEW r \in Request, Refuse(r) PROVE CooldownInv'
  <2> DEFINE i == InstallationOf[r]
  <2>1. /\ i \in Active(cooldowns) /\ i \in Installation
        /\ cooldowns' = Put(table, i, cooldowns.held[i])
        /\ now' = now /\ quietUntil' = quietUntil
    BY <1>3, InstallationOfType DEF Refuse, Refused, table
  <2>2. cooldowns.held[i] # None
    BY <2>1 DEF Active, Keys
  <2>3. /\ Ordered(cooldowns') /\ Keys(cooldowns') = Keys(table) \cup {i}
        /\ cooldowns'.held = [table.held EXCEPT ![i] = cooldowns.held[i]]
    BY <1>1, <2>1, <2>2, PutOrdered
  <2>4. Keys(table) \cup {i} = Keys(table)
    BY <1>1, <2>1
  <2>5. \A j \in Quiet :
           cooldowns'.held[j] # None /\ cooldowns'.held[j] >= quietUntil[j]
    BY <1>1, <2>1, <2>3 DEF CooldownInv, Quiet
  <2> QED
    BY <1>1, <2>1, <2>3, <2>4, <2>5 DEF CooldownInv, Quiet
<1>4. ASSUME NEW r \in Request, NEW c \in Cooldowns,
             Unauthorized(r, c) \/ Failed(r, c)
      PROVE  CooldownInv'
  BY <1>4, RecordKeepsCooldowns, InstallationOfType DEF Unauthorized, Failed
<1>5. ASSUME NEW r \in Request, TimesOut(r) PROVE CooldownInv'
  BY <1>5, RecordKeepsCooldowns, InstallationOfType, GateTimes DEF TimesOut
<1>6. CASE Tick
  <2>1. /\ cooldowns' = cooldowns /\ now' = now + 1
        /\ quietUntil' = [i \in Installation |-> IF i \in Quiet
                                                 THEN quietUntil[i] ELSE 0]
    BY <1>6 DEF Tick
  <2>2. ASSUME NEW i \in Installation, quietUntil'[i] > now'
        PROVE  i \in Quiet /\ quietUntil'[i] = quietUntil[i]
    BY <2>1, <2>2 DEF TypeOK, Quiet
  <2> QED
    BY <2>1, <2>2 DEF CooldownInv, Quiet
<1>7. CASE UNCHANGED <<now, cooldowns, quietUntil>>
  BY <1>7 DEF CooldownInv, Quiet
<1>8. ASSUME NEW r \in Request,
             Send(r) \/ Answered(r) \/ Rejected(r) \/ RejectedAgain(r)
      PROVE  UNCHANGED <<now, cooldowns, quietUntil>>
  BY <1>8 DEF Send, Answered, Rejected, RejectedAgain
<1>9. ASSUME NEW i \in Installation, Minted(i)
      PROVE  UNCHANGED <<now, cooldowns, quietUntil>>
  BY <1>9 DEF Minted
<1>10. CASE UNCHANGED vars
  BY <1>7, <1>10 DEF vars, gateVars
<1> QED
  BY <1>2, <1>3, <1>4, <1>5, <1>6, <1>7, <1>8, <1>9, <1>10 DEF Next

LEMMA CooldownInvHolds == Spec => []CooldownInv
<1>1. Init => CooldownInv
  <2> SUFFICES ASSUME Init PROVE CooldownInv
    OBVIOUS
  <2>1. Ordered(cooldowns) /\ Keys(cooldowns) = {}
    BY NoEntriesOrdered DEF Init
  <2>2. Cardinality(Keys(cooldowns)) <= MaxCooldowns
    BY <2>1, FS_EmptySet, GateTimes
  <2>3. Quiet = {}
    BY DEF Init, Quiet
  <2> QED
    BY <2>1, <2>2, <2>3 DEF CooldownInv
<1> QED
  BY <1>1, CooldownStep, TypesHold, PTL DEF Spec

\* In a cooldown that must hold, no request begins its attempts.
LEMMA CooldownsHoldBack ==
  ASSUME TypeOK, CooldownInv, [Next]_vars, NEW r \in Request,
         pc[r] = "queued", pc'[r] \in Attempting
  PROVE  InstallationOf[r] \notin Quiet
<1>1. ASSUME NEW q \in Request, Leave(q) PROVE FALSE
  BY <1>1 DEF Leave, TypeOK, Attempting
<1>2. ASSUME NEW q \in Request,
             \/ Send(q) \/ Refuse(q) \/ Answered(q) \/ TimesOut(q)
             \/ RejectedAgain(q)
             \/ \E c \in Cooldowns : Unauthorized(q, c) \/ Failed(q, c)
      PROVE  FALSE
  <2>1. ~Leave(q)
    BY <1>1
  <2>2. Send(q)
    BY <1>2, <2>1 DEF Refuse, Answered, RejectedAgain, TimesOut, Unauthorized, Failed
  <2> QED
    BY <2>2 DEF Send, TypeOK, Attempting
<1>3. ASSUME NEW q \in Request, Rejected(q) PROVE FALSE
  BY <1>3 DEF Rejected, Begin, TypeOK, Attempting
<1>4. ASSUME NEW i \in Installation, Minted(i) PROVE FALSE
  BY <1>4 DEF Minted, Waiting, TypeOK, Attempting
<1>5. CASE Tick \/ UNCHANGED vars
  BY <1>5 DEF Tick, vars, gateVars, Attempting
<1>6. ASSUME NEW q \in Request, Enter(q)
      PROVE  InstallationOf[r] \notin Quiet
  <2>1. q = r
    BY <1>6 DEF Enter, Begin, TypeOK, Attempting
  <2> QED
    BY <1>6, <2>1, QuietIsActive DEF Enter, Refused
<1> QED
  BY <1>2, <1>3, <1>4, <1>5, <1>6 DEF Next

\* Nothing is sent for an installation in a cooldown for which the table had
\* room, whatever other installations ask for and whoever was refused before.
THEOREM CooldownsAreKept == Spec => CooldownsHold
<1>1. TypeOK /\ CooldownInv /\ [Next]_vars =>
        \A r \in Request : pc[r] = "queued" /\ pc'[r] \in Attempting
                           => InstallationOf[r] \notin Quiet
  BY CooldownsHoldBack
<1> QED
  BY <1>1, TypesHold, CooldownInvHolds, PTL DEF Spec, CooldownsHold

-----------------------------------------------------------------------------
(* Tokens. *)

\* An attempt ends by its deadline, and a call before its token does.
TimeInv ==
    \A r \in Request :
       /\ pc[r] \in Attempting =>
             now <= deadline[r] /\ deadline[r] <= now + RequestTimeout
       /\ pc[r] = "calling" => deadline[r] < token[r].expiresAt

\* An attempt that begins has its whole time, with a token that lasts.
LEMMA BeginKeepsTimes ==
  ASSUME NEW r \in Request, NEW n \in {0, 1}, NEW table, NEW generation \in Nat,
         TypeOK, TimeInv, now' = now,
         table.held \in [Installation -> Authority \cup {None}],
         Begin(r, n, table, generation)
  PROVE  TimeInv'
<1>1. /\ deadline' = [deadline EXCEPT ![r] = now + RequestTimeout]
      /\ token' = [token EXCEPT ![r] = token'[r]]
      /\ token'[r] \in Authority \cup {None}
      /\ token'[r] # None => Usable(token'[r], now)
      /\ pc' = [pc EXCEPT ![r] = IF token'[r] = None THEN "authority"
                                                     ELSE "calling"]
  BY BeginFacts
<1>2. token'[r] # None => token'[r].expiresAt > now + RequestTimeout
  <2> SUFFICES ASSUME token'[r] # None
               PROVE  token'[r].expiresAt > now + RequestTimeout
    OBVIOUS
  <2>1. token'[r].expiresAt \in Nat /\ token'[r].expiresAt - Skew > now
    BY <1>1 DEF Usable, Authority
  <2> QED
    BY <2>1, SkewCoversRequest, GateTimes, TokenTimes DEF TypeOK
<1>3. ASSUME NEW q \in Request, q # r
      PROVE  /\ pc'[q] = pc[q] /\ deadline'[q] = deadline[q]
             /\ token'[q] = token[q]
  BY <1>1, <1>3 DEF TypeOK
<1>4. /\ deadline'[r] = now + RequestTimeout
      /\ now <= now + RequestTimeout
      /\ pc'[r] = "calling" => token'[r] # None
  BY <1>1, GateTimes DEF TypeOK
<1>5. ASSUME NEW q \in Request
      PROVE  /\ pc'[q] \in Attempting =>
                  now <= deadline'[q] /\ deadline'[q] <= now + RequestTimeout
             /\ pc'[q] = "calling" => deadline'[q] < token'[q].expiresAt
  <2>1. CASE q = r
    BY <1>2, <1>4, <2>1, GateTimes DEF TypeOK
  <2>2. CASE q # r
    BY <1>3, <2>2 DEF TimeInv
  <2> QED
    BY <2>1, <2>2
<1> QED
  BY <1>5 DEF TimeInv

\* Times are kept by every step.
LEMMA TimeStep ==
  TypeOK /\ TimeInv /\ [Next]_vars => TimeInv'
<1> SUFFICES ASSUME TypeOK, TimeInv, [Next]_vars PROVE TimeInv'
  OBVIOUS
<1>1. ASSUME NEW r \in Request, Leave(r), now' = now PROVE TimeInv'
  BY <1>1 DEF Leave, TimeInv, TypeOK, Attempting
<1>2. ASSUME NEW r \in Request,
             \/ Refuse(r) \/ Answered(r) \/ RejectedAgain(r) \/ TimesOut(r)
             \/ \E c \in Cooldowns : Unauthorized(r, c) \/ Failed(r, c)
      PROVE  TimeInv'
  BY <1>1, <1>2 DEF Refuse, Answered, RejectedAgain, TimesOut, Unauthorized,
                    Failed
<1>3. ASSUME NEW r \in Request, Send(r) PROVE TimeInv'
  BY <1>3 DEF Send, TimeInv, TypeOK, Attempting
<1>4. ASSUME NEW r \in Request, Enter(r) PROVE TimeInv'
  <2>1. /\ Begin(r, 0, cache, generations[InstallationOf[r]]) /\ now' = now
        /\ cache.held \in [Installation -> Authority \cup {None}]
        /\ generations[InstallationOf[r]] \in Nat
    BY <1>4, InstallationOfType DEF Enter, TypeOK
  <2> QED
    BY <2>1, BeginKeepsTimes
<1>5. ASSUME NEW r \in Request, Rejected(r) PROVE TimeInv'
  <2> DEFINE i == InstallationOf[r]
             table == AfterRejection(i, token[r].token)
  <2>1. /\ Begin(r, 1, table, generations'[i]) /\ now' = now
        /\ generations'[i] \in Nat
    BY <1>5, InstallationOfType DEF Rejected, GenerationsAfter, TypeOK
  <2>2. table.held \in [Installation -> Authority \cup {None}]
    BY DEF AfterRejection, Only, TypeOK
  <2> HIDE DEF table
  <2> QED
    BY <2>1, <2>2, BeginKeepsTimes
<1>6. ASSUME NEW i \in Installation, Minted(i) PROVE TimeInv'
  <2>1. /\ now' = now /\ deadline' = deadline
        /\ \A q \in Request : q \in Waiting(i) =>
              pc'[q] = "calling" /\ token'[q] = NewEntry(i)
        /\ \A q \in Request : q \notin Waiting(i) =>
              pc'[q] = pc[q] /\ token'[q] = token[q]
    BY <1>6 DEF Minted
  <2>2. NewEntry(i).expiresAt = now + Lifetime
    BY DEF NewEntry
  <2>3. ASSUME NEW q \in Waiting(i)
        PROVE  /\ now <= deadline[q] /\ deadline[q] <= now + RequestTimeout
               /\ deadline[q] < NewEntry(i).expiresAt
    <3>1. now <= deadline[q] /\ deadline[q] <= now + RequestTimeout
      BY DEF TimeInv, Waiting, Attempting
    <3>2. deadline[q] \in Nat /\ now \in Nat
      BY DEF TypeOK, Waiting
    <3> QED
      BY <2>2, <3>1, <3>2, SkewCoversRequest, GateTimes, TokenTimes
  <2> QED
    BY <2>1, <2>3 DEF TimeInv
<1>7. CASE Tick
  <2>1. /\ now' = now + 1 /\ UNCHANGED <<pc, deadline, token>>
        /\ \A r \in Request : pc[r] \in Attempting => now < deadline[r]
    BY <1>7 DEF Tick
  <2> QED
    BY <2>1, GateTimes DEF TimeInv, TypeOK
<1>8. CASE UNCHANGED vars
  BY <1>8 DEF TimeInv, vars, gateVars
<1> QED
  BY <1>2, <1>3, <1>4, <1>5, <1>6, <1>7, <1>8 DEF Next

\* The tokens that are held, or used in a call, for an installation.
InUse(i) ==
    {a \in {cache.held[i]} : a # None}
    \cup {token[r] : r \in {q \in Request : /\ pc[q] = "calling"
                                            /\ InstallationOf[q] = i}}

\* They were minted for it and for no other one, and were not rejected.
TokenInv ==
    /\ rejected \subseteq 1..minted
    /\ \A i \in Installation : \A a \in InUse(i) :
          a.installation = i /\ a.token \in (1..minted) \ rejected
    /\ \A i, j \in Installation : \A a \in InUse(i), b \in InUse(j) :
          a.token = b.token => i = j

\* What a beginning attempt uses was held for its installation.
LEMMA BeginUses ==
  ASSUME NEW r \in Request, NEW n \in {0, 1}, NEW table, NEW generation \in Nat,
         TypeOK, Begin(r, n, table, generation),
         table.held \in [Installation -> Authority \cup {None}],
         \A j \in Installation : table.held[j] \in {None, cache.held[j]}
  PROVE  /\ \A j \in Installation : InUse(j)' \subseteq InUse(j)
         /\ \A j \in Installation : \A a \in InUse(j)' :
               \/ a = table.held[j]
               \/ \E q \in Request \ {r} : /\ pc[q] = "calling" /\ a = token[q]
                                           /\ InstallationOf[q] = j
         /\ minted' = minted
<1>1. /\ minted' = minted
      /\ \A j \in Installation : cache'.held[j] # None =>
            cache'.held[j] = table.held[j]
      /\ token' = [token EXCEPT ![r] = token'[r]]
      /\ token'[r] # None => token'[r] = table.held[InstallationOf[r]]
      /\ pc' = [pc EXCEPT ![r] = IF token'[r] = None THEN "authority"
                                                     ELSE "calling"]
  BY BeginFacts
<1>2. ASSUME NEW j \in Installation, NEW a \in InUse(j)'
      PROVE  \/ a = table.held[j] /\ a # None
             \/ \E q \in Request \ {r} : /\ pc[q] = "calling" /\ a = token[q]
                                         /\ InstallationOf[q] = j
  <2>1. CASE a = cache'.held[j] /\ a # None
    BY <1>1, <2>1
  <2>2. CASE ~(a = cache'.held[j] /\ a # None)
    <3>1. PICK q \in Request : /\ pc'[q] = "calling" /\ InstallationOf[q] = j
                               /\ a = token'[q]
      BY <1>2, <2>2 DEF InUse
    <3>2. CASE q = r
      BY <1>1, <3>1, <3>2 DEF TypeOK
    <3>3. CASE q # r
      BY <1>1, <3>1, <3>3 DEF TypeOK
    <3> QED
      BY <3>2, <3>3
  <2> QED
    BY <2>1, <2>2
<1>3. ASSUME NEW j \in Installation, NEW a \in InUse(j)' PROVE a \in InUse(j)
  <2>1. CASE a = table.held[j] /\ a # None
    BY <2>1 DEF InUse
  <2>2. CASE ~(a = table.held[j] /\ a # None)
    BY <1>2, <2>2 DEF InUse
  <2> QED
    BY <2>1, <2>2
<1> QED
  BY <1>1, <1>2, <1>3

\* Tokens are kept by every step.
LEMMA TokenStep ==
  TypeOK /\ OneAtATime /\ TokenInv /\ [Next]_vars => TokenInv'
<1> SUFFICES ASSUME TypeOK, OneAtATime, TokenInv, [Next]_vars PROVE TokenInv'
  OBVIOUS
<1>1. ASSUME UNCHANGED <<minted, rejected>>,
             \A i \in Installation : InUse(i)' \subseteq InUse(i)
      PROVE  TokenInv'
  BY <1>1 DEF TokenInv
<1>2. ASSUME NEW r \in Request, Leave(r), UNCHANGED <<cache, minted, rejected>>
      PROVE  TokenInv'
  <2>1. \A q \in Request : pc'[q] = "calling" =>
           pc[q] = "calling" /\ token'[q] = token[q]
    BY <1>2 DEF Leave, TypeOK
  <2>2. \A i \in Installation : InUse(i)' \subseteq InUse(i)
    BY <1>2, <2>1 DEF InUse
  <2> QED
    BY <1>1, <1>2, <2>2
<1>3. ASSUME NEW r \in Request,
             \/ Refuse(r) \/ Answered(r) \/ RejectedAgain(r) \/ TimesOut(r)
             \/ \E c \in Cooldowns : Unauthorized(r, c) \/ Failed(r, c)
      PROVE  TokenInv'
  BY <1>2, <1>3 DEF Refuse, Answered, RejectedAgain, TimesOut, Unauthorized,
                    Failed, MintFails, tokenVars
<1>4. ASSUME NEW r \in Request, Send(r) PROVE TokenInv'
  <2>1. \A q \in Request : pc'[q] = "calling" => pc[q] = "calling"
    BY <1>4 DEF Send, TypeOK
  <2>2. UNCHANGED <<cache, minted, rejected, token>>
    BY <1>4 DEF Send, tokenVars
  <2>3. \A i \in Installation : InUse(i)' \subseteq InUse(i)
    BY <2>1, <2>2 DEF InUse
  <2> QED
    BY <1>1, <2>2, <2>3
<1>5. ASSUME NEW r \in Request, Enter(r) PROVE TokenInv'
  <2>1. /\ Begin(r, 0, cache, generations[InstallationOf[r]])
        /\ rejected' = rejected
        /\ cache.held \in [Installation -> Authority \cup {None}]
        /\ generations[InstallationOf[r]] \in Nat
    BY <1>5, InstallationOfType DEF Enter, TypeOK
  <2>2. /\ \A j \in Installation : InUse(j)' \subseteq InUse(j)
        /\ minted' = minted
    BY <2>1, BeginUses
  <2> QED
    BY <1>1, <2>1, <2>2
<1>6. ASSUME NEW r \in Request, Rejected(r) PROVE TokenInv'
  <2> DEFINE i == InstallationOf[r]
             bad == token[r].token
             table == AfterRejection(i, bad)
  <2>1. /\ Begin(r, 1, table, generations'[i]) /\ generations'[i] \in Nat
        /\ rejected' = rejected \cup {bad} /\ pc[r] = "calling"
        /\ i \in Installation
    BY <1>6, InstallationOfType DEF Rejected, GenerationsAfter, TypeOK
  <2>2. /\ table.held \in [Installation -> Authority \cup {None}]
        /\ \A j \in Installation : table.held[j] \in {None, cache.held[j]}
        /\ table.held[i] # None => table.held[i].token # bad
    BY <2>1 DEF AfterRejection, StillHeld, Only, TypeOK
  <2>3. token[r] \in InUse(i) /\ bad \in 1..minted
    <3>1. token[r] \in InUse(i)
      BY <2>1 DEF InUse
    <3> QED
      BY <2>1, <3>1 DEF TokenInv
  <2> HIDE DEF table
  <2>4. /\ \A j \in Installation : InUse(j)' \subseteq InUse(j)
        /\ \A j \in Installation : \A a \in InUse(j)' :
              \/ a = table.held[j]
              \/ \E q \in Request \ {r} : /\ pc[q] = "calling" /\ a = token[q]
                                          /\ InstallationOf[q] = j
        /\ minted' = minted
    BY <2>1, <2>2, BeginUses
  <2>5. ASSUME NEW j \in Installation, NEW a \in InUse(j)' PROVE a.token # bad
    <3>1. a \in InUse(j)
      BY <2>4
    <3>2. CASE j # i
      BY <2>1, <2>3, <3>1, <3>2 DEF TokenInv
    <3>3. CASE j = i
      <4>1. \A q \in Request \ {r} :
               ~(pc[q] = "calling" /\ InstallationOf[q] = i)
        BY <2>1 DEF OneAtATime, Attempting
      <4>2. a = table.held[i]
        BY <2>4, <2>5, <3>3, <4>1
      <4>3. a # None
        <5>1. a \in Authority
          BY <2>1, <2>2, <3>1, <3>3, <4>1, <4>2 DEF InUse, TypeOK
        <5> QED
          BY <5>1, NoneIsNoEntry
      <4> QED
        BY <2>2, <4>2, <4>3
    <3> QED
      BY <3>2, <3>3
  <2>6. rejected' \subseteq 1..minted'
    BY <2>1, <2>3, <2>4 DEF TokenInv
  <2>7. \A j \in Installation : \A a \in InUse(j)' :
           a.installation = j /\ a.token \in (1..minted') \ rejected'
    BY <2>1, <2>4, <2>5 DEF TokenInv
  <2>8. \A j, k \in Installation : \A a \in InUse(j)', b \in InUse(k)' :
           a.token = b.token => j = k
    BY <2>4 DEF TokenInv
  <2> QED
    BY <2>6, <2>7, <2>8 DEF TokenInv
<1>7. ASSUME NEW i \in Installation, Minted(i) PROVE TokenInv'
  <2> DEFINE new == NewEntry(i)
             table == Put(cache, i, new)
  <2>1. /\ minted' = minted + 1 /\ rejected' = rejected
        /\ \/ cache' = Pruned(table, inFlight[i].started)
           \/ cache' = cache
        /\ \A q \in Request : pc'[q] = "calling" =>
              \/ token'[q] = new /\ InstallationOf[q] = i
              \/ token'[q] = token[q] /\ pc[q] = "calling"
    BY <1>7 DEF Minted, TokenMinted, Waiting
  <2>2. /\ new \in Authority /\ new.installation = i
        /\ new.token = minted + 1 /\ minted \in Nat
    BY TokenTimes DEF NewEntry, Authority, TypeOK
  <2> HIDE DEF new
  <2>3. /\ table.held \in [Installation -> Authority \cup {None}]
        /\ table.held = [cache.held EXCEPT ![i] = new]
    BY <2>2 DEF Put, TypeOK
  <2> HIDE DEF table
  <2>4. \A j \in Installation : cache'.held[j] # None =>
           \/ cache'.held[j] = cache.held[j]
           \/ cache'.held[j] = new /\ j = i
    BY <2>1, <2>3, PrunedType DEF TypeOK
  <2>5. ASSUME NEW j \in Installation, NEW a \in InUse(j)'
        PROVE  a \in InUse(j) \/ (a = new /\ j = i)
    <3>1. CASE a = cache'.held[j] /\ a # None
      BY <2>4, <3>1 DEF InUse
    <3>2. CASE ~(a = cache'.held[j] /\ a # None)
      <4>1. PICK q \in Request : /\ pc'[q] = "calling" /\ InstallationOf[q] = j
                                 /\ a = token'[q]
        BY <2>5, <3>2 DEF InUse
      <4> QED
        BY <2>1, <4>1 DEF InUse
    <3> QED
      BY <3>1, <3>2
  <2>6. /\ 1..minted \subseteq 1..minted' /\ minted + 1 \in 1..minted'
        /\ minted + 1 \notin 1..minted
    BY <2>1, <2>2
  <2>7. \A j \in Installation : \A a \in InUse(j)' :
           a.installation = j /\ a.token \in (1..minted') \ rejected'
    BY <2>1, <2>2, <2>5, <2>6 DEF TokenInv
  <2>8. ASSUME NEW j \in Installation, NEW k \in Installation,
               NEW a \in InUse(j)', NEW b \in InUse(k)', a.token = b.token
        PROVE  j = k
    <3>1. CASE a \in InUse(j) /\ b \in InUse(k)
      BY <2>8, <3>1 DEF TokenInv
    <3>2. CASE a = new /\ j = i
      BY <2>2, <2>5, <2>6, <2>8, <3>2 DEF TokenInv
    <3>3. CASE b = new /\ k = i
      BY <2>2, <2>5, <2>6, <2>8, <3>3 DEF TokenInv
    <3> QED
      BY <2>5, <3>1, <3>2, <3>3
  <2>9. rejected' \subseteq 1..minted'
    BY <2>1, <2>6 DEF TokenInv
  <2> QED
    BY <2>7, <2>8, <2>9 DEF TokenInv
<1>8. CASE Tick \/ UNCHANGED vars
  <2>1. UNCHANGED <<cache, token, pc, minted, rejected>>
    BY <1>8 DEF Tick, vars, gateVars, tokenVars
  <2>2. \A i \in Installation : InUse(i)' \subseteq InUse(i)
    BY <2>1 DEF InUse
  <2> QED
    BY <1>1, <2>1, <2>2
<1> QED
  BY <1>3, <1>4, <1>5, <1>6, <1>7, <1>8 DEF Next

\* A token is only being minted for a request that waits for it, and is there
\* before that request's time is over; what is held for the installation of a
\* request that is calling is the token it calls with.
FlightInv ==
    /\ \A i \in Installation : inFlight[i] # None =>
          /\ now <= inFlight[i].started + MintTimeout
          /\ Waiting(i) # {}
    /\ \A r \in Request :
          /\ pc[r] = "authority" =>
                /\ inFlight[InstallationOf[r]] # None
                /\ deadline[r] = inFlight[InstallationOf[r]].started
                                   + RequestTimeout
                /\ cache.held[InstallationOf[r]] = None
          /\ pc[r] = "calling" =>
                cache.held[InstallationOf[r]] \in {None, token[r]}

\* While a request of an installation is calling, no token is minted for it.
LEMMA CallingAlone ==
  ASSUME OneAtATime, FlightInv, NEW r \in Request, pc[r] = "calling"
  PROVE  inFlight[InstallationOf[r]] = None
<1> SUFFICES ASSUME inFlight[InstallationOf[r]] # None PROVE FALSE
  OBVIOUS
<1>1. Waiting(InstallationOf[r]) # {}
  BY InstallationOfType DEF FlightInv
<1>2. PICK q \in Request : /\ pc[q] = "authority"
                           /\ InstallationOf[q] = InstallationOf[r]
  BY <1>1 DEF Waiting
<1> QED
  BY <1>2 DEF OneAtATime, Attempting

\* A wait for a token is over before the request's time is.
LEMMA WaitsEndFirst ==
  ASSUME TypeOK, FlightInv, NEW r \in Request, TimesOut(r)
  PROVE  pc[r] = "calling"
<1> DEFINE i == InstallationOf[r]
<1> SUFFICES ASSUME pc[r] = "authority" PROVE FALSE
  BY DEF TimesOut, Attempting
<1>1. /\ inFlight[i] # None /\ i \in Installation
      /\ deadline[r] = inFlight[i].started + RequestTimeout
      /\ now >= deadline[r]
  BY InstallationOfType DEF FlightInv, TimesOut
<1>2. now <= inFlight[i].started + MintTimeout
  BY <1>1 DEF FlightInv
<1>3. inFlight[i].started \in Nat /\ now \in Nat
  BY <1>1 DEF TypeOK, TokenRequest
<1> QED
  BY <1>1, <1>2, <1>3, TokensComeFirst, GateTimes, TokenTimes

\* An attempt begins with the token that is held, or waits for one.
LEMMA BeginKeepsFlights ==
  ASSUME NEW r \in Request, NEW n \in {0, 1}, NEW table, NEW generation \in Nat,
         TypeOK, FlightInv, now' = now, Begin(r, n, table, generation),
         table.held \in [Installation -> Authority \cup {None}],
         \A j \in Installation : table.held[j] \in {None, cache.held[j]},
         inFlight[InstallationOf[r]] = None,
         \A q \in Request \ {r} : InstallationOf[q] = InstallationOf[r]
                                  => pc[q] \notin Attempting
  PROVE  FlightInv'
<1> DEFINE i == InstallationOf[r]
<1>1. /\ i \in Installation /\ now \in Nat
      /\ MintTimeout \in Nat
  BY InstallationOfType, TokenTimes DEF TypeOK
<1>2. /\ \A j \in Installation : cache'.held[j] # None =>
            cache'.held[j] = table.held[j]
      /\ deadline' = [deadline EXCEPT ![r] = now + RequestTimeout]
      /\ token' = [token EXCEPT ![r] = token'[r]]
      /\ pc' = [pc EXCEPT ![r] = IF token'[r] = None THEN "authority"
                                                     ELSE "calling"]
  BY BeginFacts
<1>a. /\ cache'.held[i] = token'[r]
      /\ inFlight' = IF token'[r] # None THEN inFlight
                     ELSE [inFlight EXCEPT ![i] = [started |-> now,
                                                   generation |-> generation]]
  BY BeginMints
<1>3. ASSUME NEW q \in Request, q # r
      PROVE  /\ pc'[q] = pc[q] /\ deadline'[q] = deadline[q]
             /\ token'[q] = token[q]
             /\ pc[q] \in Attempting => InstallationOf[q] # i
  BY <1>2, <1>3 DEF TypeOK
<1>4. pc'[r] = IF token'[r] = None THEN "authority" ELSE "calling"
  BY <1>2 DEF TypeOK
<1>5. /\ \A j \in Installation \ {i} : inFlight'[j] = inFlight[j]
      /\ token'[r] = None =>
            inFlight'[i] = [started |-> now, generation |-> generation]
      /\ token'[r] # None => inFlight'[i] = None
  BY <1>1, <1>a DEF TypeOK
<1>6. [started |-> now, generation |-> generation] # None
  BY <1>1, NoneIsNoEntry DEF TokenRequest
<1>7. ASSUME NEW j \in Installation, inFlight'[j] # None
      PROVE  now <= inFlight'[j].started + MintTimeout /\ Waiting(j)' # {}
  <2>1. CASE j = i
    <3>1. token'[r] = None /\ inFlight'[i].started = now
      BY <1>5, <1>7, <2>1
    <3>2. r \in Waiting(i)'
      BY <1>4, <3>1 DEF Waiting
    <3> QED
      BY <1>1, <2>1, <3>1, <3>2
  <2>2. CASE j # i
    <3>1. /\ now <= inFlight'[j].started + MintTimeout
          /\ Waiting(j) # {}
      BY <1>5, <1>7, <2>2 DEF FlightInv
    <3>2. PICK q \in Request : pc[q] = "authority" /\ InstallationOf[q] = j
      BY <3>1 DEF Waiting
    <3>3. q \in Waiting(j)'
      BY <1>3, <2>2, <3>2 DEF Waiting
    <3> QED
      BY <3>1, <3>3
  <2> QED
    BY <2>1, <2>2
<1>8. ASSUME NEW q \in Request, pc'[q] = "authority"
      PROVE  /\ inFlight'[InstallationOf[q]] # None
             /\ deadline'[q] = inFlight'[InstallationOf[q]].started
                                 + RequestTimeout
             /\ cache'.held[InstallationOf[q]] = None
  <2>1. CASE q = r
    <3>1. /\ token'[r] = None /\ deadline'[r] = now + RequestTimeout
          /\ inFlight'[i] = [started |-> now, generation |-> generation]
      BY <1>2, <1>4, <1>5, <1>8, <2>1 DEF TypeOK
    <3> QED
      BY <1>a, <1>6, <2>1, <3>1
  <2>2. CASE q # r
    <3> DEFINE j == InstallationOf[q]
    <3>1. /\ pc[q] = "authority" /\ j # i /\ j \in Installation
          /\ deadline'[q] = deadline[q]
      BY <1>3, <1>8, <2>2, InstallationOfType DEF Attempting
    <3>2. /\ inFlight[j] # None /\ cache.held[j] = None
          /\ deadline[q] = inFlight[j].started + RequestTimeout
      BY <3>1 DEF FlightInv
    <3>3. table.held[j] = None
      BY <3>1, <3>2
    <3>4. cache'.held[j] = None
      BY <1>2, <3>1, <3>3
    <3> QED
      BY <1>5, <3>1, <3>2, <3>4
  <2> QED
    BY <2>1, <2>2
<1>9. ASSUME NEW q \in Request, pc'[q] = "calling"
      PROVE  cache'.held[InstallationOf[q]] \in {None, token'[q]}
  <2>1. CASE q = r
    BY <1>a, <2>1
  <2>2. CASE q # r
    <3>1. /\ pc[q] = "calling" /\ token'[q] = token[q]
          /\ InstallationOf[q] \in Installation
      BY <1>3, <1>9, <2>2, InstallationOfType
    <3>2. cache.held[InstallationOf[q]] \in {None, token[q]}
      BY <3>1 DEF FlightInv
    <3> QED
      BY <1>2, <3>1, <3>2
  <2> QED
    BY <2>1, <2>2
<1> QED
  BY <1>7, <1>8, <1>9 DEF FlightInv

\* A request that leaves without a wait for a token leaves none behind.
LEMMA LeaveKeepsFlights ==
  ASSUME NEW r \in Request, TypeOK, FlightInv, Leave(r), pc[r] # "authority",
         UNCHANGED <<now, cache, inFlight>>
  PROVE  FlightInv'
<1>1. /\ pc'[r] = "idle"
      /\ \A q \in Request \ {r} : /\ pc'[q] = pc[q] /\ token'[q] = token[q]
                                  /\ deadline'[q] = deadline[q]
  BY DEF Leave, TypeOK
<1>2. \A i \in Installation : Waiting(i)' = Waiting(i)
  BY <1>1 DEF Waiting
<1>3. \A q \in Request : pc'[q] \in Attempting => q # r
  BY <1>1 DEF Attempting
<1> QED
  BY <1>1, <1>2, <1>3 DEF FlightInv, Attempting

\* Flights are kept by every step.
LEMMA FlightStep ==
  TypeOK /\ OneAtATime /\ OneAtATime' /\ FlightInv /\ [Next]_vars => FlightInv'
<1> SUFFICES ASSUME TypeOK, OneAtATime, OneAtATime', FlightInv, [Next]_vars
             PROVE  FlightInv'
  OBVIOUS
<1>1. ASSUME NEW r \in Request,
             \/ Refuse(r) \/ Answered(r) \/ RejectedAgain(r) \/ TimesOut(r)
             \/ \E c \in Cooldowns : Failed(r, c)
      PROVE  FlightInv'
  <2>1. /\ Leave(r) /\ pc[r] # "authority"
        /\ UNCHANGED <<now, cache, inFlight>>
    BY <1>1, WaitsEndFirst DEF Refuse, MyTurn, Answered, RejectedAgain,
                               TimesOut, Failed, tokenVars
  <2> QED
    BY <2>1, LeaveKeepsFlights
<1>2. ASSUME NEW r \in Request, Send(r) PROVE FlightInv'
  <2>1. /\ pc[r] = "idle" /\ pc' = [pc EXCEPT ![r] = "queued"]
        /\ UNCHANGED <<now, cache, inFlight, deadline, token>>
    BY <1>2 DEF Send, tokenVars
  <2>2. \A q \in Request, p \in Attempting : pc'[q] = p <=> pc[q] = p
    BY <2>1 DEF TypeOK, Attempting
  <2>3. \A i \in Installation : Waiting(i)' = Waiting(i)
    BY <2>2 DEF Waiting, Attempting
  <2> QED
    BY <2>1, <2>2, <2>3 DEF FlightInv, Attempting
<1>3. ASSUME NEW r \in Request, Enter(r) PROVE FlightInv'
  <2> DEFINE i == InstallationOf[r]
  <2>1. /\ Begin(r, 0, cache, generations[i]) /\ now' = now
        /\ cache.held \in [Installation -> Authority \cup {None}]
        /\ generations[i] \in Nat /\ i \in Installation
        /\ pc[r] = "queued"
    BY <1>3, InstallationOfType DEF Enter, MyTurn, TypeOK
  <2>2. /\ pc'[r] \in Attempting
        /\ \A q \in Request \ {r} : pc'[q] = pc[q]
    BY <2>1 DEF Begin, TypeOK, Attempting
  <2>3. \A q \in Request \ {r} : InstallationOf[q] = i => pc[q] \notin Attempting
    BY <2>2 DEF OneAtATime
  <2>4. Waiting(i) = {}
    BY <2>1, <2>3 DEF Waiting, Attempting
  <2>5. inFlight[i] = None
    BY <2>1, <2>4 DEF FlightInv
  <2> QED
    BY <2>1, <2>3, <2>5, BeginKeepsFlights
<1>4. ASSUME NEW r \in Request, Rejected(r) PROVE FlightInv'
  <2> DEFINE i == InstallationOf[r]
             table == AfterRejection(i, token[r].token)
  <2>1. /\ Begin(r, 1, table, generations'[i]) /\ now' = now
        /\ generations'[i] \in Nat /\ pc[r] = "calling"
    BY <1>4, InstallationOfType DEF Rejected, GenerationsAfter, TypeOK
  <2>2. /\ table.held \in [Installation -> Authority \cup {None}]
        /\ \A j \in Installation : table.held[j] \in {None, cache.held[j]}
    BY DEF AfterRejection, Only, TypeOK
  <2>3. \A q \in Request \ {r} : InstallationOf[q] = i => pc[q] \notin Attempting
    BY <2>1 DEF OneAtATime, Attempting
  <2>4. inFlight[i] = None
    BY <2>1, CallingAlone
  <2> HIDE DEF table
  <2> QED
    BY <2>1, <2>2, <2>3, <2>4, BeginKeepsFlights
<1>5. ASSUME NEW i \in Installation, Minted(i) PROVE FlightInv'
  <2> DEFINE new == NewEntry(i)
             put == Put(cache, i, new)
  <2>1. /\ now' = now /\ inFlight[i] # None /\ deadline' = deadline
        /\ inFlight' = [inFlight EXCEPT ![i] = None]
        /\ cache' = Pruned(put, inFlight[i].started) \/ cache' = cache
        /\ \A q \in Request : IF q \in Waiting(i)
                              THEN pc'[q] = "calling" /\ token'[q] = new
                              ELSE pc'[q] = pc[q] /\ token'[q] = token[q]
    BY <1>5 DEF Minted, TokenMinted
  <2>2. /\ put.held \in [Installation -> Authority \cup {None}]
        /\ put.held = [cache.held EXCEPT ![i] = new]
    <3>1. new \in Authority
      BY TokenTimes DEF NewEntry, Authority, TypeOK
    <3> QED
      BY <3>1 DEF Put, TypeOK
  <2> HIDE DEF new, put
  <2>3. \A j \in Installation \ {i} : cache'.held[j] \in {None, cache.held[j]}
    BY <2>1, <2>2, PrunedType DEF TypeOK
  <2>4. cache'.held[i] \in {None, new, cache.held[i]}
    BY <2>1, <2>2, PrunedType DEF TypeOK
  <2>5. \A q \in Waiting(i) : cache.held[i] = None
    BY DEF FlightInv, Waiting
  <2>6. ASSUME NEW q \in Request, pc[q] = "calling" PROVE InstallationOf[q] # i
    BY <2>1, <2>6, CallingAlone
  <2>7. ASSUME NEW j \in Installation, inFlight'[j] # None
        PROVE  now <= inFlight'[j].started + MintTimeout /\ Waiting(j)' # {}
    <3>1. j # i /\ inFlight'[j] = inFlight[j]
      BY <2>1, <2>7 DEF TypeOK
    <3>2. now <= inFlight[j].started + MintTimeout /\ Waiting(j) # {}
      BY <2>7, <3>1 DEF FlightInv
    <3>3. PICK q \in Request : pc[q] = "authority" /\ InstallationOf[q] = j
      BY <3>2 DEF Waiting
    <3>4. q \notin Waiting(i)
      BY <3>1, <3>3 DEF Waiting
    <3>5. pc'[q] = "authority"
      BY <2>1, <3>3, <3>4
    <3> QED
      BY <3>1, <3>2, <3>3, <3>5 DEF Waiting
  <2>8. ASSUME NEW q \in Request, pc'[q] = "authority"
        PROVE  /\ inFlight'[InstallationOf[q]] # None
               /\ deadline'[q] = inFlight'[InstallationOf[q]].started
                                   + RequestTimeout
               /\ cache'.held[InstallationOf[q]] = None
    <3>1. pc[q] = "authority" /\ q \notin Waiting(i)
      BY <2>1, <2>8
    <3>2. InstallationOf[q] \in Installation \ {i}
      BY <3>1, InstallationOfType DEF Waiting
    <3>3. inFlight'[InstallationOf[q]] = inFlight[InstallationOf[q]]
      BY <2>1, <3>2 DEF TypeOK
    <3> QED
      BY <2>1, <2>3, <3>1, <3>2, <3>3 DEF FlightInv
  <2>9. ASSUME NEW q \in Request, pc'[q] = "calling"
        PROVE  cache'.held[InstallationOf[q]] \in {None, token'[q]}
    <3>1. CASE q \in Waiting(i)
      <4>1. InstallationOf[q] = i /\ token'[q] = new
        BY <2>1, <3>1 DEF Waiting
      <4> QED
        BY <2>4, <2>5, <3>1, <4>1
    <3>2. CASE q \notin Waiting(i)
      <4>1. pc[q] = "calling" /\ token'[q] = token[q]
        BY <2>1, <2>9, <3>2
      <4>2. InstallationOf[q] \in Installation \ {i}
        BY <2>6, <4>1, InstallationOfType
      <4>3. cache.held[InstallationOf[q]] \in {None, token[q]}
        BY <4>1 DEF FlightInv
      <4> QED
        BY <2>3, <4>1, <4>2, <4>3
    <3> QED
      BY <3>1, <3>2
  <2> QED
    BY <2>1, <2>7, <2>8, <2>9 DEF FlightInv
<1>6. ASSUME NEW r \in Request, NEW c \in Cooldowns, Unauthorized(r, c)
      PROVE  FlightInv'
  <2> DEFINE i == InstallationOf[r]
  <2>1. /\ pc[r] = "authority" /\ i \in Installation
        /\ inFlight' = [inFlight EXCEPT ![i] = None]
        /\ UNCHANGED <<now, cache>>
    BY <1>6, InstallationOfType DEF Unauthorized, MintFails
  <2>2. /\ pc'[r] = "idle"
        /\ \A q \in Request \ {r} : /\ pc'[q] = pc[q] /\ token'[q] = token[q]
                                    /\ deadline'[q] = deadline[q]
    BY <1>6 DEF Unauthorized, Leave, TypeOK
  <2>3. \A q \in Request \ {r} : pc[q] \in Attempting => InstallationOf[q] # i
    BY <2>1 DEF OneAtATime, Attempting
  <2>4. \A j \in Installation \ {i} : /\ inFlight'[j] = inFlight[j]
                                      /\ Waiting(j)' = Waiting(j)
    BY <2>1, <2>2 DEF TypeOK, Waiting
  <2>5. inFlight'[i] = None
    BY <2>1 DEF TypeOK
  <2>6. ASSUME NEW q \in Request, pc'[q] \in Attempting
        PROVE  /\ pc'[q] = pc[q] /\ token'[q] = token[q]
               /\ deadline'[q] = deadline[q]
               /\ InstallationOf[q] \in Installation \ {i}
    BY <2>2, <2>3, <2>6, InstallationOfType DEF Attempting
  <2> QED
    BY <2>1, <2>4, <2>5, <2>6 DEF FlightInv, Attempting
<1>7. CASE Tick
  <2>1. /\ now' = now + 1 /\ \A i \in Installation : ~MintOverdue(i)
        /\ UNCHANGED <<cache, inFlight, pc, deadline, token>>
    BY <1>7 DEF Tick, tokenVars
  <2>2. ASSUME NEW i \in Installation, inFlight[i] # None
        PROVE  now + 1 <= inFlight[i].started + MintTimeout
    <3>1. /\ inFlight[i].started \in Nat /\ now \in Nat /\ MintTimeout \in Nat
      BY <2>2, TokenTimes DEF TypeOK, TokenRequest
    <3>2. ~(now >= inFlight[i].started + MintTimeout)
      BY <2>1, <2>2 DEF MintOverdue
    <3> QED
      BY <3>1, <3>2
  <2>3. \A i \in Installation : Waiting(i)' = Waiting(i)
    BY <2>1 DEF Waiting
  <2> QED
    BY <2>1, <2>2, <2>3 DEF FlightInv
<1>8. CASE UNCHANGED vars
  <2>1. UNCHANGED <<now, cache, inFlight, pc, deadline, token>>
    BY <1>8 DEF vars, gateVars, tokenVars
  <2>2. \A i \in Installation : Waiting(i)' = Waiting(i)
    BY <2>1 DEF Waiting
  <2> QED
    BY <2>1, <2>2 DEF FlightInv
<1> QED
  BY <1>1, <1>2, <1>3, <1>4, <1>5, <1>6, <1>7, <1>8 DEF Next

\* A second attempt is made with a token that no second one was rejected with.
DoubtInv ==
    /\ doubted \subseteq 1..minted
    /\ \A r \in Request : pc[r] = "calling" /\ attempt[r] = 1
                          => token[r].token \notin doubted

\* What a request that leaves does not doubt, the others may go on using.
LEMMA LeaveKeepsDoubts ==
  ASSUME NEW r \in Request, TypeOK, DoubtInv, Leave(r),
         UNCHANGED <<minted, doubted>>
  PROVE  DoubtInv'
<1>1. \A q \in Request : pc'[q] = "calling" =>
         /\ pc[q] = "calling" /\ attempt'[q] = attempt[q]
         /\ token'[q] = token[q]
  BY DEF Leave, TypeOK
<1> QED
  BY <1>1 DEF DoubtInv

\* Doubts are kept by every step.
LEMMA DoubtStep ==
  /\ TypeOK /\ OneAtATime /\ TokenInv /\ FlightInv /\ DoubtInv /\ [Next]_vars
  => DoubtInv'
<1> SUFFICES ASSUME TypeOK, OneAtATime, TokenInv, FlightInv, DoubtInv,
                    [Next]_vars
             PROVE  DoubtInv'
  OBVIOUS
<1>1. ASSUME NEW r \in Request,
             \/ Refuse(r) \/ Answered(r) \/ TimesOut(r)
             \/ \E c \in Cooldowns : Unauthorized(r, c) \/ Failed(r, c)
      PROVE  DoubtInv'
  <2>1. Leave(r) /\ UNCHANGED <<minted, doubted>>
    BY <1>1 DEF Refuse, Answered, TimesOut, Unauthorized, Failed, MintFails,
                tokenVars
  <2> QED
    BY <2>1, LeaveKeepsDoubts
<1>2. ASSUME NEW r \in Request, Send(r) PROVE DoubtInv'
  <2>1. /\ \A q \in Request : pc'[q] = "calling" => pc[q] = "calling"
        /\ UNCHANGED <<minted, doubted, attempt, token>>
    BY <1>2 DEF Send, tokenVars, TypeOK
  <2> QED
    BY <2>1 DEF DoubtInv
<1>3. ASSUME NEW r \in Request, Enter(r) PROVE DoubtInv'
  <2>1. /\ Begin(r, 0, cache, generations[InstallationOf[r]])
        /\ doubted' = doubted
        /\ cache.held \in [Installation -> Authority \cup {None}]
        /\ generations[InstallationOf[r]] \in Nat
    BY <1>3, InstallationOfType DEF Enter, TypeOK
  <2>2. /\ minted' = minted /\ token' = [token EXCEPT ![r] = token'[r]]
        /\ \A q \in Request \ {r} : pc'[q] = pc[q]
    BY <2>1, BeginFacts DEF TypeOK
  <2>3. attempt' = [attempt EXCEPT ![r] = 0]
    BY <2>1, BeginMints
  <2>4. \A q \in Request : pc'[q] = "calling" /\ attempt'[q] = 1 =>
           pc[q] = "calling" /\ attempt[q] = 1 /\ token'[q] = token[q]
    BY <2>2, <2>3 DEF TypeOK
  <2> QED
    BY <2>1, <2>2, <2>4 DEF DoubtInv
<1>4. ASSUME NEW r \in Request, Rejected(r) PROVE DoubtInv'
  <2> DEFINE i == InstallationOf[r]
             table == AfterRejection(i, token[r].token)
  <2>1. /\ Begin(r, 1, table, generations'[i])
        /\ generations'[i] \in Nat /\ pc[r] = "calling"
        /\ doubted' = doubted \ {token[r].token} /\ i \in Installation
    BY <1>4, InstallationOfType DEF Rejected, GenerationsAfter, TypeOK
  <2>2. /\ table.held \in [Installation -> Authority \cup {None}]
        /\ table.held[i] = None
    <3>1. cache.held[i] \in {None, token[r]}
      BY <2>1 DEF FlightInv
    <3>2. table.held[i] = None
      BY <2>1, <3>1 DEF AfterRejection, StillHeld, Only
    <3>3. table.held \in [Installation -> Authority \cup {None}]
      BY DEF AfterRejection, Only, TypeOK
    <3> QED
      BY <3>2, <3>3
  <2> HIDE DEF table
  <2>3. /\ minted' = minted /\ token' = [token EXCEPT ![r] = token'[r]]
        /\ token'[r] = None
        /\ pc' = [pc EXCEPT ![r] = IF token'[r] = None THEN "authority"
                                                       ELSE "calling"]
    BY <2>1, <2>2, BeginFacts
  <2>4. attempt' = [attempt EXCEPT ![r] = 1]
    BY <2>1, <2>2, BeginMints
  <2>5. \A q \in Request : pc'[q] = "calling" =>
           /\ pc[q] = "calling" /\ attempt'[q] = attempt[q]
           /\ token'[q] = token[q]
    BY <2>3, <2>4 DEF TypeOK
  <2> QED
    BY <2>1, <2>3, <2>5 DEF DoubtInv
<1>5. ASSUME NEW r \in Request, RejectedAgain(r) PROVE DoubtInv'
  <2>1. /\ Leave(r) /\ pc[r] = "calling" /\ minted' = minted
        /\ doubted' = doubted \cup {token[r].token}
    BY <1>5 DEF RejectedAgain, tokenVars
  <2>2. \A q \in Request : pc'[q] = "calling" =>
           /\ pc[q] = "calling" /\ attempt'[q] = attempt[q]
           /\ token'[q] = token[q] /\ q # r
    BY <2>1 DEF Leave, TypeOK
  <2>3. token[r] \in InUse(InstallationOf[r])
    BY <2>1 DEF InUse
  <2>4. token[r].token \in 1..minted
    BY <2>3, InstallationOfType DEF TokenInv
  <2>5. ASSUME NEW q \in Request, pc[q] = "calling", q # r
        PROVE  token[q].token # token[r].token
    <3>1. InstallationOf[q] # InstallationOf[r]
      BY <2>1, <2>5 DEF OneAtATime, Attempting
    <3>2. token[q] \in InUse(InstallationOf[q])
      BY <2>5 DEF InUse
    <3> QED
      BY <2>3, <3>1, <3>2, InstallationOfType DEF TokenInv
  <2>6. ASSUME NEW q \in Request, pc'[q] = "calling", attempt'[q] = 1
        PROVE  token'[q].token \notin doubted'
    BY <2>1, <2>2, <2>5, <2>6 DEF DoubtInv
  <2>7. doubted' \subseteq 1..minted'
    BY <2>1, <2>4 DEF DoubtInv
  <2> QED
    BY <2>6, <2>7 DEF DoubtInv
<1>6. ASSUME NEW i \in Installation, Minted(i) PROVE DoubtInv'
  <2>1. /\ minted' = minted + 1 /\ doubted' = doubted /\ attempt' = attempt
        /\ \A q \in Request : pc'[q] = "calling" =>
              \/ token'[q].token = minted + 1
              \/ token'[q] = token[q] /\ pc[q] = "calling"
    BY <1>6 DEF Minted, TokenMinted, Waiting, NewEntry
  <2>2. minted \in Nat
    BY DEF TypeOK
  <2>3. minted + 1 \notin doubted /\ doubted \subseteq 1..(minted + 1)
    BY <2>2 DEF DoubtInv
  <2> QED
    BY <2>1, <2>3 DEF DoubtInv
<1>7. CASE Tick \/ UNCHANGED vars
  <2>1. UNCHANGED <<pc, attempt, token, minted, doubted>>
    BY <1>7 DEF Tick, vars, gateVars, tokenVars
  <2> QED
    BY <2>1 DEF DoubtInv
<1> QED
  BY <1>1, <1>2, <1>3, <1>4, <1>5, <1>6, <1>7 DEF Next

\* A call is made with a token of its installation that lasts until the call
\* is over and that no first attempt was rejected with, also when another
\* request's 401, a mint in flight or the limit of the cache changed what is
\* held meanwhile.  The token of a second attempt was not rejected by one.
THEOREM TokensStayGood == Spec => []TokensAreGood
<1>1. Init => TimeInv /\ TokenInv /\ FlightInv /\ DoubtInv
  <2> SUFFICES ASSUME Init PROVE TimeInv /\ TokenInv /\ FlightInv /\ DoubtInv
    OBVIOUS
  <2>1. \A r \in Request : pc[r] = "idle"
    BY DEF Init
  <2>2. \A i \in Installation : InUse(i) = {} /\ inFlight[i] = None
    BY <2>1 DEF Init, TokensInit, NoEntries, InUse
  <2>3. rejected = {} /\ doubted = {}
    BY DEF Init
  <2> QED
    BY <2>1, <2>2, <2>3 DEF TimeInv, TokenInv, FlightInv, DoubtInv, Attempting
<1>2. TypeOK /\ TimeInv /\ TokenInv /\ DoubtInv => TokensAreGood
  <2> SUFFICES ASSUME TypeOK, TimeInv, TokenInv, DoubtInv,
                      NEW r \in Request, pc[r] = "calling"
               PROVE  /\ token[r].installation = InstallationOf[r]
                      /\ now < token[r].expiresAt
                      /\ token[r].token \notin rejected
                      /\ attempt[r] = 1 => token[r].token \notin doubted
    BY DEF TokensAreGood
  <2>1. token[r] \in InUse(InstallationOf[r])
    BY DEF InUse
  <2>2. now <= deadline[r] /\ deadline[r] < token[r].expiresAt
    BY DEF TimeInv, Attempting
  <2>3. /\ now \in Nat /\ deadline[r] \in Nat /\ token[r].expiresAt \in Nat
    BY DEF TypeOK, Authority
  <2>4. now < token[r].expiresAt
    BY <2>2, <2>3
  <2>5. attempt[r] = 1 => token[r].token \notin doubted
    BY DEF DoubtInv
  <2> QED
    BY <2>1, <2>4, <2>5, InstallationOfType DEF TokenInv
<1> QED
  BY <1>1, <1>2, TimeStep, TokenStep, FlightStep, DoubtStep, TypesHold,
     TurnsAreTaken, PTL DEF Spec

-----------------------------------------------------------------------------
(* Limits. *)

TokensBounded == Ordered(cache) /\ Cardinality(Keys(cache)) <= MaxTokens

\* What is pruned keeps to the limit.
LEMMA PrunedBound ==
  ASSUME NEW table, NEW time, Ordered(table)
  PROVE  /\ Ordered(Pruned(table, time))
         /\ Cardinality(Keys(Pruned(table, time))) <= MaxTokens
<1> DEFINE live == {i \in Keys(table) : Usable(table.held[i], time)}
           K == Newest(table, live, MaxTokens)
<1>1. Cardinality(K) <= MaxTokens
  <2> live \in SUBSET Keys(table)
    OBVIOUS
  <2> HIDE DEF live
  <2> QED
    BY NewestBound, TokenTimes
<1>2. K \subseteq Keys(table)
  BY DEF Newest
<1>3. Pruned(table, time) = Only(table, K)
  BY DEF Pruned
<1> HIDE DEF K
<1>4. /\ Ordered(Only(table, K))
      /\ Keys(Only(table, K)) = Keys(table) \cap K
  BY OnlyOrdered
<1>5. Keys(table) \cap K = K
  BY <1>2
<1> QED
  BY <1>1, <1>3, <1>4, <1>5

\* Using an entry moves it only.
LEMMA BeginBound ==
  ASSUME NEW r \in Request, NEW n \in {0, 1}, NEW table, NEW generation \in Nat,
         TypeOK, Ordered(table), Begin(r, n, table, generation),
         table.held \in [Installation -> Authority \cup {None}]
  PROVE  TokensBounded'
<1> DEFINE i == InstallationOf[r]
           kept == Pruned(table, now)
<1>1. /\ Ordered(kept) /\ Cardinality(Keys(kept)) <= MaxTokens
      /\ kept.held \in [Installation -> Authority \cup {None}]
      /\ i \in Installation
  BY PrunedBound, PrunedType, InstallationOfType
<1>2. cache' = IF kept.held[i] = None THEN kept ELSE Put(kept, i, kept.held[i])
  BY DEF Begin, GetAuthority, HeldIn
<1> HIDE DEF kept
<1>3. CASE kept.held[i] = None
  BY <1>1, <1>2, <1>3 DEF TokensBounded
<1>4. CASE kept.held[i] # None
  <2>1. /\ Ordered(Put(kept, i, kept.held[i]))
        /\ Keys(Put(kept, i, kept.held[i])) = Keys(kept) \cup {i}
    BY <1>1, <1>4, PutOrdered
  <2>2. Keys(kept) \cup {i} = Keys(kept)
    BY <1>1, <1>4 DEF Keys
  <2> QED
    BY <1>1, <1>2, <1>4, <2>1, <2>2 DEF TokensBounded
<1> QED
  BY <1>3, <1>4

\* Limits are kept by every step.
LEMMA BoundStep ==
  TypeOK /\ TokensBounded /\ [Next]_vars => TokensBounded'
<1> SUFFICES ASSUME TypeOK, TokensBounded, [Next]_vars PROVE TokensBounded'
  OBVIOUS
<1>1. ASSUME NEW r \in Request, Enter(r) PROVE TokensBounded'
  <2>1. /\ Begin(r, 0, cache, generations[InstallationOf[r]])
        /\ cache.held \in [Installation -> Authority \cup {None}]
        /\ generations[InstallationOf[r]] \in Nat /\ Ordered(cache)
    BY <1>1, InstallationOfType DEF Enter, TypeOK, TokensBounded
  <2> QED
    BY <2>1, BeginBound
<1>2. ASSUME NEW r \in Request, Rejected(r) PROVE TokensBounded'
  <2> DEFINE i == InstallationOf[r]
             table == AfterRejection(i, token[r].token)
  <2>1. /\ Begin(r, 1, table, generations'[i]) /\ generations'[i] \in Nat
    BY <1>2, InstallationOfType DEF Rejected, GenerationsAfter, TypeOK
  <2>2. table.held \in [Installation -> Authority \cup {None}]
    BY DEF AfterRejection, Only, TypeOK
  <2>3. Ordered(table)
    BY OnlyOrdered DEF AfterRejection, TokensBounded
  <2> HIDE DEF table
  <2> QED
    BY <2>1, <2>2, <2>3, BeginBound
<1>3. ASSUME NEW i \in Installation, Minted(i) PROVE TokensBounded'
  <2>1. NewEntry(i) \in Authority /\ NewEntry(i) # None
    BY TokenTimes, NoneIsNoEntry DEF NewEntry, Authority, TypeOK
  <2>2. Ordered(Put(cache, i, NewEntry(i)))
    <3>1. /\ DOMAIN cache.held = Installation
          /\ cache.held = [j \in Installation |-> cache.held[j]]
      BY DEF TypeOK
    <3> HIDE DEF NewEntry
    <3> QED
      BY <2>1, <3>1, PutOrdered DEF TokensBounded
  <2>3. \/ cache' = Pruned(Put(cache, i, NewEntry(i)), inFlight[i].started)
        \/ cache' = cache
    BY <1>3 DEF Minted, TokenMinted
  <2> QED
    BY <2>2, <2>3, PrunedBound DEF TokensBounded
<1>4. CASE UNCHANGED cache
  BY <1>4 DEF TokensBounded
<1>5. ASSUME NEW r \in Request,
             \/ Send(r) \/ Refuse(r) \/ Answered(r) \/ RejectedAgain(r)
             \/ TimesOut(r)
             \/ \E c \in Cooldowns : Unauthorized(r, c) \/ Failed(r, c)
      PROVE  UNCHANGED cache
  BY <1>5 DEF Send, Refuse, Answered, RejectedAgain, TimesOut, Unauthorized,
              Failed, MintFails, tokenVars
<1>6. CASE Tick \/ UNCHANGED vars
  BY <1>4, <1>6 DEF Tick, vars, tokenVars
<1> QED
  BY <1>1, <1>2, <1>3, <1>4, <1>5, <1>6 DEF Next

\* Neither map of an API process outgrows its limit, although entries are
\* added, used and dropped in any order.
THEOREM TablesStayBounded ==
  Spec => [](/\ Cardinality(Keys(cache)) <= MaxTokens
             /\ Cardinality(Keys(cooldowns)) <= MaxCooldowns)
<1>1. Init => TokensBounded
  <2> SUFFICES ASSUME Init PROVE TokensBounded
    OBVIOUS
  <2>1. Ordered(cache) /\ Keys(cache) = {}
    BY NoEntriesOrdered DEF Init, TokensInit
  <2>2. Cardinality(Keys(cache)) <= MaxTokens
    BY <2>1, FS_EmptySet, TokenTimes
  <2> QED
    BY <2>1, <2>2 DEF TokensBounded
<1>2. TokensBounded /\ CooldownInv =>
        /\ Cardinality(Keys(cache)) <= MaxTokens
        /\ Cardinality(Keys(cooldowns)) <= MaxCooldowns
  BY DEF TokensBounded, CooldownInv
<1> QED
  BY <1>1, <1>2, BoundStep, TypesHold, CooldownInvHolds, PTL DEF Spec
=============================================================================
