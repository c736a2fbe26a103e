--------------------------- MODULE ReadCacheProofs --------------------------
(***************************************************************************)
(* Cached reads follow invalidation: for any number of installations,      *)
(* repositories, Nodes and requests, and any limits.  The last part is     *)
(* about the cache of state files.                                         *)
(*                                                                         *)
(* A load publishes what it read if its generation is still the current    *)
(* one.  This is right because a generation never comes again: the three   *)
(* counters it consists of grow together in lexicographic order (Earlier), *)
(* although an invalidation starts those below its own from 0, and none    *)
(* of them can wrap.  While a generation is current, the last invalidation *)
(* of the place is the one that the request was asked after (SinceInv);    *)
(* and what a request reads is no older than that.                         *)
(***************************************************************************)
EXTENDS ReadCache, StateFileCache, WellFoundedInduction, TLAPS

-----------------------------------------------------------------------------
(* The invariant *)

\* Nothing has counted as often as there were invalidations: no generation
\* comes again.
GenerationInv ==
    /\ globalGeneration <= invalidations
    /\ \A s \in Scope : generations[s] <= invalidations

\* What a guarded cache holds is between the last invalidation and now.
CacheInv ==
    /\ \A p \in Place : floor[p] <= version[p[2]]
    /\ \A p \in Guarded : \A k \in KeysOf(p[1]) :
          cache[p][k] # None => cache[p][k] \in floor[p]..version[p[2]]

\* A generation is left for ever: each invalidation begins one that is later,
\* although it starts those below it from 0.
Earlier(g, h) ==
    \/ g.global < h.global
    \/ /\ g.global = h.global
       /\ \/ g.installation < h.installation
          \/ /\ g.installation = h.installation
             /\ g.repository < h.repository

\* What a request asks is a part of what the menu offers.
AskInv(r) ==
    /\ ask[r] \in Ask
    /\ ask[r].keys # {} /\ ask[r].keys \subseteq KeysOf(KindOf(r))

\* As long as a request's generation is current, nothing was invalidated
\* since it was asked.
SinceInv(r) ==
    /\ since[r] <= floor[PlaceOf(r)]
    /\ generation[r] # None =>
          \/ Earlier(generation[r], GenerationOf(PlaceOf(r)))
          \/ IsCurrent(r) /\ since[r] = floor[PlaceOf(r)]

\* What a request of a guarded cache has read is no older than its question.
ValueInv(r) ==
    PlaceOf(r) \in Guarded /\ value[r] # None =>
       value[r] \in since[r]..version[ScopeOf(r)]

\* A load has read its version with its first answer.
LoadInv(r) ==
    pc[r] \in LoadPhase =>
       /\ generation[r] # None /\ joined[r] = None
       /\ pc[r] = FirstPhase(KindOf(r)) \/ value[r] # None

\* A request waits for a load of the same place that was asked after the same
\* invalidation.
WaitInv(r) ==
    pc[r] = "waiting" =>
       /\ joined[r] # None /\ pc[joined[r]] \in LoadPhase
       /\ PlaceOf(joined[r]) = PlaceOf(r)
       /\ since[joined[r]] = since[r]

RequestInv(r) ==
    IF pc[r] = "idle"
    THEN ask[r] = None /\ generation[r] = None
         /\ joined[r] = None /\ value[r] = None
    ELSE AskInv(r) /\ SinceInv(r) /\ ValueInv(r) /\ LoadInv(r) /\ WaitInv(r)

\* The map of flights holds loads of the current generation, and all of those
\* that are kept one per place.
IsFlight(f) ==
    /\ pc[f] \in LoadPhase \cup {"resolved"} /\ joined[f] = None
    /\ KindOf(f) \in Coalesced /\ IsCurrent(f)
IsSingle(f) == pc[f] \in LoadPhase /\ KindOf(f) \in {"catalog", "grants"}

FlightInv ==
    /\ \A f \in registered : IsFlight(f)
    /\ \A f \in Reader : IsSingle(f) /\ IsCurrent(f) => f \in registered

ReadInv ==
    /\ TypeOK /\ menu \in Menus
    /\ GenerationInv /\ CacheInv
    /\ \A r \in Reader : RequestInv(r)
    /\ FlightInv /\ OneLoadPerGeneration

-----------------------------------------------------------------------------
(* Places, kinds and generations *)

LEMMA PlaceShape ==
    ASSUME NEW p \in Place
    PROVE  /\ p[1] \in {"catalog", "full", "anchor", "grants"}
           /\ p[2] \in Scope
           /\ p[1] = "grants" => p[2] \in Installation
           /\ p[1] # "grants" => p[2] \in Repository
           /\ p \in Guarded <=> p[1] # "full"
  BY DEF Place, Scope, Guarded

LEMMA InstallationOfScope ==
    ASSUME NEW s \in Scope
    PROVE  InstallationAt(s) \in Installation /\ InstallationAt(s) \in Scope
  BY InstallationOfType DEF InstallationAt, Scope

LEMMA FirstIsLoad ==
    ASSUME NEW p \in Place
    PROVE  FirstPhase(p[1]) \in LoadPhase
  BY PlaceShape DEF FirstPhase, LoadPhase

LEMMA NextIsPhase ==
    ASSUME NEW kind, NEW phase, NEW v
    PROVE  NextPhase(kind, phase, v) \in LoadPhase \cup {"resolved"}
  BY DEF NextPhase, LoadPhase

LEMMA GenerationTyped ==
    ASSUME TypeOK, NEW p \in Place
    PROVE  GenerationOf(p) \in Generation
  <1>1. p[2] \in Scope /\ InstallationAt(p[2]) \in Scope
    BY PlaceShape, InstallationOfScope
  <1>2. generations[InstallationAt(p[2])] \in 0..MaxSafeInteger
        /\ generations[p[2]] \in 0..MaxSafeInteger
    BY <1>1 DEF TypeOK
  <1> QED
    BY <1>2, CacheBounds DEF GenerationOf, Generation, TypeOK

LEMMA GenerationIsSome == None \notin Generation
  <1>1. Generation \subseteq
           [global : Nat, installation : Nat, repository : Nat]
    BY CacheBounds DEF Generation
  <1> QED
    BY <1>1, NoneIsFresh

LEMMA EarlierOrder ==
    ASSUME NEW g \in Generation, NEW h \in Generation, NEW i \in Generation
    PROVE  /\ ~ Earlier(g, g)
           /\ Earlier(g, h) /\ Earlier(h, i) => Earlier(g, i)
  BY CacheBounds DEF Earlier, Generation

-----------------------------------------------------------------------------
(* Invalidations *)

\* Whatever an invalidation covers enters a later generation, and nothing else
\* does.
Invalidates(P) ==
    /\ P \subseteq Place /\ Forget(P)
    /\ globalGeneration' \in 0..MaxSafeInteger
    /\ generations' \in [Scope -> 0..MaxSafeInteger]
    /\ GenerationInv'
    /\ \A p \in Place :
          IF p \in P THEN Earlier(GenerationOf(p), GenerationOf(p)')
                     ELSE GenerationOf(p)' = GenerationOf(p)

LEMMA GenerationsDoNotWrap ==
    ASSUME TypeOK, GenerationInv, NEW P, Forget(P)
    PROVE  /\ globalGeneration + 1 <= invalidations'
           /\ globalGeneration + 1 \in 0..MaxSafeInteger
           /\ NextCacheGeneration(globalGeneration) = globalGeneration + 1
           /\ \A s \in Scope :
                 /\ generations[s] + 1 <= invalidations'
                 /\ generations[s] + 1 \in 0..MaxSafeInteger
                 /\ NextCacheGeneration(generations[s]) = generations[s] + 1
  BY CacheBounds DEF TypeOK, GenerationInv, Forget, NextCacheGeneration

LEMMA AllInvalidated ==
    ASSUME TypeOK, GenerationInv, InvalidateAll
    PROVE  Invalidates(Place)
  <1>1. Forget(Place)
    BY DEF InvalidateAll
  <1>2. globalGeneration' = globalGeneration + 1
    BY <1>1, GenerationsDoNotWrap DEF InvalidateAll
  <1>3. generations' = [s \in Scope |-> 0]
    BY DEF InvalidateAll
  <1>4. /\ globalGeneration' \in 0..MaxSafeInteger
        /\ generations' \in [Scope -> 0..MaxSafeInteger]
        /\ GenerationInv'
    BY <1>1, <1>2, <1>3, GenerationsDoNotWrap, CacheBounds
       DEF GenerationInv, TypeOK, Forget
  <1>5. \A p \in Place : Earlier(GenerationOf(p), GenerationOf(p)')
    BY <1>2, CacheBounds DEF Earlier, GenerationOf, TypeOK
  <1> QED
    BY <1>1, <1>4, <1>5 DEF Invalidates

LEMMA InstallationInvalidated ==
    ASSUME TypeOK, GenerationInv, NEW i \in Installation,
           InvalidateInstallation(i)
    PROVE  Invalidates({p \in Place : InstallationAt(p[2]) = i})
  <1> DEFINE P == {p \in Place : InstallationAt(p[2]) = i}
  <1>1. Forget(P) /\ i \in Scope
    BY DEF InvalidateInstallation, Scope
  <1>2. /\ globalGeneration' = globalGeneration
        /\ generations' =
              [s \in Scope |-> IF s = i THEN generations[i] + 1
                               ELSE IF InstallationAt(s) = i THEN 0
                               ELSE generations[s]]
    BY <1>1, GenerationsDoNotWrap DEF InvalidateInstallation
  <1>3. /\ globalGeneration' \in 0..MaxSafeInteger
        /\ generations' \in [Scope -> 0..MaxSafeInteger]
        /\ GenerationInv'
    <2>1. /\ generations[i] + 1 \in 0..MaxSafeInteger
          /\ generations[i] + 1 <= invalidations'
          /\ globalGeneration \in 0..MaxSafeInteger
          /\ globalGeneration <= invalidations'
          /\ 0 \in 0..MaxSafeInteger /\ 0 <= invalidations'
      BY <1>1, GenerationsDoNotWrap, CacheBounds
         DEF TypeOK, Forget, GenerationInv
    <2>2. \A s \in Scope : /\ generations[s] \in 0..MaxSafeInteger
                           /\ generations[s] <= invalidations'
      BY <1>1, GenerationsDoNotWrap, CacheBounds
         DEF TypeOK, Forget, GenerationInv
    <2> QED
      BY <1>1, <1>2, <2>1, <2>2 DEF GenerationInv
  <1>4. ASSUME NEW p \in Place
        PROVE  IF p \in P THEN Earlier(GenerationOf(p), GenerationOf(p)')
                          ELSE GenerationOf(p)' = GenerationOf(p)
    <2>1. /\ p[2] \in Scope /\ InstallationAt(p[2]) \in Scope
          /\ InstallationAt(InstallationAt(p[2])) = InstallationAt(p[2])
      BY PlaceShape, InstallationOfScope, ScopesDisjoint DEF InstallationAt
    <2>2. CASE p \in P
      <3>1. InstallationAt(p[2]) = i
        BY <2>2
      <3>2. generations'[i] = generations[i] + 1
        BY <1>1, <1>2
      <3> QED
        BY <1>1, <1>2, <2>2, <3>1, <3>2, CacheBounds
           DEF Earlier, GenerationOf, TypeOK
    <2>3. CASE p \notin P
      <3>1. InstallationAt(p[2]) # i
        BY <2>3
      <3>2. p[2] # i
        BY <3>1, ScopesDisjoint DEF InstallationAt
      <3>3. /\ generations'[p[2]] = generations[p[2]]
            /\ generations'[InstallationAt(p[2])]
                 = generations[InstallationAt(p[2])]
        BY <1>2, <2>1, <3>1, <3>2
      <3> QED
        BY <1>2, <2>3, <3>3 DEF GenerationOf
    <2> QED
      BY <2>2, <2>3
  <1> QED
    BY <1>1, <1>3, <1>4 DEF Invalidates

LEMMA RepositoryInvalidated ==
    ASSUME TypeOK, GenerationInv, NEW s \in Repository,
           InvalidateRepository(s)
    PROVE  Invalidates({p \in Place : p[2] = s})
  <1> DEFINE P == {p \in Place : p[2] = s}
  <1>1. Forget(P) /\ s \in Scope
    BY DEF InvalidateRepository, Scope
  <1>2. /\ globalGeneration' = globalGeneration
        /\ generations' = [generations EXCEPT ![s] = generations[s] + 1]
    BY <1>1, GenerationsDoNotWrap DEF InvalidateRepository
  <1>3. /\ globalGeneration' \in 0..MaxSafeInteger
        /\ generations' \in [Scope -> 0..MaxSafeInteger]
        /\ GenerationInv'
    <2>1. /\ generations[s] + 1 \in 0..MaxSafeInteger
          /\ generations[s] + 1 <= invalidations'
          /\ globalGeneration \in 0..MaxSafeInteger
          /\ globalGeneration <= invalidations'
          /\ generations \in [Scope -> 0..MaxSafeInteger]
      BY <1>1, GenerationsDoNotWrap, CacheBounds
         DEF TypeOK, Forget, GenerationInv
    <2>2. \A t \in Scope : generations[t] <= invalidations'
      BY <1>1, GenerationsDoNotWrap, CacheBounds
         DEF TypeOK, Forget, GenerationInv
    <2> QED
      BY <1>1, <1>2, <2>1, <2>2 DEF GenerationInv
  <1>4. ASSUME NEW p \in Place
        PROVE  IF p \in P THEN Earlier(GenerationOf(p), GenerationOf(p)')
                          ELSE GenerationOf(p)' = GenerationOf(p)
    <2>1. /\ p[2] \in Scope /\ InstallationAt(p[2]) \in Scope
          /\ InstallationAt(p[2]) # s
      BY PlaceShape, InstallationOfScope, ScopesDisjoint
    <2>2. generations'[InstallationAt(p[2])]
            = generations[InstallationAt(p[2])]
      BY <1>2, <2>1 DEF TypeOK
    <2>3. CASE p \in P
      <3>1. generations'[p[2]] = generations[p[2]] + 1 /\ p[2] \in Repository
        BY <1>1, <1>2, <2>3 DEF TypeOK
      <3> QED
        BY <1>2, <2>1, <2>2, <2>3, <3>1, CacheBounds
           DEF Earlier, GenerationOf, TypeOK
    <2>4. CASE p \notin P
      <3>1. generations'[p[2]] = generations[p[2]]
        BY <1>2, <2>1, <2>4 DEF TypeOK
      <3> QED
        BY <1>2, <2>2, <2>4, <3>1 DEF GenerationOf
    <2> QED
      BY <2>3, <2>4
  <1> QED
    BY <1>1, <1>3, <1>4 DEF Invalidates

-----------------------------------------------------------------------------
(* The caches *)

\* Entries of one place may become v, others may vanish.
Published(p, v) ==
    /\ DOMAIN cache' = Place
    /\ \A q \in Place :
          /\ cache'[q] \in [KeysOf(q[1]) -> Version \cup {None}]
          /\ \A k \in KeysOf(q[1]) :
                \/ cache'[q][k] \in {None, cache[q][k]}
                \/ q = p /\ cache'[q][k] = v

LEMMA NothingPublished ==
    ASSUME TypeOK, NEW p, NEW v, UNCHANGED cache
    PROVE  Published(p, v)
  BY DEF TypeOK, Published

LEMMA StorePublishes ==
    ASSUME TypeOK, NEW p \in Place, NEW K, NEW v \in Version, Store(p, K, v)
    PROVE  Published(p, v)
  <1>1. DOMAIN cache' = Place
    BY DEF TypeOK, Store
  <1>2. ASSUME NEW q \in Place, q # p
        PROVE  cache'[q] = cache[q]
    BY <1>2 DEF TypeOK, Store
  <1>3. cache'[p] = [k \in KeysOf(p[1]) |-> IF k \in K THEN v ELSE cache[p][k]]
    BY DEF TypeOK, Store
  <1>4. \A q \in Place : cache[q] \in [KeysOf(q[1]) -> Version \cup {None}]
    BY DEF TypeOK
  <1> QED
    BY <1>1, <1>2, <1>3, <1>4 DEF Published

LEMMA PublishAnchorsPublishes ==
    ASSUME TypeOK, NEW p \in Place, NEW K, NEW v \in Version,
           PublishAnchors(p, K, v)
    PROVE  Published(p, v)
  <1>1. \A q \in Place : cache[q] \in [KeysOf(q[1]) -> Version \cup {None}]
    BY DEF TypeOK
  <1> QED
    BY <1>1 DEF PublishAnchors, Published

\* A load of a guarded cache publishes nothing in a later generation.
LEMMA PublishIsGuarded ==
    ASSUME TypeOK, NEW f \in Reader, PlaceOf(f) \in Place, NEW v \in Version,
           Publish(f, v)
    PROVE  /\ Published(PlaceOf(f), v)
           /\ PlaceOf(f) \in Guarded /\ ~ IsCurrent(f) => UNCHANGED cache
  <1>1. CASE KindOf(f) = "full" \/ (KindOf(f) = "catalog" /\ IsCurrent(f))
    <2>1. Store(PlaceOf(f), ask[f].keys, v)
      BY <1>1 DEF Publish
    <2> QED
      BY <1>1, <2>1, StorePublishes, PlaceShape DEF KindOf
  <1>2. CASE KindOf(f) = "anchor" /\ IsCurrent(f)
    <2>1. PublishAnchors(PlaceOf(f), ask[f].keys, v)
      BY <1>2 DEF Publish
    <2> QED
      BY <1>2, <2>1, PublishAnchorsPublishes
  <1>3. CASE /\ ~ (KindOf(f) = "full" \/ (KindOf(f) = "catalog" /\ IsCurrent(f)))
             /\ ~ (KindOf(f) = "anchor" /\ IsCurrent(f))
    <2>1. UNCHANGED cache
      BY <1>3 DEF Publish, cacheVars
    <2> QED
      BY <2>1, NothingPublished
  <1> QED
    BY <1>1, <1>2, <1>3

\* The caches stay within their bounds.
LEMMA CacheKept ==
    ASSUME TypeOK, CacheInv, UNCHANGED floor,
           NEW p \in Place, NEW v \in Version, Published(p, v),
           p \in Guarded => \/ v \in floor[p]..version[p[2]]
                            \/ UNCHANGED cache,
           version' \in [Scope -> Version],
           \A s \in Scope : version[s] <= version'[s]
    PROVE  CacheInv'
  <1>1. \A q \in Place : /\ q[2] \in Scope
                         /\ floor[q] \in Nat /\ version[q[2]] \in Nat
                         /\ version'[q[2]] \in Nat
    BY PlaceShape, CacheBounds DEF TypeOK, Version
  <1>2. \A q \in Place : floor'[q] <= version'[q[2]]
    BY <1>1 DEF CacheInv
  <1>3. ASSUME NEW q \in Guarded, NEW k \in KeysOf(q[1]), cache'[q][k] # None
        PROVE  cache'[q][k] \in floor[q]..version[q[2]]
    <2>1. q \in Place
      BY DEF Guarded
    <2>2. CASE cache'[q][k] = cache[q][k]
      BY <1>3, <2>2 DEF CacheInv
    <2>3. CASE q = p /\ cache'[q][k] = v /\ ~ UNCHANGED cache
      BY <2>3
    <2> QED
      BY <1>3, <2>1, <2>2, <2>3 DEF Published
  <1>4. \A q \in Guarded : \A k \in KeysOf(q[1]) :
           cache'[q][k] # None => cache'[q][k] \in floor'[q]..version'[q[2]]
    <2> SUFFICES ASSUME NEW q \in Guarded, NEW k \in KeysOf(q[1]),
                        cache'[q][k] # None
                 PROVE  cache'[q][k] \in floor'[q]..version'[q[2]]
      OBVIOUS
    <2>1. q \in Place
      BY DEF Guarded
    <2> QED
      BY <1>1, <1>3, <2>1
  <1> QED
    BY <1>2, <1>4 DEF CacheInv, Guarded

-----------------------------------------------------------------------------
(* What a request asks, and what it finds *)

LEMMA AskedIsAsk ==
    ASSUME menu \in Menus, NEW a \in menu
    PROVE  /\ a \in Ask /\ a.place \in Place
           /\ a.keys # {} /\ a.keys \subseteq KeysOf(a.place[1])
  BY AsksType DEF Ask

\* The least of some versions is one of them.
LEMMA OldestIsIn ==
    ASSUME NEW V \in SUBSET Nat, V # {}
    PROVE  Oldest(V) \in V
  <1>1. PICK v \in V : \A w \in V : ~ (<<w, v>> \in OpToRel(<, Nat))
    BY NatLessThanWellFounded, WFMin
  <1>2. \A w \in V : v <= w
    <2> TAKE w \in V
    <2>1. v \in Nat /\ w \in Nat
      OBVIOUS
    <2>2. ~ (<<w, v>> \in OpToRel(<, Nat))
      BY <1>1
    <2>3. w < v => <<w, v>> \in OpToRel(<, Nat)
      BY <2>1 DEF OpToRel
    <2>4. ~ (w < v)
      BY <2>2, <2>3
    <2> QED
      BY <2>1, <2>4
  <1> QED
    BY <1>1, <1>2 DEF Oldest

LEMMA HitFindsVersion ==
    ASSUME TypeOK, CacheInv, menu \in Menus, NEW a \in menu, Missing(a) = {},
           NEW v, v = Oldest({cache[a.place][k] : k \in a.keys})
    PROVE  /\ v \in Version
           /\ a.place \in Guarded => v \in floor[a.place]..version[a.place[2]]
  <1> DEFINE V == {cache[a.place][k] : k \in a.keys}
  <1>1. /\ a.place \in Place
        /\ a.keys # {} /\ a.keys \subseteq KeysOf(a.place[1])
    BY AskedIsAsk
  <1>2. \A k \in a.keys : cache[a.place][k] # None
    BY DEF Missing
  <1>3. \A k \in a.keys : cache[a.place][k] \in Version
    BY <1>1, <1>2 DEF TypeOK
  <1>4. V \in SUBSET Nat /\ V # {}
    BY <1>1, <1>3, CacheBounds DEF Version
  <1>5. v \in V
    BY <1>4, OldestIsIn
  <1> QED
    BY <1>1, <1>2, <1>3, <1>5 DEF CacheInv

-----------------------------------------------------------------------------
(* Steps of one request *)

LEMMA SameGeneration ==
    ASSUME UNCHANGED generationVars
    PROVE  \A p : GenerationOf(p)' = GenerationOf(p)
  BY DEF generationVars, GenerationOf

\* What is said of a request outlives what leaves it alone.
Unchanged(r) ==
    /\ pc'[r] = pc[r] /\ ask'[r] = ask[r] /\ generation'[r] = generation[r]
    /\ joined'[r] = joined[r] /\ value'[r] = value[r] /\ since'[r] = since[r]

LEMMA SameRequest ==
    ASSUME NEW r, Unchanged(r), UNCHANGED generationVars
    PROVE  /\ PlaceOf(r)' = PlaceOf(r) /\ KindOf(r)' = KindOf(r)
           /\ ScopeOf(r)' = ScopeOf(r)
           /\ IsCurrent(r)' = IsCurrent(r)
           /\ IsFlight(r)' = IsFlight(r) /\ IsSingle(r)' = IsSingle(r)
  BY SameGeneration
     DEF Unchanged, PlaceOf, KindOf, ScopeOf, IsCurrent, IsFlight, IsSingle

LEMMA OthersKept ==
    ASSUME TypeOK, NEW r \in Reader, RequestInv(r), Unchanged(r),
           UNCHANGED <<generationVars, floor>>,
           version' \in [Scope -> Version],
           \A s \in Scope : version[s] <= version'[s],
           pc[r] = "waiting" =>
              /\ pc'[joined[r]] \in LoadPhase
              /\ ask'[joined[r]] = ask[joined[r]]
              /\ since'[joined[r]] = since[joined[r]]
    PROVE  RequestInv(r)'
  <1>1. CASE pc[r] = "idle"
    BY <1>1 DEF RequestInv, Unchanged
  <1>2. CASE pc[r] # "idle"
    <2>1. AskInv(r) /\ SinceInv(r) /\ ValueInv(r) /\ LoadInv(r) /\ WaitInv(r)
      BY <1>2 DEF RequestInv
    <2>2. AskInv(r)'
      BY <2>1, SameRequest DEF AskInv, Unchanged
    <2>3. SinceInv(r)'
      BY <2>1, SameRequest, SameGeneration DEF SinceInv, Unchanged
    <2>4. ValueInv(r)'
      <3>1. ScopeOf(r) \in Scope
        BY <2>1, PlaceShape DEF AskInv, Ask, ScopeOf, PlaceOf
      <3>2. /\ version[ScopeOf(r)] \in Nat /\ version'[ScopeOf(r)] \in Nat
            /\ version[ScopeOf(r)] <= version'[ScopeOf(r)]
            /\ since[r] \in Nat
        BY <3>1, CacheBounds DEF TypeOK, Version
      <3> QED
        BY <2>1, <3>2, SameRequest DEF ValueInv, Unchanged
    <2>5. LoadInv(r)'
      BY <2>1, SameRequest DEF LoadInv, Unchanged
    <2>6. WaitInv(r)'
      BY <2>1 DEF WaitInv, Unchanged, PlaceOf
    <2> QED
      BY <1>2, <2>2, <2>3, <2>4, <2>5, <2>6 DEF RequestInv, Unchanged
  <1> QED
    BY <1>1, <1>2

OnlyRequest(r) ==
    /\ pc' = [pc EXCEPT ![r] = pc'[r]]
    /\ ask' = [ask EXCEPT ![r] = ask'[r]]
    /\ generation' = [generation EXCEPT ![r] = generation'[r]]
    /\ joined' = [joined EXCEPT ![r] = joined'[r]]
    /\ value' = [value EXCEPT ![r] = value'[r]]
    /\ since' = [since EXCEPT ![r] = since'[r]]
    /\ UNCHANGED <<version, generationVars, invalidations, menu, floor>>

RequestTyped(r) ==
    /\ pc[r] \in Phase /\ ask[r] \in Ask \cup {None}
    /\ generation[r] \in Generation \cup {None}
    /\ joined[r] \in Reader \cup {None}
    /\ value[r] \in Version \cup {None} /\ since[r] \in Version

\* No other load of the same place has r's generation.
Alone(r) ==
    IsSingle(r) =>
       \A f \in Reader : pc[f] \in LoadPhase /\ PlaceOf(f) = PlaceOf(r)
                            /\ generation[f] = generation[r]
                         => f = r

LEMMA OneRequestSteps ==
    ASSUME ReadInv, NEW r \in Reader, OnlyRequest(r),
           \/ pc[r] \notin LoadPhase
           \/ /\ pc'[r] \in LoadPhase
              /\ ask'[r] = ask[r] /\ since'[r] = since[r],
           RequestTyped(r)', RequestInv(r)', Alone(r)',
           registered' \subseteq registered \cup {r},
           registered \ {r} \subseteq registered',
           r \in registered' => IsFlight(r)',
           IsSingle(r)' /\ IsCurrent(r)' => r \in registered',
           NEW p \in Place, NEW v \in Version, Published(p, v),
           p \in Guarded => \/ v \in floor[p]..version[p[2]]
                            \/ UNCHANGED cache
    PROVE  ReadInv'
  <1>1. /\ TypeOK /\ GenerationInv /\ CacheInv /\ FlightInv
        /\ OneLoadPerGeneration /\ \A q \in Reader : RequestInv(q)
    BY DEF ReadInv
  <1>2. \A q \in Reader : q # r => Unchanged(q)
    BY <1>1 DEF TypeOK, OnlyRequest, Unchanged
  <1>3. UNCHANGED <<version, generationVars, invalidations, menu, floor>>
    BY DEF OnlyRequest
  <1>4. /\ version' \in [Scope -> Version]
        /\ \A s \in Scope : version[s] <= version'[s]
    BY <1>1, <1>3, CacheBounds DEF TypeOK, Version
  <1>5. ASSUME NEW q \in Reader
        PROVE  RequestInv(q)'
    <2>1. CASE q = r
      BY <2>1
    <2>2. CASE q # r
      <3>1. pc[q] = "waiting" =>
               /\ joined[q] \in Reader /\ pc[joined[q]] \in LoadPhase
        BY <1>1 DEF TypeOK
      <3>2. pc[q] = "waiting" =>
               /\ pc'[joined[q]] \in LoadPhase
               /\ ask'[joined[q]] = ask[joined[q]]
               /\ since'[joined[q]] = since[joined[q]]
        BY <1>2, <3>1 DEF Unchanged
      <3>3. RequestInv(q) /\ Unchanged(q)
        BY <1>1, <1>2, <2>2
      <3> QED
        BY <1>1, <1>3, <1>4, <3>2, <3>3, OthersKept
    <2> QED
      BY <2>1, <2>2
  <1>6. TypeOK'
    <2>1. /\ pc' \in [Reader -> Phase] /\ ask' \in [Reader -> Ask \cup {None}]
          /\ generation' \in [Reader -> Generation \cup {None}]
          /\ joined' \in [Reader -> Reader \cup {None}]
          /\ value' \in [Reader -> Version \cup {None}]
          /\ since' \in [Reader -> Version]
      BY <1>1 DEF TypeOK, OnlyRequest, RequestTyped
    <2>2. \A q \in Reader : pc'[q] = "waiting" =>
             joined'[q] # None /\ pc'[joined'[q]] \in LoadPhase
      BY <1>5 DEF RequestInv, WaitInv
    <2>3. DOMAIN cache' = Place
          /\ \A q \in Place : cache'[q] \in [KeysOf(q[1]) -> Version \cup {None}]
      BY DEF Published
    <2>4. /\ version' \in [Scope -> Version]
          /\ globalGeneration' \in 0..MaxSafeInteger
          /\ generations' \in [Scope -> 0..MaxSafeInteger]
          /\ registered' \subseteq Reader
          /\ invalidations' \in 0..MaxInvalidations
          /\ floor' \in [Place -> Version]
      BY <1>1, <1>3 DEF TypeOK, generationVars
    <2> QED
      BY <2>1, <2>2, <2>3, <2>4 DEF TypeOK
  <1>7. menu' \in Menus /\ GenerationInv'
    BY <1>1, <1>3 DEF ReadInv, GenerationInv, generationVars
  <1>8. CacheInv'
    BY <1>1, <1>3, <1>4, CacheKept
  <1>9. FlightInv'
    <2>1. \A q \in Reader : q # r =>
             /\ IsFlight(q)' = IsFlight(q) /\ IsSingle(q)' = IsSingle(q)
             /\ IsCurrent(q)' = IsCurrent(q)
      BY <1>2, <1>3, SameRequest
    <2>2. registered \subseteq Reader
      BY <1>1 DEF TypeOK
    <2> QED
      BY <1>1, <2>1, <2>2 DEF FlightInv
  <1>10. OneLoadPerGeneration'
    <2> SUFFICES ASSUME NEW f \in Reader, NEW g \in Reader,
                        pc'[f] \in LoadPhase, pc'[g] \in LoadPhase,
                        PlaceOf(f)' = PlaceOf(g)', IsSingle(f)',
                        generation'[f] = generation'[g]
                 PROVE  f = g
      BY DEF OneLoadPerGeneration, IsSingle
    <2>1. IsSingle(g)'
      BY DEF IsSingle, KindOf
    <2>2. CASE f = r \/ g = r
      BY <2>1, <2>2 DEF Alone
    <2>3. CASE f # r /\ g # r
      BY <1>1, <1>2, <1>3, <2>3, SameRequest
         DEF OneLoadPerGeneration, IsSingle, Unchanged
    <2> QED
      BY <2>2, <2>3
  <1> QED
    BY <1>5, <1>6, <1>7, <1>8, <1>9, <1>10 DEF ReadInv

-----------------------------------------------------------------------------
(* A request is asked *)

\* A request goes on for a part of its keys.
LEMMA NarrowedAsk ==
    ASSUME NEW a \in Ask, NEW K \in SUBSET (Node \cup {None}),
           NEW b, b = [a EXCEPT !.keys = K]
    PROVE  b \in Ask /\ b.place = a.place /\ b.keys = K
  BY DEF Ask

LEMMA KeysOfAsk ==
    ASSUME NEW a \in Ask
    PROVE  a.keys \in SUBSET (Node \cup {None})
  BY DEF Ask

\* A request that begins leaves the others and what is cached alone.
LEMMA HitKeeps ==
    ASSUME ReadInv, NEW r \in Reader, NEW a \in menu, Hit(r, a)
    PROVE  ReadInv'
  <1> DEFINE v == Oldest({cache[a.place][k] : k \in a.keys})
  <1>1. /\ TypeOK /\ CacheInv /\ menu \in Menus /\ FlightInv
        /\ RequestInv(r) /\ pc[r] = "idle"
    BY DEF ReadInv, Hit, Idle
  <1>2. /\ a \in Ask /\ a.place \in Place
        /\ a.keys # {} /\ a.keys \subseteq KeysOf(a.place[1])
    BY <1>1, AskedIsAsk
  <1>3. /\ v \in Version
        /\ a.place \in Guarded => v \in floor[a.place]..version[a.place[2]]
    BY <1>1, HitFindsVersion DEF Hit
  <1>4. /\ pc'[r] = "resolved" /\ ask'[r] = a /\ value'[r] = v
        /\ since'[r] = floor[a.place]
        /\ generation'[r] = None /\ joined'[r] = None
    BY <1>1 DEF Hit, TypeOK, RequestInv
  <1> HIDE DEF v
  <1>5. OnlyRequest(r) /\ UNCHANGED <<cache, registered>>
    BY <1>1 DEF Hit, TypeOK, OnlyRequest, cacheVars
  <1>6. PlaceOf(r)' = a.place /\ KindOf(r)' = a.place[1]
        /\ ScopeOf(r)' = a.place[2]
    BY <1>4 DEF PlaceOf, KindOf, ScopeOf
  <1>7. floor' = floor /\ version' = version
    BY DEF Hit
  <1>8. floor[a.place] \in Version
    BY <1>1, <1>2 DEF TypeOK
  <1>9. RequestInv(r)'
    <2>1. AskInv(r)'
      BY <1>2, <1>4, <1>6 DEF AskInv
    <2>2. SinceInv(r)'
      BY <1>4, <1>6, <1>7, <1>8, CacheBounds DEF SinceInv, Version
    <2>3. ValueInv(r)'
      BY <1>3, <1>4, <1>6, <1>7 DEF ValueInv
    <2>4. LoadInv(r)' /\ WaitInv(r)'
      BY <1>4 DEF LoadInv, WaitInv, LoadPhase
    <2> QED
      BY <1>4, <2>1, <2>2, <2>3, <2>4 DEF RequestInv
  <1>10. ~ IsSingle(r)' /\ Alone(r)' /\ r \notin registered'
    BY <1>1, <1>4, <1>5 DEF IsSingle, Alone, LoadPhase, FlightInv, IsFlight
  <1>11. RequestTyped(r)'
    BY <1>2, <1>3, <1>4, <1>8 DEF RequestTyped, Phase
  <1>12. pc[r] \notin LoadPhase
    BY <1>1 DEF LoadPhase
  <1>13. Published(a.place, v)
    BY <1>1, <1>5, NothingPublished
  <1> QED
    BY <1>2, <1>3, <1>5, <1>9, <1>10, <1>11, <1>12, <1>13, OneRequestSteps

LEMMA JoinKeeps ==
    ASSUME ReadInv, NEW r \in Reader, NEW a \in menu, NEW f \in Reader,
           Join(r, a, f)
    PROVE  ReadInv'
  <1> DEFINE p == a.place
  <1>1. /\ TypeOK /\ menu \in Menus /\ FlightInv
        /\ RequestInv(r) /\ RequestInv(f) /\ pc[r] = "idle"
        /\ f \in registered /\ PlaceOf(f) = p
    BY DEF ReadInv, Join, Idle, CanJoin
  <1>2. a \in Ask /\ p \in Place
    BY <1>1, AskedIsAsk
  <1>3. /\ pc[f] \in LoadPhase \cup {"resolved"}
        /\ IsCurrent(f) /\ IsFlight(f)
    BY <1>1 DEF FlightInv, IsFlight
  <1>4. f # r
    BY <1>1, <1>3 DEF LoadPhase
  <1>5. AskInv(f) /\ SinceInv(f) /\ ValueInv(f)
    BY <1>1, <1>3 DEF RequestInv, LoadPhase
  <1>6. GenerationOf(p) \in Generation
    BY <1>1, <1>2, GenerationTyped
  <1>7. generation[f] = GenerationOf(p) /\ since[f] = floor[p]
    BY <1>1, <1>2, <1>3, <1>5, <1>6, GenerationIsSome, EarlierOrder
       DEF SinceInv, IsCurrent
  <1>8. /\ pc'[r] = (IF pc[f] = "resolved" THEN "resolved" ELSE "waiting")
        /\ ask'[r] = [a EXCEPT !.keys = ask[f].keys]
        /\ value'[r] = (IF pc[f] = "resolved" THEN value[f] ELSE None)
        /\ since'[r] = floor[p]
        /\ generation'[r] = GenerationOf(p) /\ joined'[r] = f
    BY <1>1 DEF Join, TypeOK
  <1>9. /\ ask'[r] \in Ask /\ ask'[r].place = p /\ ask'[r].keys = ask[f].keys
    <2>1. ask[f].keys \in SUBSET (Node \cup {None})
      BY <1>5, KeysOfAsk DEF AskInv
    <2> QED
      BY <1>2, <1>8, <2>1, NarrowedAsk
  <1>10. /\ PlaceOf(r)' = p /\ KindOf(r)' = p[1] /\ ScopeOf(r)' = p[2]
         /\ KindOf(f) = p[1] /\ ScopeOf(f) = p[2]
    BY <1>1, <1>9 DEF PlaceOf, KindOf, ScopeOf
  <1>11. OnlyRequest(r) /\ UNCHANGED <<cache, registered>>
    BY <1>1 DEF Join, TypeOK, OnlyRequest, cacheVars
  <1>12. floor' = floor /\ version' = version /\ UNCHANGED generationVars
    BY DEF Join
  <1>13. floor[p] \in Version
    BY <1>1, <1>2 DEF TypeOK
  <1>14. Unchanged(f)
    BY <1>1, <1>4, <1>11 DEF OnlyRequest, TypeOK, Unchanged
  <1>15. GenerationOf(p)' = GenerationOf(p)
    BY <1>12, SameGeneration
  <1> HIDE DEF p
  <1>16. RequestInv(r)'
    <2>1. AskInv(r)'
      BY <1>5, <1>9, <1>10 DEF AskInv
    <2>2. SinceInv(r)'
      BY <1>8, <1>10, <1>12, <1>13, <1>15, CacheBounds
         DEF SinceInv, IsCurrent, Version
    <2>3. ValueInv(r)'
      BY <1>1, <1>5, <1>7, <1>8, <1>10, <1>12 DEF ValueInv
    <2>4. LoadInv(r)'
      BY <1>8 DEF LoadInv, LoadPhase
    <2>5. WaitInv(r)'
      <3>1. pc'[r] = "waiting" => pc'[f] \in LoadPhase
        BY <1>3, <1>8, <1>14 DEF Unchanged
      <3>2. f # None
        BY NoneIsFresh
      <3>3. PlaceOf(f)' = p /\ since'[f] = floor[p]
        BY <1>1, <1>7, <1>14 DEF PlaceOf, Unchanged
      <3> QED
        BY <1>8, <1>10, <3>1, <3>2, <3>3 DEF WaitInv
    <2> QED
      BY <1>8, <2>1, <2>2, <2>3, <2>4, <2>5 DEF RequestInv
  <1>17. ~ IsSingle(r)' /\ Alone(r)' /\ r \notin registered'
    BY <1>1, <1>8, <1>11 DEF IsSingle, Alone, LoadPhase, FlightInv, IsFlight
  <1>18. RequestTyped(r)'
    BY <1>1, <1>6, <1>8, <1>9, <1>13 DEF RequestTyped, Phase, TypeOK
  <1>19. pc[r] \notin LoadPhase
    BY <1>1 DEF LoadPhase
  <1>20. 0 \in Version /\ Published(p, 0)
    BY <1>1, <1>11, NothingPublished, CacheBounds DEF Version
  <1> QED
    BY <1>2, <1>11, <1>16, <1>17, <1>18, <1>19, <1>20, OneRequestSteps

\* A load that starts is alone: another one of its generation would be in the
\* map of flights, and would have been joined.
LEMMA StartKeeps ==
    ASSUME ReadInv, NEW r \in Reader, NEW a \in menu, Start(r, a)
    PROVE  ReadInv'
  <1> DEFINE p == a.place
  <1>1. /\ TypeOK /\ menu \in Menus /\ FlightInv
        /\ RequestInv(r) /\ pc[r] = "idle" /\ Missing(a) # {}
    BY DEF ReadInv, Start, Idle
  <1>2. /\ a \in Ask /\ p \in Place
        /\ a.keys \subseteq KeysOf(p[1])
        /\ Missing(a) \subseteq a.keys
    BY <1>1, AskedIsAsk DEF Missing
  <1>3. GenerationOf(p) \in Generation /\ GenerationOf(p) # None
    BY <1>1, <1>2, GenerationTyped, GenerationIsSome
  <1>4. /\ pc'[r] = FirstPhase(p[1])
        /\ ask'[r] = [a EXCEPT !.keys = Missing(a)]
        /\ generation'[r] = GenerationOf(p)
        /\ since'[r] = floor[p]
        /\ value'[r] = None /\ joined'[r] = None
    BY <1>1 DEF Start, TypeOK, RequestInv
  <1>5. ask'[r] \in Ask /\ ask'[r].place = p /\ ask'[r].keys = Missing(a)
    BY <1>2, <1>4, NarrowedAsk, KeysOfAsk
  <1>6. PlaceOf(r)' = p /\ KindOf(r)' = p[1] /\ ScopeOf(r)' = p[2]
    BY <1>5 DEF PlaceOf, KindOf, ScopeOf
  <1>7. /\ OnlyRequest(r) /\ UNCHANGED cache
        /\ registered' = IF p[1] \in Coalesced THEN registered \cup {r}
                                               ELSE registered
    BY <1>1 DEF Start, TypeOK, OnlyRequest, cacheVars
  <1>8. floor' = floor /\ version' = version /\ UNCHANGED generationVars
    BY DEF Start
  <1>9. floor[p] \in Version
    BY <1>1, <1>2 DEF TypeOK
  <1>10. GenerationOf(p)' = GenerationOf(p)
    BY <1>8, SameGeneration
  <1>11. FirstPhase(p[1]) \in LoadPhase
    BY <1>2, FirstIsLoad
  <1>12. IsCurrent(r)'
    BY <1>4, <1>6, <1>10 DEF IsCurrent
  <1>13. ASSUME p[1] \in {"catalog", "grants"}, NEW f \in Reader, f # r,
                pc[f] \in LoadPhase, PlaceOf(f) = p,
                generation[f] = GenerationOf(p)
         PROVE  FALSE
    <2>1. IsSingle(f) /\ IsCurrent(f)
      BY <1>13 DEF IsSingle, KindOf, IsCurrent
    <2>2. f \in registered
      BY <1>1, <2>1 DEF FlightInv
    <2>3. AskInv(f)
      BY <1>13 DEF ReadInv, RequestInv, LoadPhase
    <2>4. ask[f].keys = {None} /\ Missing(a) = {None}
      <3>1. KeysOf(p[1]) = {None}
        BY <1>13 DEF KeysOf
      <3>2. /\ ask[f].keys # {} /\ ask[f].keys \subseteq {None}
            /\ Missing(a) # {} /\ Missing(a) \subseteq {None}
        BY <1>1, <1>2, <1>13, <2>3, <3>1 DEF AskInv, KindOf
      <3> QED
        BY <3>2
    <2>5. CanJoin(a, f)
      BY <1>13, <2>2, <2>4 DEF CanJoin
    <2> QED
      BY <2>5 DEF Start
  <1> HIDE DEF p
  <1>14. RequestInv(r)'
    <2>1. AskInv(r)'
      BY <1>1, <1>2, <1>5, <1>6 DEF AskInv
    <2>2. SinceInv(r)'
      BY <1>4, <1>6, <1>8, <1>9, <1>12, CacheBounds DEF SinceInv, Version
    <2>3. ValueInv(r)'
      BY <1>4 DEF ValueInv
    <2>4. LoadInv(r)'
      BY <1>3, <1>4, <1>6 DEF LoadInv
    <2>5. WaitInv(r)' /\ pc'[r] # "idle"
      BY <1>4, <1>11 DEF WaitInv, LoadPhase
    <2> QED
      BY <2>1, <2>2, <2>3, <2>4, <2>5 DEF RequestInv
  <1>15. Alone(r)'
    <2> SUFFICES ASSUME IsSingle(r)', NEW f \in Reader, f # r,
                        pc'[f] \in LoadPhase, PlaceOf(f)' = PlaceOf(r)',
                        generation'[f] = generation'[r]
                 PROVE  FALSE
      BY DEF Alone
    <2>1. Unchanged(f)
      BY <1>1, <1>7 DEF OnlyRequest, TypeOK, Unchanged
    <2>2. /\ pc[f] \in LoadPhase /\ PlaceOf(f) = p
          /\ generation[f] = GenerationOf(p)
      BY <1>4, <1>6, <2>1 DEF Unchanged, PlaceOf
    <2>3. p[1] \in {"catalog", "grants"}
      BY <1>6 DEF IsSingle
    <2> QED
      BY <1>13, <2>2, <2>3
  <1>16. r \notin registered
    BY <1>1 DEF FlightInv, IsFlight, LoadPhase
  <1>17. r \in registered' => IsFlight(r)'
    BY <1>4, <1>6, <1>7, <1>11, <1>12, <1>16 DEF IsFlight
  <1>18. IsSingle(r)' => r \in registered'
    BY <1>6, <1>7 DEF IsSingle, Coalesced
  <1>19. RequestTyped(r)'
    BY <1>3, <1>4, <1>5, <1>9, <1>11 DEF RequestTyped, Phase
  <1>20. pc[r] \notin LoadPhase
    BY <1>1 DEF LoadPhase
  <1>21. 0 \in Version /\ Published(p, 0)
    BY <1>1, <1>7, NothingPublished, CacheBounds DEF Version
  <1>22. registered' \subseteq registered \cup {r}
         /\ registered \ {r} \subseteq registered'
    BY <1>7
  <1> QED
    BY <1>2, <1>7, <1>14, <1>15, <1>17, <1>18, <1>19, <1>20, <1>21, <1>22,
       OneRequestSteps

-----------------------------------------------------------------------------
(* A load reads, and is answered *)

LEMMA ReadFindsVersion ==
    ASSUME ReadInv, NEW f \in Reader, pc[f] \in LoadPhase
    PROVE  /\ PlaceOf(f) \in Place /\ Read(f) \in Version
           /\ PlaceOf(f) \in Guarded => Read(f) \in since[f]..version[ScopeOf(f)]
  <1>1. TypeOK /\ CacheInv /\ RequestInv(f) /\ pc[f] # "idle"
    BY DEF ReadInv, LoadPhase
  <1>2. AskInv(f) /\ SinceInv(f) /\ ValueInv(f) /\ LoadInv(f)
    BY <1>1 DEF RequestInv
  <1>3. PlaceOf(f) \in Place /\ ScopeOf(f) = PlaceOf(f)[2]
    BY <1>2 DEF AskInv, Ask, PlaceOf, ScopeOf
  <1>4. version[ScopeOf(f)] \in Version /\ floor[PlaceOf(f)] \in Version
        /\ since[f] \in Version
    BY <1>1, <1>3, PlaceShape DEF TypeOK
  <1>5. CASE pc[f] = FirstPhase(KindOf(f))
    <2>1. Read(f) = version[ScopeOf(f)]
      BY <1>5 DEF Read
    <2>2. floor[PlaceOf(f)] <= version[ScopeOf(f)]
      BY <1>1, <1>3 DEF CacheInv
    <2> QED
      BY <1>2, <1>3, <1>4, <2>1, <2>2, CacheBounds DEF SinceInv, Version
  <1>6. CASE pc[f] # FirstPhase(KindOf(f))
    <2>1. Read(f) = value[f] /\ value[f] # None
      BY <1>2, <1>6 DEF Read, LoadInv
    <2> QED
      BY <1>1, <1>2, <1>3, <2>1 DEF TypeOK, ValueInv
  <1> QED
    BY <1>5, <1>6

\* An answer after which more has to be read.
LEMMA PhaseKeeps ==
    ASSUME ReadInv, NEW f \in Reader, pc[f] \in LoadPhase,
           NEW phase \in LoadPhase,
           pc' = [pc EXCEPT ![f] = phase],
           value' = [value EXCEPT ![f] = Read(f)],
           UNCHANGED <<version, generationVars, cacheVars, ask, generation,
                       joined, registered, invalidations, menu, floor, since>>
    PROVE  ReadInv'
  <1>1. /\ TypeOK /\ RequestInv(f) /\ FlightInv /\ OneLoadPerGeneration
        /\ pc[f] # "idle"
    BY DEF ReadInv, LoadPhase
  <1>2. AskInv(f) /\ SinceInv(f) /\ LoadInv(f)
    BY <1>1 DEF RequestInv
  <1>3. /\ PlaceOf(f) \in Place /\ Read(f) \in Version
        /\ PlaceOf(f) \in Guarded => Read(f) \in since[f]..version[ScopeOf(f)]
    BY ReadFindsVersion
  <1>4. Read(f) # None
    BY <1>3, NoneIsFresh, CacheBounds DEF Version
  <1>5. /\ pc'[f] = phase /\ value'[f] = Read(f)
        /\ ask' = ask /\ generation' = generation /\ joined' = joined
        /\ since' = since /\ version' = version /\ floor' = floor
        /\ UNCHANGED generationVars
    BY <1>1 DEF TypeOK
  <1>6. /\ PlaceOf(f)' = PlaceOf(f) /\ KindOf(f)' = KindOf(f)
        /\ ScopeOf(f)' = ScopeOf(f) /\ IsCurrent(f)' = IsCurrent(f)
    BY <1>5, SameGeneration DEF PlaceOf, KindOf, ScopeOf, IsCurrent
  <1>7. OnlyRequest(f) /\ UNCHANGED cache
    BY <1>1, <1>5 DEF TypeOK, OnlyRequest, cacheVars
  <1>8. RequestInv(f)'
    <2>1. AskInv(f)' /\ SinceInv(f)'
      BY <1>2, <1>5, <1>6, SameGeneration DEF AskInv, SinceInv
    <2>2. ValueInv(f)'
      BY <1>3, <1>5, <1>6 DEF ValueInv
    <2>3. LoadInv(f)'
      BY <1>2, <1>4, <1>5 DEF LoadInv
    <2>4. WaitInv(f)' /\ pc'[f] # "idle"
      BY <1>5 DEF WaitInv, LoadPhase
    <2> QED
      BY <2>1, <2>2, <2>3, <2>4 DEF RequestInv
  <1>9. Alone(f)'
    <2> SUFFICES ASSUME IsSingle(f)', NEW g \in Reader, g # f,
                        pc'[g] \in LoadPhase, PlaceOf(g)' = PlaceOf(f)',
                        generation'[g] = generation'[f]
                 PROVE  FALSE
      BY DEF Alone
    <2>1. pc[g] \in LoadPhase /\ PlaceOf(g) = PlaceOf(f)
      BY <1>1, <1>5, <1>6 DEF TypeOK, PlaceOf
    <2>2. KindOf(f) \in {"catalog", "grants"}
      BY <1>6 DEF IsSingle
    <2> QED
      BY <1>1, <1>5, <2>1, <2>2 DEF OneLoadPerGeneration
  <1>10. f \in registered' => IsFlight(f)'
    BY <1>1, <1>5, <1>6 DEF FlightInv, IsFlight
  <1>11. IsSingle(f)' /\ IsCurrent(f)' => f \in registered'
    BY <1>1, <1>6 DEF FlightInv, IsSingle
  <1>12. RequestTyped(f)'
    BY <1>1, <1>3, <1>5 DEF RequestTyped, TypeOK, Phase
  <1>13. Published(PlaceOf(f), Read(f))
    BY <1>1, <1>7, NothingPublished
  <1>14. pc'[f] \in LoadPhase /\ ask'[f] = ask[f] /\ since'[f] = since[f]
    BY <1>5
  <1>15. registered' = registered
    OBVIOUS
  <1> QED
    BY <1>3, <1>7, <1>8, <1>9, <1>10, <1>11, <1>12, <1>13, <1>14, <1>15,
       OneRequestSteps

\* All who wait are answered with the load.
LEMMA ServedAlike ==
    ASSUME ReadInv, NEW f \in Reader, pc[f] \in LoadPhase,
           NEW r \in Served(f)
    PROVE  /\ r \in Reader /\ pc[r] \notin {"idle", "resolved"}
           /\ PlaceOf(r) = PlaceOf(f) /\ ScopeOf(r) = ScopeOf(f)
           /\ since[r] = since[f]
  <1>1. CASE r = f
    BY <1>1 DEF LoadPhase
  <1>2. CASE r # f
    <2>1. r \in Reader /\ pc[r] = "waiting" /\ joined[r] = f
      BY <1>2 DEF Served
    <2>2. WaitInv(r)
      BY <2>1 DEF ReadInv, RequestInv
    <2> QED
      BY <2>1, <2>2 DEF WaitInv, ScopeOf
  <1> QED
    BY <1>1, <1>2

LEMMA ResolveKeeps ==
    ASSUME ReadInv, NEW f \in Reader, pc[f] \in LoadPhase,
           NEW v \in Version \cup {None}, Resolve(f, v),
           PlaceOf(f) \in Guarded /\ v # None =>
              v \in since[f]..version[ScopeOf(f)],
           UNCHANGED <<version, generationVars, ask, generation, joined,
                       registered, invalidations, menu, floor, since>>,
           NEW p \in Place, NEW w \in Version, Published(p, w), CacheInv'
    PROVE  ReadInv'
  <1>1. /\ TypeOK /\ GenerationInv /\ FlightInv /\ OneLoadPerGeneration
        /\ \A r \in Reader : RequestInv(r)
    BY DEF ReadInv
  <1>2. /\ ask' = ask /\ generation' = generation /\ joined' = joined
        /\ since' = since /\ version' = version /\ floor' = floor
        /\ registered' = registered /\ UNCHANGED generationVars
    OBVIOUS
  <1>3. \A r \in Reader : /\ PlaceOf(r)' = PlaceOf(r)
                          /\ KindOf(r)' = KindOf(r)
                          /\ ScopeOf(r)' = ScopeOf(r)
                          /\ IsCurrent(r)' = IsCurrent(r)
    BY <1>2, SameGeneration DEF PlaceOf, KindOf, ScopeOf, IsCurrent
  <1>4. \A r \in Reader :
           IF r \in Served(f)
           THEN pc'[r] = "resolved" /\ value'[r] = v
           ELSE pc'[r] = pc[r] /\ value'[r] = value[r]
    BY DEF Resolve
  <1>5. ASSUME NEW r \in Reader
        PROVE  RequestInv(r)'
    <2>1. CASE r \in Served(f)
      <3>1. /\ pc[r] # "idle" /\ PlaceOf(r) = PlaceOf(f)
            /\ ScopeOf(r) = ScopeOf(f) /\ since[r] = since[f]
        BY <2>1, ServedAlike
      <3>2. AskInv(r) /\ SinceInv(r)
        BY <1>1, <3>1 DEF RequestInv
      <3>3. AskInv(r)' /\ SinceInv(r)'
        BY <1>2, <1>3, <3>2, SameGeneration DEF AskInv, SinceInv
      <3>4. ValueInv(r)'
        BY <1>2, <1>3, <1>4, <2>1, <3>1 DEF ValueInv
      <3>5. LoadInv(r)' /\ WaitInv(r)' /\ pc'[r] # "idle"
        BY <1>4, <2>1 DEF LoadInv, WaitInv, LoadPhase
      <3> QED
        BY <3>3, <3>4, <3>5 DEF RequestInv
    <2>2. CASE r \notin Served(f)
      <3>1. Unchanged(r)
        BY <1>2, <1>4, <2>2 DEF Unchanged
      <3>2. pc[r] = "waiting" =>
               joined[r] \in Reader /\ joined[r] \notin Served(f)
        <4> SUFFICES ASSUME pc[r] = "waiting"
                     PROVE  joined[r] \in Reader /\ joined[r] \notin Served(f)
          OBVIOUS
        <4>1. joined[r] \in Reader /\ pc[joined[r]] \in LoadPhase
          BY <1>1 DEF TypeOK
        <4>2. joined[r] # f
          BY <2>2 DEF Served
        <4> QED
          BY <4>1, <4>2 DEF Served, LoadPhase
      <3>3. pc[r] = "waiting" =>
               /\ pc'[joined[r]] \in LoadPhase
               /\ ask'[joined[r]] = ask[joined[r]]
               /\ since'[joined[r]] = since[joined[r]]
        <4>1. pc[r] = "waiting" => pc[joined[r]] \in LoadPhase
          BY <1>1 DEF TypeOK
        <4> QED
          BY <1>2, <1>4, <3>2, <4>1
      <3>4. /\ version' \in [Scope -> Version]
            /\ \A s \in Scope : version[s] <= version'[s]
        BY <1>1, <1>2, CacheBounds DEF TypeOK, Version
      <3> QED
        BY <1>1, <1>2, <3>1, <3>3, <3>4, OthersKept
    <2> QED
      BY <2>1, <2>2
  <1>6. TypeOK'
    <2>1. pc' \in [Reader -> Phase] /\ value' \in [Reader -> Version \cup {None}]
      BY <1>1 DEF TypeOK, Resolve, Phase
    <2>2. \A q \in Reader : pc'[q] = "waiting" =>
             joined'[q] # None /\ pc'[joined'[q]] \in LoadPhase
      BY <1>5 DEF RequestInv, WaitInv
    <2>3. DOMAIN cache' = Place
          /\ \A q \in Place : cache'[q] \in [KeysOf(q[1]) -> Version \cup {None}]
      BY DEF Published
    <2> QED
      BY <1>1, <2>1, <2>2, <2>3 DEF TypeOK, generationVars
  <1>7. menu' \in Menus /\ GenerationInv'
    BY <1>1 DEF ReadInv, GenerationInv, generationVars
  <1>8. \A r \in Reader :
           /\ IsFlight(r) => IsFlight(r)'
           /\ IsSingle(r)' => IsSingle(r)
           /\ pc'[r] \in LoadPhase => pc[r] \in LoadPhase
    BY <1>2, <1>3, <1>4 DEF IsFlight, IsSingle, LoadPhase
  <1>9. FlightInv'
    BY <1>1, <1>2, <1>3, <1>8 DEF FlightInv, TypeOK
  <1>10. OneLoadPerGeneration'
    BY <1>1, <1>2, <1>3, <1>8 DEF OneLoadPerGeneration
  <1> QED
    BY <1>5, <1>6, <1>7, <1>9, <1>10 DEF ReadInv

LEMMA AnswerKeeps ==
    ASSUME ReadInv, NEW f \in Reader, Answer(f)
    PROVE  ReadInv'
  <1> DEFINE phase == NextPhase(KindOf(f), pc[f], Read(f))
  <1>1. pc[f] \in LoadPhase /\ TypeOK /\ CacheInv
    BY DEF Answer, ReadInv
  <1>2. /\ PlaceOf(f) \in Place /\ Read(f) \in Version
        /\ PlaceOf(f) \in Guarded => Read(f) \in since[f]..version[ScopeOf(f)]
    BY <1>1, ReadFindsVersion
  <1>3. CASE phase = "resolved"
    <2>1. Resolve(f, Read(f)) /\ Publish(f, Read(f))
      BY <1>3 DEF Answer
    <2>2. /\ Published(PlaceOf(f), Read(f))
          /\ PlaceOf(f) \in Guarded /\ ~ IsCurrent(f) => UNCHANGED cache
      BY <1>1, <1>2, <2>1, PublishIsGuarded
    <2>3. IsCurrent(f) => since[f] = floor[PlaceOf(f)]
      <3>1. SinceInv(f) /\ generation[f] # None
        BY <1>1 DEF ReadInv, RequestInv, LoadInv, LoadPhase
      <3>2. GenerationOf(PlaceOf(f)) \in Generation
        BY <1>1, <1>2, GenerationTyped
      <3> QED
        BY <3>1, <3>2, EarlierOrder DEF SinceInv, IsCurrent
    <2>4. UNCHANGED <<version, generationVars, ask, generation, joined,
                      registered, invalidations, menu, floor, since>>
      BY DEF Answer
    <2>5. /\ version' \in [Scope -> Version]
          /\ \A s \in Scope : version[s] <= version'[s]
      BY <1>1, <2>4, CacheBounds DEF TypeOK, Version
    <2>6. CacheInv'
      <3>1. PlaceOf(f) \in Guarded =>
               \/ Read(f) \in floor[PlaceOf(f)]..version[PlaceOf(f)[2]]
               \/ UNCHANGED cache
        BY <1>2, <2>2, <2>3 DEF ScopeOf
      <3> QED
        BY <1>1, <1>2, <2>2, <2>4, <2>5, <3>1, CacheKept
    <2> QED
      BY <1>1, <1>2, <2>1, <2>2, <2>4, <2>6, ResolveKeeps
  <1>4. CASE phase # "resolved"
    <2>1. phase \in LoadPhase
      BY <1>4, NextIsPhase
    <2> QED
      BY <1>1, <1>4, <2>1, PhaseKeeps DEF Answer
  <1> QED
    BY <1>3, <1>4

LEMMA FailKeeps ==
    ASSUME ReadInv, NEW f \in Reader, Fail(f)
    PROVE  ReadInv'
  <1>1. /\ TypeOK /\ CacheInv /\ pc[f] \in LoadPhase /\ Resolve(f, None)
        /\ UNCHANGED cache
    BY DEF Fail, ReadInv, cacheVars
  <1>2. PlaceOf(f) \in Place
    BY <1>1, ReadFindsVersion
  <1>3. 0 \in Version /\ Published(PlaceOf(f), 0)
    BY <1>1, NothingPublished, CacheBounds DEF Version
  <1>4. CacheInv'
    BY <1>1 DEF Fail, CacheInv
  <1> QED
    BY <1>1, <1>2, <1>3, <1>4, ResolveKeeps DEF Fail

LEMMA ReturnKeeps ==
    ASSUME ReadInv, NEW r \in Reader, Return(r)
    PROVE  ReadInv'
  <1>1. /\ TypeOK /\ FlightInv /\ RequestInv(r) /\ pc[r] = "resolved"
    BY DEF ReadInv, Return
  <1>2. AskInv(r) /\ SinceInv(r) /\ ValueInv(r) /\ PlaceOf(r) \in Place
    BY <1>1 DEF RequestInv, AskInv, Ask, PlaceOf
  <1>3. /\ pc'[r] = "idle" /\ ask'[r] = None /\ generation'[r] = None
        /\ joined'[r] = None /\ value'[r] = None /\ since'[r] = 0
    BY <1>1 DEF Return, TypeOK
  <1>4. OnlyRequest(r)
    BY <1>1 DEF Return, TypeOK, OnlyRequest
  <1>5. RequestInv(r)' /\ RequestTyped(r)' /\ ~ IsSingle(r)' /\ Alone(r)'
    BY <1>3, CacheBounds
       DEF RequestInv, RequestTyped, IsSingle, Alone, LoadPhase, Phase, Version
  <1>6. /\ registered' \subseteq registered /\ registered \ {r} \subseteq registered'
        /\ r \notin registered'
    BY <1>1 DEF Return, Unregister, FlightInv, IsFlight
  <1>7. PICK v \in Version :
           /\ Published(PlaceOf(r), v)
           /\ PlaceOf(r) \in Guarded =>
                 \/ v \in floor[PlaceOf(r)]..version[PlaceOf(r)[2]]
                 \/ UNCHANGED cache
    <2>1. CASE /\ KindOf(r) = "grants" /\ value[r] # None
               /\ generation[r] # None /\ IsCurrent(r)
      <3>1. value[r] \in Version /\ Store(PlaceOf(r), ask[r].keys, value[r])
        BY <1>1, <2>1 DEF Return, TypeOK
      <3>2. GenerationOf(PlaceOf(r)) \in Generation
        BY <1>1, <1>2, GenerationTyped
      <3>3. since[r] = floor[PlaceOf(r)]
        BY <1>2, <2>1, <3>2, EarlierOrder DEF SinceInv, IsCurrent
      <3> QED
        BY <1>1, <1>2, <2>1, <3>1, <3>3, StorePublishes DEF ValueInv, ScopeOf
    <2>2. CASE ~ (/\ KindOf(r) = "grants" /\ value[r] # None
                  /\ generation[r] # None /\ IsCurrent(r))
      <3>1. UNCHANGED cache
        BY <2>2 DEF Return, cacheVars
      <3>2. 0 \in Version /\ Published(PlaceOf(r), 0)
        BY <1>1, <3>1, NothingPublished, CacheBounds DEF Version
      <3> QED
        BY <3>1, <3>2
    <2> QED
      BY <2>1, <2>2
  <1>8. pc[r] \notin LoadPhase
    BY <1>1 DEF LoadPhase
  <1> QED
    BY <1>2, <1>4, <1>5, <1>6, <1>7, <1>8, OneRequestSteps

-----------------------------------------------------------------------------
(* Time passes, and things change, while requests are in progress *)

LEMMA QuietStep ==
    ASSUME ReadInv, UNCHANGED <<generationVars, requestVars, registered,
                                invalidations, menu, floor, since>>,
           version' \in [Scope -> Version],
           \A s \in Scope : version[s] <= version'[s],
           NEW p \in Place, NEW v \in Version, Published(p, v), CacheInv'
    PROVE  ReadInv'
  <1>1. /\ TypeOK /\ GenerationInv /\ FlightInv /\ OneLoadPerGeneration
        /\ \A r \in Reader : RequestInv(r)
    BY DEF ReadInv
  <1>2. /\ pc' = pc /\ ask' = ask /\ generation' = generation
        /\ joined' = joined /\ value' = value /\ since' = since
        /\ registered' = registered /\ UNCHANGED <<generationVars, floor>>
    BY DEF requestVars
  <1>3. \A r \in Reader : Unchanged(r)
    BY <1>2 DEF Unchanged
  <1>4. ASSUME NEW r \in Reader
        PROVE  RequestInv(r)'
    <2>1. pc[r] = "waiting" => pc'[joined[r]] \in LoadPhase
      BY <1>1, <1>2 DEF TypeOK
    <2> QED
      BY <1>1, <1>2, <1>3, <2>1, OthersKept
  <1>5. TypeOK'
    <2>1. DOMAIN cache' = Place
          /\ \A q \in Place : cache'[q] \in [KeysOf(q[1]) -> Version \cup {None}]
      BY DEF Published
    <2> QED
      BY <1>1, <1>2, <2>1 DEF TypeOK, generationVars
  <1>6. menu' \in Menus /\ GenerationInv'
    BY <1>1 DEF ReadInv, GenerationInv, generationVars
  <1>7. \A r \in Reader :
           /\ IsFlight(r)' = IsFlight(r) /\ IsSingle(r)' = IsSingle(r)
           /\ IsCurrent(r)' = IsCurrent(r)
           /\ PlaceOf(r)' = PlaceOf(r) /\ KindOf(r)' = KindOf(r)
    BY <1>2, <1>3, SameRequest
  <1>8. FlightInv' /\ OneLoadPerGeneration'
    BY <1>1, <1>2, <1>7 DEF FlightInv, OneLoadPerGeneration, TypeOK
  <1> QED
    BY <1>4, <1>5, <1>6, <1>8 DEF ReadInv

LEMMA ChangeKeeps ==
    ASSUME ReadInv, NEW s \in Scope, Change(s)
    PROVE  ReadInv'
  <1>1. TypeOK /\ CacheInv /\ UNCHANGED <<cache, floor>>
    BY DEF ReadInv, Change, cacheVars
  <1>2. /\ version' \in [Scope -> Version]
        /\ \A t \in Scope : version[t] <= version'[t]
    BY <1>1, CacheBounds DEF Change, TypeOK, Version
  <1>3. PICK p : p \in Place
    <2>1. CASE s \in Repository
      <3>1. <<"catalog", s>> \in Place
        BY <2>1 DEF Place
      <3> QED
        BY <3>1
    <2>2. CASE s \in Installation
      <3>1. <<"grants", s>> \in Place
        BY <2>2 DEF Place
      <3> QED
        BY <3>1
    <2> QED
      BY <2>1, <2>2 DEF Scope
  <1>4. 0 \in Version /\ Published(p, 0)
    BY <1>1, NothingPublished, CacheBounds DEF Version
  <1>5. CacheInv'
    BY <1>1, <1>2, <1>3, <1>4, CacheKept
  <1> QED
    BY <1>2, <1>3, <1>4, <1>5, QuietStep DEF Change

LEMMA ExpireKeeps ==
    ASSUME ReadInv, NEW p \in Place, NEW k \in KeysOf(p[1]), Expire(p, k)
    PROVE  ReadInv'
  <1>1. TypeOK /\ CacheInv /\ UNCHANGED <<version, floor>>
    BY DEF ReadInv, Expire
  <1>2. /\ version' \in [Scope -> Version]
        /\ \A t \in Scope : version[t] <= version'[t]
    BY <1>1, CacheBounds DEF TypeOK, Version
  <1>3. /\ DOMAIN cache' = Place
        /\ cache'[p] = [cache[p] EXCEPT ![k] = None]
        /\ \A q \in Place : q # p => cache'[q] = cache[q]
    BY <1>1 DEF Expire, TypeOK
  <1>4. \A q \in Place : cache[q] \in [KeysOf(q[1]) -> Version \cup {None}]
    BY <1>1 DEF TypeOK
  <1>5. ASSUME NEW v \in Version
        PROVE  Published(p, v)
    <2> SUFFICES ASSUME NEW q \in Place
                 PROVE  /\ cache'[q] \in [KeysOf(q[1]) -> Version \cup {None}]
                        /\ \A l \in KeysOf(q[1]) :
                              cache'[q][l] \in {None, cache[q][l]}
      BY <1>3 DEF Published
    <2>1. CASE q = p
      BY <1>3, <1>4, <2>1
    <2>2. CASE q # p
      BY <1>3, <1>4, <2>2
    <2> QED
      BY <2>1, <2>2
  <1>6. cache[p][k] \in Version /\ Published(p, cache[p][k])
    BY <1>4, <1>5 DEF Expire
  <1>7. p \in Guarded => cache[p][k] \in floor[p]..version[p[2]]
    BY <1>1 DEF CacheInv, Expire
  <1>8. CacheInv'
    BY <1>1, <1>2, <1>6, <1>7, CacheKept
  <1> QED
    BY <1>2, <1>6, <1>8, QuietStep DEF Expire

-----------------------------------------------------------------------------
(* Invalidations, while requests are in progress *)

LEMMA InvalidationKeeps ==
    ASSUME ReadInv, NEW P, Invalidates(P)
    PROVE  ReadInv'
  <1>1. /\ TypeOK /\ CacheInv /\ FlightInv /\ OneLoadPerGeneration
        /\ \A r \in Reader : RequestInv(r)
    BY DEF ReadInv
  <1>2. /\ version' = version /\ pc' = pc /\ ask' = ask
        /\ generation' = generation /\ joined' = joined /\ value' = value
        /\ since' = since /\ menu' = menu
        /\ registered' = registered \ Dropped(P)
        /\ invalidations' \in 0..MaxInvalidations
    BY <1>1, CacheBounds DEF Invalidates, Forget, requestVars, TypeOK
  <1>3. /\ cache' = [p \in Place |->
                       IF p \in P THEN [k \in KeysOf(p[1]) |-> None]
                                  ELSE cache[p]]
        /\ floor' = [p \in Place |-> IF p \in P THEN version[p[2]]
                                                ELSE floor[p]]
    BY DEF Invalidates, Forget
  <1>4. \A p \in Place : /\ version[p[2]] \in Version
                         /\ floor[p] \in Version /\ floor[p] <= version[p[2]]
    BY <1>1, PlaceShape DEF TypeOK, CacheInv
  <1>5. \A p \in Place :
           /\ floor'[p] \in Version
           /\ floor[p] <= floor'[p] /\ floor'[p] <= version[p[2]]
           /\ p \notin P => floor'[p] = floor[p]
    BY <1>3, <1>4, CacheBounds DEF Version
  <1>6. \A r \in Reader : /\ PlaceOf(r)' = PlaceOf(r)
                          /\ KindOf(r)' = KindOf(r)
                          /\ ScopeOf(r)' = ScopeOf(r)
    BY <1>2 DEF PlaceOf, KindOf, ScopeOf
  <1>7. TypeOK'
    <2>1. DOMAIN cache' = Place
          /\ \A p \in Place : cache'[p] \in [KeysOf(p[1]) -> Version \cup {None}]
      BY <1>1, <1>3 DEF TypeOK
    <2>2. floor' \in [Place -> Version]
      BY <1>3, <1>5
    <2> QED
      BY <1>1, <1>2, <2>1, <2>2 DEF TypeOK, Invalidates
  <1>8. CacheInv'
    <2>1. ASSUME NEW p \in Guarded, NEW k \in KeysOf(p[1]), cache'[p][k] # None
          PROVE  cache'[p][k] \in floor'[p]..version[p[2]]
      <3>1. p \in Place
        BY DEF Guarded
      <3>2. p \notin P /\ cache'[p] = cache[p]
        BY <1>3, <2>1, <3>1
      <3> QED
        BY <1>1, <1>5, <2>1, <3>1, <3>2 DEF CacheInv
    <2> QED
      BY <1>2, <1>5, <2>1 DEF CacheInv, Guarded
  <1>9. ASSUME NEW r \in Reader, pc[r] # "idle"
        PROVE  /\ AskInv(r) /\ SinceInv(r) /\ ValueInv(r) /\ LoadInv(r)
               /\ WaitInv(r) /\ PlaceOf(r) \in Place
    BY <1>1, <1>9 DEF RequestInv, AskInv, Ask, PlaceOf
  <1>10. ASSUME NEW r \in Reader, generation[r] # None, pc[r] # "idle"
         PROVE  IF PlaceOf(r) \in P
                THEN Earlier(generation[r], GenerationOf(PlaceOf(r))')
                     /\ generation[r] # GenerationOf(PlaceOf(r))'
                ELSE GenerationOf(PlaceOf(r))' = GenerationOf(PlaceOf(r))
    <2>1. PlaceOf(r) \in Place /\ SinceInv(r)
      BY <1>9, <1>10
    <2>2. /\ generation[r] \in Generation
          /\ GenerationOf(PlaceOf(r)) \in Generation
      BY <1>1, <1>10, <2>1, GenerationTyped DEF TypeOK
    <2>3. GenerationOf(PlaceOf(r))' \in Generation
      <3>1. /\ PlaceOf(r)[2] \in Scope
            /\ InstallationAt(PlaceOf(r)[2]) \in Scope
        BY <2>1, PlaceShape, InstallationOfScope
      <3> QED
        BY <1>2, <1>7, <3>1, CacheBounds
           DEF GenerationOf, Generation, TypeOK, PlaceOf
    <2>4. CASE PlaceOf(r) \in P
      <3>1. Earlier(GenerationOf(PlaceOf(r)), GenerationOf(PlaceOf(r))')
        BY <1>2, <2>1, <2>4 DEF Invalidates, PlaceOf
      <3>2. \/ Earlier(generation[r], GenerationOf(PlaceOf(r)))
            \/ generation[r] = GenerationOf(PlaceOf(r))
        BY <1>10, <2>1 DEF SinceInv, IsCurrent
      <3>3. Earlier(generation[r], GenerationOf(PlaceOf(r))')
        BY <2>2, <2>3, <3>1, <3>2, EarlierOrder
      <3> QED
        BY <2>3, <2>4, <3>3, EarlierOrder
    <2>5. CASE PlaceOf(r) \notin P
      BY <1>2, <2>1, <2>5 DEF Invalidates, PlaceOf
    <2> QED
      BY <2>4, <2>5
  <1>11. ASSUME NEW r \in Reader
         PROVE  RequestInv(r)'
    <2>1. CASE pc[r] = "idle"
      BY <1>1, <1>2, <2>1 DEF RequestInv
    <2>2. CASE pc[r] # "idle"
      <3>1. AskInv(r)' /\ ValueInv(r)'
        BY <1>2, <1>6, <1>9, <2>2 DEF AskInv, ValueInv
      <3>2. LoadInv(r)' /\ WaitInv(r)'
        BY <1>1, <1>2, <1>6, <1>9, <2>2 DEF LoadInv, WaitInv, PlaceOf
      <3>3. SinceInv(r)'
        <4>1. SinceInv(r) /\ PlaceOf(r) \in Place
          BY <1>9, <2>2
        <4>2. since'[r] <= floor'[PlaceOf(r)]
          BY <1>1, <1>2, <1>4, <1>5, <4>1, CacheBounds
             DEF SinceInv, TypeOK, Version
        <4>3. generation'[r] # None =>
                 \/ Earlier(generation'[r], GenerationOf(PlaceOf(r))')
                 \/ /\ generation'[r] = GenerationOf(PlaceOf(r))'
                    /\ since'[r] = floor'[PlaceOf(r)]
          BY <1>2, <1>5, <1>10, <2>2, <4>1 DEF SinceInv, IsCurrent
        <4> QED
          BY <1>6, <4>2, <4>3 DEF SinceInv, IsCurrent
      <3> QED
        BY <1>2, <2>2, <3>1, <3>2, <3>3 DEF RequestInv
    <2> QED
      BY <2>1, <2>2
  <1>12. FlightInv'
    <2>1. ASSUME NEW f \in registered'
          PROVE  IsFlight(f)'
      <3>1. f \in Reader /\ f \in registered /\ PlaceOf(f) \notin P
        BY <1>1, <1>2, <2>1 DEF TypeOK, Dropped
      <3>2. IsFlight(f) /\ pc[f] # "idle"
        BY <1>1, <3>1 DEF FlightInv, IsFlight, LoadPhase
      <3>3. PlaceOf(f) \in Place
        BY <1>9, <3>1, <3>2
      <3>4. GenerationOf(PlaceOf(f))' = GenerationOf(PlaceOf(f))
        BY <1>2, <3>1, <3>3 DEF Invalidates, PlaceOf
      <3> QED
        BY <1>2, <1>6, <3>1, <3>2, <3>4 DEF IsFlight, IsCurrent
    <2>2. ASSUME NEW f \in Reader, IsSingle(f)', IsCurrent(f)'
          PROVE  f \in registered'
      <3>1. IsSingle(f) /\ pc[f] # "idle" /\ pc[f] \in LoadPhase
        BY <1>2, <1>6, <2>2 DEF IsSingle, LoadPhase
      <3>2. generation[f] # None
        BY <1>9, <3>1 DEF LoadInv
      <3>3. generation[f] = GenerationOf(PlaceOf(f))'
        BY <1>2, <2>2 DEF IsCurrent
      <3>4. PlaceOf(f) \notin P /\ IsCurrent(f)
        BY <1>10, <3>1, <3>2, <3>3 DEF IsCurrent
      <3> QED
        BY <1>1, <1>2, <3>1, <3>4 DEF FlightInv, Dropped
    <2> QED
      BY <2>1, <2>2 DEF FlightInv
  <1>13. OneLoadPerGeneration'
    BY <1>1, <1>2, <1>6 DEF OneLoadPerGeneration
  <1> QED
    BY <1>2, <1>7, <1>8, <1>11, <1>12, <1>13 DEF ReadInv, Invalidates

-----------------------------------------------------------------------------
(* The theorems *)

\* An invalidation is of some places.
LEMMA EveryInvalidation ==
    ASSUME TypeOK, GenerationInv,
           \/ InvalidateAll
           \/ \E i \in Installation : InvalidateInstallation(i)
           \/ \E s \in Repository : InvalidateRepository(s)
    PROVE  \E P : Invalidates(P)
  <1>1. CASE InvalidateAll
    BY <1>1, AllInvalidated
  <1>2. CASE \E i \in Installation : InvalidateInstallation(i)
    BY <1>2, InstallationInvalidated
  <1>3. CASE \E s \in Repository : InvalidateRepository(s)
    BY <1>3, RepositoryInvalidated
  <1> QED
    BY <1>1, <1>2, <1>3

LEMMA ReadInvInit == Init => ReadInv
  <1> SUFFICES ASSUME Init
               PROVE  ReadInv
    OBVIOUS
  <1>1. 0 \in Version /\ 0 \in 0..MaxSafeInteger /\ 0 \in 0..MaxInvalidations
    BY CacheBounds DEF Version
  <1>2. \A p \in Place : p[2] \in Scope
    BY PlaceShape
  <1>3. TypeOK
    BY <1>1 DEF Init, TypeOK, Phase
  <1>4. GenerationInv
    BY <1>1 DEF Init, GenerationInv
  <1>5. CacheInv
    BY <1>2 DEF Init, CacheInv, Guarded
  <1>6. \A r \in Reader : RequestInv(r)
    BY DEF Init, RequestInv
  <1>7. FlightInv /\ OneLoadPerGeneration
    BY DEF Init, FlightInv, OneLoadPerGeneration, IsSingle, LoadPhase
  <1> QED
    BY <1>3, <1>4, <1>5, <1>6, <1>7 DEF Init, ReadInv

LEMMA ReadInvInductive == ReadInv /\ [Next]_vars => ReadInv'
  <1> SUFFICES ASSUME ReadInv, [Next]_vars
               PROVE  ReadInv'
    OBVIOUS
  <1>1. CASE \E r \in Reader, a \in menu :
                Hit(r, a) \/ Start(r, a) \/ \E f \in Reader : Join(r, a, f)
    BY <1>1, HitKeeps, StartKeeps, JoinKeeps
  <1>2. CASE \E r \in Reader : Answer(r) \/ Fail(r) \/ Return(r)
    BY <1>2, AnswerKeeps, FailKeeps, ReturnKeeps
  <1>3. CASE \E s \in Scope : Change(s)
    BY <1>3, ChangeKeeps
  <1>4. CASE \E p \in Place : \E k \in KeysOf(p[1]) : Expire(p, k)
    BY <1>4, ExpireKeeps
  <1>5. CASE \/ InvalidateAll
             \/ \E i \in Installation : InvalidateInstallation(i)
             \/ \E s \in Repository : InvalidateRepository(s)
    BY <1>5, EveryInvalidation, InvalidationKeeps DEF ReadInv
  <1>6. CASE UNCHANGED vars
    BY <1>6 DEF vars, generationVars, cacheVars, requestVars, ReadInv, TypeOK,
       GenerationInv, CacheInv, Guarded, RequestInv, AskInv, SinceInv, ValueInv,
       LoadInv, WaitInv, FlightInv, IsFlight, IsSingle, OneLoadPerGeneration,
       PlaceOf, KindOf, ScopeOf, IsCurrent, GenerationOf
  <1> QED
    BY <1>1, <1>2, <1>3, <1>4, <1>5, <1>6 DEF Next

\* What the caches, the requests and the flights know of each other holds for
\* ever: the theorems below take their part of it.
THEOREM ReadInvariant == Spec => []ReadInv
  BY ReadInvInit, ReadInvInductive, PTL DEF Spec

\* The caches, requests and flights keep their shapes, no generation grows
\* beyond what a counter holds, and a request waits for a load in progress.
THEOREM ReadTypes == Spec => []TypeOK
  <1>1. ReadInv => TypeOK
    BY DEF ReadInv
  <1> QED
    BY <1>1, ReadInvariant, PTL

\* However loads, publications and invalidations interleave, no guarded cache
\* holds what an invalidation of its place has dropped.
THEOREM InvalidatedStaysAway == Spec => []CacheFollowsInvalidation
  <1>1. ReadInv => CacheFollowsInvalidation
    <2> SUFFICES ASSUME ReadInv, NEW p \in Guarded, NEW k \in KeysOf(p[1]),
                        cache[p][k] # None
                 PROVE  cache[p][k] >= floor[p]
      BY DEF CacheFollowsInvalidation
    <2>1. cache[p][k] \in floor[p]..version[p[2]]
      BY DEF ReadInv, CacheInv
    <2>2. floor[p] \in Nat /\ version[p[2]] \in Nat
      BY PlaceShape, CacheBounds DEF ReadInv, TypeOK, Version, Guarded
    <2> QED
      BY <2>1, <2>2
  <1> QED
    BY <1>1, ReadInvariant, PTL

\* Any number of requests for a catalog, or for the grants of an installation,
\* share one load per generation.
THEOREM LoadsAreShared == Spec => []OneLoadPerGeneration
  <1>1. ReadInv => OneLoadPerGeneration
    BY DEF ReadInv
  <1> QED
    BY <1>1, ReadInvariant, PTL

-----------------------------------------------------------------------------
(* Cached reads *)

LEMMA ReadsUnchanged ==
    ASSUME UNCHANGED <<version, floor>>,
           \A r \in Reader : RequestOf(r)' = RequestOf(r)
    PROVE  UNCHANGED Reads!readsVars
  BY DEF Reads!readsVars

LEMMA RequestAsks ==
    ASSUME NEW r \in Reader, NEW p \in Guarded,
           NEW v \in {None} \cup floor[p]..version[p[2]],
           RequestOf(r) = None,
           RequestOf(r)' = [place |-> p, since |-> floor[p], answer |-> v],
           \A q \in Reader : q # r => RequestOf(q)' = RequestOf(q),
           UNCHANGED <<version, floor>>
    PROVE  Reads!Next
  <1>1. Reads!Ask(r, p)
    BY DEF Reads!Ask, Reads!Asked
  <1>2. p \in Guarded
    OBVIOUS
  <1> QED
    BY <1>1, <1>2 DEF Reads!Next

LEMMA RequestsEnd ==
    ASSUME NEW R \in SUBSET Reader,
           \A r \in Reader : RequestOf(r)' = IF r \in R THEN None
                                                        ELSE RequestOf(r),
           UNCHANGED <<version, floor>>
    PROVE  Reads!Next
  <1>1. Reads!End(R)
    BY DEF Reads!End
  <1> QED
    BY <1>1 DEF Reads!Next

LEMMA OneRequestEnds ==
    ASSUME NEW r \in Reader, RequestOf(r)' = None,
           \A q \in Reader : q # r => RequestOf(q)' = RequestOf(q),
           UNCHANGED <<version, floor>>
    PROVE  Reads!Next
  <1>1. {r} \in SUBSET Reader
    OBVIOUS
  <1>2. \A q \in Reader : RequestOf(q)' = IF q \in {r} THEN None
                                                      ELSE RequestOf(q)
    OBVIOUS
  <1> QED
    BY <1>1, <1>2, RequestsEnd

LEMMA NoneIsNoRead ==
    ASSUME NEW p \in Place, NEW n \in Version, NEW v \in Version \cup {None}
    PROVE  [place |-> p, since |-> n, answer |-> v] # None
  <1>1. n \in Nat /\ v \in Nat \cup {None}
    BY CacheBounds DEF Version
  <1> QED
    BY <1>1, NoneIsFresh

LEMMA RequestsAnswered ==
    ASSUME TypeOK, NEW R \in SUBSET Reader, NEW v \in Version,
           \A r \in R : /\ PlaceOf(r) \in Guarded
                        /\ v \in since[r]..version[ScopeOf(r)]
                        /\ RequestOf(r) = [place |-> PlaceOf(r),
                                           since |-> since[r],
                                           answer |-> None]
                        /\ RequestOf(r)' = [place |-> PlaceOf(r),
                                            since |-> since[r],
                                            answer |-> v],
           \A r \in Reader : r \notin R => RequestOf(r)' = RequestOf(r),
           UNCHANGED <<version, floor>>
    PROVE  Reads!Next
  <1> DEFINE answer == [r \in R |-> v]
             request == [r \in Reader |-> RequestOf(r)]
             reading == [p \in Guarded |-> version[p[2]]]
  <1>1. \A r \in R : /\ r \in Reader /\ request[r] = RequestOf(r)
                     /\ request[r].place = PlaceOf(r)
                     /\ request[r].since = since[r]
                     /\ request[r].answer = None /\ request[r] # None
                     /\ reading[request[r].place] = version[ScopeOf(r)]
    BY NoneIsNoRead DEF ScopeOf, Guarded, TypeOK
  <1>2. answer \in [R -> Reads!Versions]
    BY DEF Reads!Versions, Version
  <1>3. \A r \in R :
           answer[r] \in request[r].since..reading[request[r].place]
    BY <1>1
  <1>4. request' = [r \in Reader |->
                      IF r \in R THEN [request[r] EXCEPT !.answer = answer[r]]
                                 ELSE request[r]]
    OBVIOUS
  <1>5. UNCHANGED <<[p \in Guarded |-> version[p[2]]],
                    [p \in Guarded |-> floor[p]]>>
    OBVIOUS
  <1>6. Reads!Answer(R)
    BY <1>1, <1>2, <1>3, <1>4, <1>5 DEF Reads!Answer
  <1> QED
    BY <1>6 DEF Reads!Next

LEMMA OthersAsBefore ==
    ASSUME TypeOK, NEW r \in Reader, OnlyRequest(r)
    PROVE  /\ \A q \in Reader : q # r => RequestOf(q)' = RequestOf(q)
           /\ UNCHANGED <<version, floor>>
  BY DEF TypeOK, OnlyRequest, RequestOf, PlaceOf

LEMMA HitReads ==
    ASSUME ReadInv, NEW r \in Reader, NEW a \in menu, Hit(r, a)
    PROVE  Reads!Next
  <1> DEFINE v == Oldest({cache[a.place][k] : k \in a.keys})
             p == a.place
  <1>1. TypeOK /\ CacheInv /\ menu \in Menus /\ pc[r] = "idle"
    BY DEF ReadInv, Hit, Idle
  <1>2. p \in Place
    BY <1>1, AskedIsAsk
  <1>3. v \in Version /\ (p \in Guarded => v \in floor[p]..version[p[2]])
    BY <1>1, HitFindsVersion DEF Hit
  <1>4. /\ pc'[r] = "resolved" /\ ask'[r] = a /\ value'[r] = v
        /\ since'[r] = floor[p]
    BY <1>1 DEF Hit, TypeOK
  <1> HIDE DEF v, p
  <1>5. OnlyRequest(r)
    BY <1>1 DEF Hit, TypeOK, OnlyRequest
  <1>6. RequestOf(r) = None
    BY <1>1 DEF RequestOf
  <1>7. PlaceOf(r)' = p
    BY <1>4 DEF PlaceOf, p
  <1>8. v # None
    BY <1>3, NoneIsFresh, CacheBounds DEF Version
  <1>9. CASE p \in Guarded
    <2>1. RequestOf(r)' = [place |-> p, since |-> floor[p], answer |-> v]
      BY <1>4, <1>7, <1>8, <1>9 DEF RequestOf
    <2> QED
      BY <1>1, <1>3, <1>5, <1>6, <1>9, <2>1, RequestAsks, OthersAsBefore
  <1>10. CASE p \notin Guarded
    <2>1. RequestOf(r)' = None
      BY <1>4, <1>7, <1>10 DEF RequestOf
    <2> QED
      BY <1>1, <1>5, <2>1, OneRequestEnds, OthersAsBefore
  <1> QED
    BY <1>9, <1>10


LEMMA JoinReads ==
    ASSUME ReadInv, NEW r \in Reader, NEW a \in menu, NEW f \in Reader,
           Join(r, a, f)
    PROVE  Reads!Next
  <1> DEFINE p == a.place
             v == IF pc[f] = "resolved" THEN value[f] ELSE None
  <1>1. /\ TypeOK /\ menu \in Menus /\ FlightInv
        /\ RequestInv(f) /\ pc[r] = "idle"
        /\ f \in registered /\ PlaceOf(f) = p
    BY DEF ReadInv, Join, Idle, CanJoin
  <1>2. p \in Place
    BY <1>1, AskedIsAsk
  <1>3. IsCurrent(f) /\ SinceInv(f) /\ ValueInv(f)
    BY <1>1 DEF FlightInv, IsFlight, RequestInv, LoadPhase
  <1>4. since[f] = floor[p]
    <2>1. GenerationOf(p) \in Generation /\ GenerationOf(p) # None
      BY <1>1, <1>2, GenerationTyped, GenerationIsSome
    <2> QED
      BY <1>1, <1>3, <2>1, EarlierOrder DEF SinceInv, IsCurrent
  <1>5. p \in Guarded => v \in {None} \cup floor[p]..version[p[2]]
    BY <1>1, <1>3, <1>4 DEF ValueInv, ScopeOf
  <1>6. /\ pc'[r] = (IF pc[f] = "resolved" THEN "resolved" ELSE "waiting")
        /\ ask'[r] = [a EXCEPT !.keys = ask[f].keys]
        /\ value'[r] = v /\ since'[r] = floor[p]
    BY <1>1 DEF Join, TypeOK
  <1>7. PlaceOf(r)' = p
    <2>1. a \in Ask
      BY <1>1, AskedIsAsk
    <2> QED
      BY <1>6, <2>1 DEF PlaceOf, Ask
  <1>8. OnlyRequest(r)
    BY <1>1 DEF Join, TypeOK, OnlyRequest
  <1>9. RequestOf(r) = None
    BY <1>1 DEF RequestOf
  <1> HIDE DEF p
  <1>10. CASE p \in Guarded /\ ~ (pc[f] = "resolved" /\ value[f] = None)
    <2>1. RequestOf(r)' = [place |-> p, since |-> floor[p], answer |-> v]
      BY <1>6, <1>7, <1>10 DEF RequestOf
    <2> QED
      BY <1>1, <1>5, <1>8, <1>9, <1>10, <2>1, RequestAsks, OthersAsBefore
  <1>11. CASE p \notin Guarded \/ (pc[f] = "resolved" /\ value[f] = None)
    <2>1. RequestOf(r)' = None
      BY <1>6, <1>7, <1>11 DEF RequestOf
    <2> QED
      BY <1>1, <1>8, <2>1, OneRequestEnds, OthersAsBefore
  <1> QED
    BY <1>10, <1>11

LEMMA StartReads ==
    ASSUME ReadInv, NEW r \in Reader, NEW a \in menu, Start(r, a)
    PROVE  Reads!Next
  <1> DEFINE p == a.place
  <1>1. TypeOK /\ menu \in Menus /\ pc[r] = "idle"
    BY DEF ReadInv, Start, Idle
  <1>2. a \in Ask /\ p \in Place
    BY <1>1, AskedIsAsk
  <1>3. /\ pc'[r] = FirstPhase(p[1]) /\ since'[r] = floor[p]
        /\ ask'[r] = [a EXCEPT !.keys = Missing(a)]
    BY <1>1 DEF Start, TypeOK
  <1>4. PlaceOf(r)' = p
    BY <1>2, <1>3 DEF PlaceOf, Ask
  <1>5. OnlyRequest(r)
    BY <1>1 DEF Start, TypeOK, OnlyRequest
  <1>6. RequestOf(r) = None
    BY <1>1 DEF RequestOf
  <1>7. pc'[r] \notin {"idle", "resolved"}
    BY <1>2, <1>3, FirstIsLoad DEF LoadPhase
  <1> HIDE DEF p
  <1>8. CASE p \in Guarded
    <2>1. RequestOf(r)' = [place |-> p, since |-> floor[p], answer |-> None]
      BY <1>3, <1>4, <1>7, <1>8 DEF RequestOf
    <2>2. None \in {None} \cup floor[p]..version[p[2]]
      OBVIOUS
    <2> QED
      BY <1>1, <1>5, <1>6, <1>8, <2>1, <2>2, RequestAsks, OthersAsBefore
  <1>9. CASE p \notin Guarded
    <2>1. RequestOf(r)' = None
      BY <1>4, <1>9 DEF RequestOf
    <2> QED
      BY <1>1, <1>5, <2>1, OneRequestEnds, OthersAsBefore
  <1> QED
    BY <1>8, <1>9

\* A load answers all it serves at once, with a version that is new enough for
\* each of them.
LEMMA AnswerReads ==
    ASSUME ReadInv, NEW f \in Reader, Answer(f)
    PROVE  Reads!Next \/ UNCHANGED Reads!readsVars
  <1> DEFINE phase == NextPhase(KindOf(f), pc[f], Read(f))
             v == Read(f)
  <1>1. pc[f] \in LoadPhase /\ TypeOK
    BY DEF Answer, ReadInv
  <1>2. /\ PlaceOf(f) \in Place /\ v \in Version
        /\ PlaceOf(f) \in Guarded => v \in since[f]..version[ScopeOf(f)]
    BY <1>1, ReadFindsVersion
  <1>3. v # None
    BY <1>2, NoneIsFresh, CacheBounds DEF Version
  <1>4. /\ ask' = ask /\ since' = since /\ UNCHANGED <<version, floor>>
        /\ \A r \in Reader : PlaceOf(r)' = PlaceOf(r)
    BY DEF Answer, PlaceOf
  <1> HIDE DEF v, phase
  <1>5. CASE phase = "resolved"
    <2>1. Resolve(f, v)
      BY <1>5 DEF Answer, v, phase
    <2>2. \A r \in Reader :
             IF r \in Served(f)
             THEN pc'[r] = "resolved" /\ value'[r] = v
             ELSE pc'[r] = pc[r] /\ value'[r] = value[r]
      BY <2>1 DEF Resolve
    <2>3. \A r \in Reader : r \notin Served(f) => RequestOf(r)' = RequestOf(r)
      BY <1>4, <2>2 DEF RequestOf
    <2>4. Served(f) \in SUBSET Reader
      BY DEF Served
    <2>5. \A r \in Served(f) :
             /\ r \in Reader /\ pc[r] \notin {"idle", "resolved"}
             /\ PlaceOf(r) = PlaceOf(f) /\ ScopeOf(r) = ScopeOf(f)
             /\ since[r] = since[f]
      BY <1>1, ServedAlike
    <2>6. CASE PlaceOf(f) \in Guarded
      <3>1. ASSUME NEW r \in Served(f)
            PROVE  /\ PlaceOf(r) \in Guarded
                   /\ v \in since[r]..version[ScopeOf(r)]
                   /\ RequestOf(r) = [place |-> PlaceOf(r),
                                      since |-> since[r], answer |-> None]
                   /\ RequestOf(r)' = [place |-> PlaceOf(r),
                                       since |-> since[r], answer |-> v]
        <4>1. /\ PlaceOf(r) \in Guarded
              /\ v \in since[r]..version[ScopeOf(r)]
          BY <1>2, <2>5, <2>6
        <4>2. RequestOf(r) = [place |-> PlaceOf(r),
                              since |-> since[r], answer |-> None]
          BY <2>5, <4>1 DEF RequestOf
        <4>3. RequestOf(r)' = [place |-> PlaceOf(r),
                               since |-> since[r], answer |-> v]
          BY <1>3, <1>4, <2>2, <2>5, <4>1 DEF RequestOf
        <4> QED
          BY <4>1, <4>2, <4>3
      <3> QED
        BY <1>1, <1>2, <1>4, <2>3, <2>4, <3>1, RequestsAnswered
    <2>7. CASE PlaceOf(f) \notin Guarded
      <3>1. \A r \in Reader : RequestOf(r)' = RequestOf(r)
        BY <1>4, <2>3, <2>5, <2>7 DEF RequestOf
      <3> QED
        BY <1>4, <3>1, ReadsUnchanged
    <2> QED
      BY <2>6, <2>7
  <1>6. CASE phase # "resolved"
    <2>1. phase \in LoadPhase
      BY <1>6, NextIsPhase DEF phase
    <2>2. /\ pc' = [pc EXCEPT ![f] = phase]
          /\ value' = [value EXCEPT ![f] = v]
      BY <1>6 DEF Answer, v, phase
    <2>3. \A r \in Reader : RequestOf(r)' = RequestOf(r)
      BY <1>1, <1>4, <2>1, <2>2 DEF RequestOf, LoadPhase, TypeOK
    <2> QED
      BY <1>4, <2>3, ReadsUnchanged
  <1> QED
    BY <1>5, <1>6

LEMMA FailReads ==
    ASSUME ReadInv, NEW f \in Reader, Fail(f)
    PROVE  Reads!Next
  <1>1. pc[f] \in LoadPhase /\ Resolve(f, None)
        /\ UNCHANGED <<ask, since, version, floor>>
    BY DEF Fail
  <1>2. Served(f) \in SUBSET Reader
    BY DEF Served
  <1>3. \A r \in Reader : RequestOf(r)' = IF r \in Served(f) THEN None
                                                           ELSE RequestOf(r)
    BY <1>1 DEF Resolve, RequestOf, PlaceOf
  <1> QED
    BY <1>1, <1>2, <1>3, RequestsEnd

LEMMA ReturnReads ==
    ASSUME ReadInv, NEW r \in Reader, Return(r)
    PROVE  Reads!Next
  <1>1. TypeOK /\ OnlyRequest(r) /\ pc'[r] = "idle"
    BY DEF ReadInv, Return, TypeOK, OnlyRequest
  <1>2. RequestOf(r)' = None
    BY <1>1 DEF RequestOf
  <1> QED
    BY <1>1, <1>2, OneRequestEnds, OthersAsBefore

LEMMA SameRequests ==
    ASSUME UNCHANGED <<requestVars, since>>
    PROVE  \A r \in Reader : RequestOf(r)' = RequestOf(r)
  BY DEF requestVars, RequestOf, PlaceOf

LEMMA ChangeReads ==
    ASSUME ReadInv, NEW s \in Scope, Change(s)
    PROVE  Reads!Next
  <1> DEFINE P == {p \in Guarded : p[2] = s}
  <1>1. TypeOK /\ UNCHANGED floor /\ UNCHANGED <<requestVars, since>>
    BY DEF ReadInv, Change
  <1>2. \A p \in Guarded :
           version'[p[2]] = IF p \in P THEN version[p[2]] + 1
                                       ELSE version[p[2]]
    BY <1>1, PlaceShape DEF Change, TypeOK, Guarded
  <1>3. [r \in Reader |-> RequestOf(r)]' = [r \in Reader |-> RequestOf(r)]
    BY <1>1, SameRequests
  <1>4. Reads!Change(P)
    BY <1>1, <1>2, <1>3 DEF Reads!Change
  <1>5. P \in SUBSET Guarded
    OBVIOUS
  <1> QED
    BY <1>4, <1>5 DEF Reads!Next

LEMMA ExpireReads ==
    ASSUME NEW p \in Place, NEW k \in KeysOf(p[1]), Expire(p, k)
    PROVE  UNCHANGED Reads!readsVars
  BY SameRequests, ReadsUnchanged DEF Expire

LEMMA InvalidationReads ==
    ASSUME ReadInv, NEW P, Invalidates(P)
    PROVE  Reads!Next
  <1> DEFINE Q == P \cap Guarded
  <1>1. UNCHANGED version /\ UNCHANGED <<requestVars, since>>
    BY DEF Invalidates, Forget
  <1>2. \A p \in Guarded : floor'[p] = IF p \in Q THEN version[p[2]]
                                                  ELSE floor[p]
    BY DEF Invalidates, Forget, Guarded
  <1>3. [r \in Reader |-> RequestOf(r)]' = [r \in Reader |-> RequestOf(r)]
    BY <1>1, SameRequests
  <1>4. Reads!Invalidate(Q)
    BY <1>1, <1>2, <1>3 DEF Reads!Invalidate
  <1>5. Q \in SUBSET Guarded
    OBVIOUS
  <1> QED
    BY <1>4, <1>5 DEF Reads!Next

LEMMA EveryStepReads ==
    ReadInv /\ [Next]_vars => [Reads!Next]_Reads!readsVars
  <1> SUFFICES ASSUME ReadInv, [Next]_vars
               PROVE  Reads!Next \/ UNCHANGED Reads!readsVars
    OBVIOUS
  <1>1. CASE \E r \in Reader, a \in menu :
                Hit(r, a) \/ Start(r, a) \/ \E f \in Reader : Join(r, a, f)
    BY <1>1, HitReads, StartReads, JoinReads
  <1>2. CASE \E r \in Reader : Answer(r) \/ Fail(r) \/ Return(r)
    BY <1>2, AnswerReads, FailReads, ReturnReads
  <1>3. CASE \E s \in Scope : Change(s)
    BY <1>3, ChangeReads
  <1>4. CASE \E p \in Place : \E k \in KeysOf(p[1]) : Expire(p, k)
    BY <1>4, ExpireReads
  <1>5. CASE \/ InvalidateAll
             \/ \E i \in Installation : InvalidateInstallation(i)
             \/ \E s \in Repository : InvalidateRepository(s)
    BY <1>5, EveryInvalidation, InvalidationReads DEF ReadInv
  <1>6. CASE UNCHANGED vars
    BY <1>6, SameRequests, ReadsUnchanged DEF vars
  <1> QED
    BY <1>1, <1>2, <1>3, <1>4, <1>5, <1>6 DEF Next

\* However many requests share loads while the repository changes and caches
\* are invalidated, evicted and run out: a request through a guarded cache is
\* answered with a version that is no older than the last invalidation before
\* the request.
THEOREM ReadsAreFresh == Spec => ReadsFollowInvalidation
  <1>1. Init => Reads!Init
    <2>1. \A p \in Place : p[2] \in Scope
      BY PlaceShape
    <2> QED
      BY <2>1 DEF Init, Reads!Init, RequestOf, Guarded
  <1> QED
    BY <1>1, EveryStepReads, ReadInvariant, PTL
       DEF Spec, ReadsFollowInvalidation, Reads!Spec

-----------------------------------------------------------------------------
(* State files.  A request takes its files from the map only after its     *)
(* fetch was answered.  In between it relies on two facts: what it found   *)
(* in the map is still there, and the fetch it waits for brings exactly    *)
(* the rest.  For any number of requests, snapshots and files.             *)

FilesTyped ==
    /\ stage \in [Asker -> {"idle", "fetching", "waiting"} \cup FileEnded]
    /\ wanted \in [Asker -> SUBSET File] /\ missing \in [Asker -> SUBSET File]
    /\ awaits \in [Asker -> Asker \cup {NoFetch}]
    /\ flights \subseteq Asker

\* What a request asked for and did not miss is in the map.
FoundIsHeld(r) ==
    stage[r] \in {"fetching", "waiting"} /\ r \notin cleared =>
       wanted[r] \subseteq held \cup missing[r]

\* Whoever waits for a fetch waits for the files it misses.
WaitsForMissing(r) ==
    stage[r] = "waiting" =>
       /\ awaits[r] \in Asker /\ stage[awaits[r]] = "fetching"
       /\ missing[awaits[r]] = missing[r]

FileInv ==
    /\ FilesTyped
    /\ \A f \in flights : stage[f] = "fetching"
    /\ \A r \in Asker :
          /\ missing[r] \subseteq wanted[r]
          /\ FoundIsHeld(r) /\ WaitsForMissing(r)
    /\ MissingOnlyWhenCleared

-----------------------------------------------------------------------------
(* One lemma for each action *)

LEMMA FileRequestKeeps ==
    ASSUME FileInv, NEW r \in Asker, NEW F \in SUBSET File, RequestFiles(r, F)
    PROVE  FileInv'
  <1>1. /\ wanted' = [wanted EXCEPT ![r] = F]
        /\ missing' = [missing EXCEPT ![r] = F \ held]
        /\ held' = held /\ cleared' = cleared /\ stage[r] = "idle"
    BY DEF RequestFiles
  <1>2. /\ stage'[r] \in {"answered", "waiting", "fetching"}
        /\ stage' = [stage EXCEPT ![r] = stage'[r]]
        /\ awaits' = [awaits EXCEPT ![r] = awaits'[r]]
        /\ awaits'[r] \in Asker \cup {NoFetch}
        /\ flights' \subseteq flights \cup {r}
        /\ r \in flights' => stage'[r] = "fetching"
    <2>1. CASE F \subseteq held
      BY <2>1 DEF RequestFiles, FileInv, FilesTyped
    <2>2. CASE ~ F \subseteq held
      BY <2>2 DEF RequestFiles, FileInv, FilesTyped
    <2> QED
      BY <2>1, <2>2
  <1>3. FilesTyped'
    BY <1>1, <1>2 DEF FileInv, FilesTyped, FileEnded
  <1>4. \A f \in flights' : stage'[f] = "fetching"
    BY <1>1, <1>2 DEF FileInv, FilesTyped
  <1>5. ASSUME NEW q \in Asker
        PROVE  missing'[q] \subseteq wanted'[q] /\ FoundIsHeld(q)'
    BY <1>1, <1>2 DEF FileInv, FilesTyped, FoundIsHeld
  <1>6. ASSUME NEW q \in Asker
        PROVE  WaitsForMissing(q)'
    <2>1. CASE q = r
      <3>1. stage'[r] = "waiting" =>
               \E f \in flights : awaits'[r] = f /\ missing[f] = F \ held
        BY DEF RequestFiles, SameFetch, FileInv, FilesTyped
      <3> QED
        BY <1>1, <1>2, <2>1, <3>1 DEF WaitsForMissing, FileInv, FilesTyped
    <2>2. CASE q # r
      <3>1. WaitsForMissing(q)
        BY DEF FileInv
      <3>2. stage'[q] = stage[q] /\ awaits'[q] = awaits[q]
            /\ \A f \in Asker : f # r => /\ stage'[f] = stage[f]
                                         /\ missing'[f] = missing[f]
        BY <1>1, <1>2, <2>2 DEF FileInv, FilesTyped
      <3> QED
        BY <1>1, <2>2, <3>1, <3>2 DEF WaitsForMissing
    <2> QED
      BY <2>1, <2>2
  <1>7. MissingOnlyWhenCleared'
    BY <1>1, <1>2 DEF FileInv, FilesTyped, MissingOnlyWhenCleared
  <1> QED
    BY <1>3, <1>4, <1>5, <1>6, <1>7 DEF FileInv

\* An ended fetch: whoever it served has ended with it.
LEMMA ServedEnd ==
    ASSUME FileInv, NEW f \in Asker, stage[f] = "fetching",
           \A r \in Asker : IF r \in Sharing(f) THEN stage'[r] \in FileEnded
                                                ELSE stage'[r] = stage[r],
           stage' \in [Asker -> {"idle", "fetching", "waiting"} \cup FileEnded],
           held \subseteq held', flights' = flights \ {f},
           UNCHANGED <<wanted, missing, awaits, cleared>>,
           \A r \in Sharing(f) :
              stage'[r] = "integrity_failure" /\ r \notin cleared
              => ~ wanted[r] \subseteq Present
    PROVE  FileInv'
  <1>1. FilesTyped'
    BY DEF FileInv, FilesTyped
  <1>2. \A g \in flights' : stage'[g] = "fetching"
    BY DEF FileInv, FilesTyped, Sharing
  <1>3. ASSUME NEW r \in Asker
        PROVE  missing'[r] \subseteq wanted'[r] /\ FoundIsHeld(r)'
    BY DEF FileInv, FoundIsHeld, FileEnded
  <1>4. ASSUME NEW r \in Asker
        PROVE  WaitsForMissing(r)'
    <2> SUFFICES ASSUME stage'[r] = "waiting"
                 PROVE  /\ awaits[r] \in Asker /\ stage'[awaits[r]] = "fetching"
                        /\ missing[awaits[r]] = missing[r]
      BY DEF WaitsForMissing
    <2>1. r \notin Sharing(f) /\ stage[r] = "waiting"
      BY DEF FileEnded
    <2>2. /\ awaits[r] \in Asker /\ stage[awaits[r]] = "fetching"
          /\ missing[awaits[r]] = missing[r]
      BY <2>1 DEF FileInv, WaitsForMissing
    <2>3. awaits[r] \notin Sharing(f)
      BY <2>1, <2>2 DEF Sharing
    <2> QED
      BY <2>2, <2>3
  <1>5. MissingOnlyWhenCleared'
    BY DEF FileInv, MissingOnlyWhenCleared
  <1> QED
    BY <1>1, <1>2, <1>3, <1>4, <1>5 DEF FileInv

\* What was found and what was fetched are all that was asked for; and a file
\* that the fetch did not find was asked for.
LEMMA FetchedKeeps ==
    ASSUME FileInv, NEW f \in Asker, Fetched(f)
    PROVE  FileInv'
  <1>1. /\ stage[f] = "fetching" /\ flights' = flights \ {f}
        /\ UNCHANGED <<wanted, missing, awaits, cleared>>
    BY DEF Fetched
  <1>2. \A r \in Sharing(f) :
           /\ r \in Asker /\ stage[r] \in {"fetching", "waiting"}
           /\ missing[r] = missing[f] /\ missing[r] \subseteq wanted[r]
           /\ FoundIsHeld(r)
    BY <1>1 DEF Sharing, FileInv, WaitsForMissing
  <1>3. CASE missing[f] \subseteq Present
    <2>1. /\ held' = held \cup missing[f]
          /\ stage' = [r \in Asker |-> IF r \in Sharing(f) THEN Collected(r)
                                                       ELSE stage[r]]
      BY <1>3 DEF Fetched
    <2>2. ASSUME NEW r \in Sharing(f)
          PROVE  /\ Collected(r) \in FileEnded
                 /\ r \notin cleared => Collected(r) = "answered"
      BY <1>2, <2>1 DEF Collected, FoundIsHeld, FileEnded
    <2>3. \A r \in Asker : IF r \in Sharing(f) THEN stage'[r] \in FileEnded
                                               ELSE stage'[r] = stage[r]
      BY <2>1, <2>2
    <2>4. stage' \in [Asker -> {"idle", "fetching", "waiting"} \cup FileEnded]
      BY <2>1, <2>2 DEF FileInv, FilesTyped
    <2>5. \A r \in Sharing(f) :
             ~ (stage'[r] = "integrity_failure" /\ r \notin cleared)
      BY <1>2, <2>1, <2>2
    <2> QED
      BY <1>1, <2>1, <2>3, <2>4, <2>5, ServedEnd
  <1>4. CASE ~ missing[f] \subseteq Present
    <2>1. /\ held' = held
          /\ stage' = [r \in Asker |-> IF r \in Sharing(f)
                                     THEN "integrity_failure" ELSE stage[r]]
      BY <1>4 DEF Fetched
    <2>2. \A r \in Asker : IF r \in Sharing(f) THEN stage'[r] \in FileEnded
                                               ELSE stage'[r] = stage[r]
      BY <2>1 DEF FileEnded
    <2>3. stage' \in [Asker -> {"idle", "fetching", "waiting"} \cup FileEnded]
      BY <2>1 DEF FileInv, FilesTyped, FileEnded
    <2>4. \A r \in Sharing(f) : ~ wanted[r] \subseteq Present
      BY <1>2, <1>4
    <2> QED
      BY <1>1, <2>1, <2>2, <2>3, <2>4, ServedEnd
  <1> QED
    BY <1>3, <1>4

LEMMA FetchFailsKeeps ==
    ASSUME FileInv, NEW f \in Asker, FetchFails(f)
    PROVE  FileInv'
  <1>1. /\ stage[f] = "fetching" /\ flights' = flights \ {f}
        /\ held' = held /\ UNCHANGED <<wanted, missing, awaits, cleared>>
        /\ stage' = [r \in Asker |-> IF r \in Sharing(f)
                                     THEN "transport_failure" ELSE stage[r]]
    BY DEF FetchFails
  <1>2. \A r \in Asker : IF r \in Sharing(f) THEN stage'[r] \in FileEnded
                                             ELSE stage'[r] = stage[r]
    BY <1>1 DEF FileEnded
  <1>3. stage' \in [Asker -> {"idle", "fetching", "waiting"} \cup FileEnded]
    BY <1>1 DEF FileInv, FilesTyped, FileEnded
  <1>4. \A r \in Sharing(f) : stage'[r] # "integrity_failure"
    BY <1>1 DEF Sharing
  <1> QED
    BY <1>1, <1>2, <1>3, <1>4, ServedEnd

LEMMA FileReturnKeeps ==
    ASSUME FileInv, NEW r \in Asker, ReturnFiles(r)
    PROVE  FileInv'
  <1>1. /\ stage' = [stage EXCEPT ![r] = "idle"]
        /\ wanted' = [wanted EXCEPT ![r] = {}]
        /\ missing' = [missing EXCEPT ![r] = {}]
        /\ awaits' = [awaits EXCEPT ![r] = NoFetch]
        /\ cleared' = cleared \ {r}
        /\ held' = held /\ flights' = flights
        /\ stage[r] \notin {"idle", "fetching", "waiting"}
    BY DEF ReturnFiles, FileEnded
  <1>2. FilesTyped' /\ \A f \in flights' : stage'[f] = "fetching"
    BY <1>1 DEF FileInv, FilesTyped
  <1>3. ASSUME NEW q \in Asker
        PROVE  /\ missing'[q] \subseteq wanted'[q] /\ FoundIsHeld(q)'
               /\ WaitsForMissing(q)'
    BY <1>1 DEF FileInv, FilesTyped, FoundIsHeld, WaitsForMissing
  <1>4. MissingOnlyWhenCleared'
    BY <1>1 DEF FileInv, FilesTyped, MissingOnlyWhenCleared
  <1> QED
    BY <1>2, <1>3, <1>4 DEF FileInv

\* Every request in progress is one during which the map was emptied.
LEMMA ForgetFilesKeeps ==
    ASSUME FileInv, ForgetFiles
    PROVE  FileInv'
  <1>1. /\ held' = {} /\ flights' = {}
        /\ cleared' = cleared \cup {r \in Asker : stage[r] # "idle"}
        /\ UNCHANGED <<stage, wanted, missing, awaits>>
    BY DEF ForgetFiles
  <1>2. FilesTyped' /\ \A f \in flights' : stage'[f] = "fetching"
    BY <1>1 DEF FileInv, FilesTyped
  <1>3. ASSUME NEW q \in Asker
        PROVE  /\ missing'[q] \subseteq wanted'[q] /\ FoundIsHeld(q)'
               /\ WaitsForMissing(q)'
    BY <1>1 DEF FileInv, FoundIsHeld, WaitsForMissing
  <1>4. MissingOnlyWhenCleared'
    BY <1>1 DEF MissingOnlyWhenCleared
  <1> QED
    BY <1>2, <1>3, <1>4 DEF FileInv

-----------------------------------------------------------------------------

LEMMA FileInvInit == FilesInit => FileInv
  BY DEF FilesInit, FileInv, FilesTyped, FoundIsHeld, WaitsForMissing,
         MissingOnlyWhenCleared

LEMMA FileInvInductive == FileInv /\ [FilesNext]_fileVars => FileInv'
  <1> SUFFICES ASSUME FileInv, [FilesNext]_fileVars
               PROVE  FileInv'
    OBVIOUS
  <1>1. CASE \E r \in Asker, s \in Snapshot, K \in (SUBSET Path) \ {{}} :
                RequestFiles(r, {s} \X K)
    <2>1. PICK r \in Asker, s \in Snapshot, K \in (SUBSET Path) \ {{}} :
             RequestFiles(r, {s} \X K)
      BY <1>1
    <2>2. {s} \X K \in SUBSET File
      BY <2>1 DEF File
    <2> QED
      BY <2>1, <2>2, FileRequestKeeps
  <1>2. CASE \E r \in Asker : Fetched(r) \/ FetchFails(r) \/ ReturnFiles(r)
    BY <1>2, FetchedKeeps, FetchFailsKeeps, FileReturnKeeps
  <1>3. CASE ForgetFiles
    BY <1>3, ForgetFilesKeeps
  <1>4. CASE UNCHANGED fileVars
    BY <1>4 DEF fileVars, FileInv, FilesTyped, FoundIsHeld, WaitsForMissing,
                MissingOnlyWhenCleared
  <1> QED
    BY <1>1, <1>2, <1>3, <1>4 DEF FilesNext

\* However requests for overlapping sets of files share fetches, a request is
\* refused for a missing file only if the file does not exist, or if the map
\* was emptied during the request.
THEOREM MissingFilesAreMissing == FilesSpec => []MissingOnlyWhenCleared
  <1>1. FileInv => MissingOnlyWhenCleared
    BY DEF FileInv
  <1> QED
    BY <1>1, FileInvInit, FileInvInductive, PTL DEF FilesSpec
=============================================================================
