----------------------------- MODULE ReadCache -----------------------------
(***************************************************************************)
(* The read caches of HunsuApplicationService: the Project catalogs of a   *)
(* repository, its whole reconstructed Projects, its verified Node anchors *)
(* and the repositories an installation grants.  A request is served from  *)
(* the cache, joins a load in flight or starts one; webhooks and this      *)
(* process's own mutations invalidate while loads are in flight.           *)
(*                                                                         *)
(* A load takes one step per answer of GitHub.  What it reads is fixed by  *)
(* its first answer (the state head, the list of repositories, the anchor) *)
(* and abstracted to the version the scope had then; a catalog load stops  *)
(* early where the head it read has no Projects.  Project ids, decoding    *)
(* and the comparisons of the decoded parts are abstracted to Fail.        *)
(***************************************************************************)
EXTENDS Integers, FiniteSets, SequencesExt

CONSTANTS
    Installation, Repository, Node,
    InstallationOf,     \* the installation that grants a repository
    Reader,             \* requests that may be in progress at one time
    Menus,              \* the requests made within one behaviour
    ContentAt,          \* what each version of hunsu/state holds
    MaxVersion,         \* bound on the changes of a scope
    MaxInvalidations,   \* bound on the invalidations
    MaxSafeInteger,     \* generations wrap to 0 after it
    MaxAnchors,         \* MAX_NODE_ANCHOR_CACHE_ENTRIES
    None

Scope == Repository \cup Installation
Version == 0..MaxVersion
Content == {"no_branch", "no_v2", "no_projects", "projects"}

ASSUME ScopesDisjoint == Repository \cap Installation = {}
ASSUME InstallationOfType == InstallationOf \in [Repository -> Installation]
ASSUME ContentAtType == ContentAt \in [Version -> Content]
ASSUME CacheBounds ==
    /\ MaxVersion \in Nat /\ MaxInvalidations \in Nat
    /\ MaxSafeInteger \in Nat /\ MaxInvalidations < MaxSafeInteger
    /\ MaxAnchors \in Nat \ {0}
\* What a cache holds: catalogs, full Projects and grants have one entry per
\* scope, anchors one per Node.
Place == ({"catalog", "full", "anchor"} \X Repository)
         \cup ({"grants"} \X Installation)
KeysOf(kind) == IF kind = "anchor" THEN Node ELSE {None}
Ask == [place : Place, keys : SUBSET (Node \cup {None}), force : BOOLEAN]

ASSUME NoneIsFresh ==
    None \notin Nat \cup Reader \cup Ask
               \cup [global : Nat, installation : Nat, repository : Nat]
               \cup [place : Place, since : Nat, answer : Nat \cup {None}]

ASSUME AsksType ==
    \A Asks \in Menus :
       Asks \subseteq {a \in Ask : /\ a.keys # {}
                                   /\ a.keys \subseteq KeysOf(a.place[1])
                                   /\ a.force => a.place[1] = "full"}

\* Requests for these join a load that is in flight.
Coalesced == {"catalog", "anchor", "grants"}

InstallationAt(scope) ==
    IF scope \in Repository THEN InstallationOf[scope] ELSE scope

VARIABLES
    version,        \* how often each scope has changed
    globalGeneration,
    generations,    \* #installation- and #repositoryCacheGenerations
    cache,          \* Place -> key -> version held, or None
    anchorOrder,    \* the anchor entries, oldest first
    pc, ask,        \* each request's phase and what it asks
    generation,     \* the generation it read before its load
    joined,         \* the request whose load it waits for
    value,          \* what its load read, or its answer
    registered,     \* requests whose load is in the map of flights
    invalidations,
    menu,           \* which requests are made
    floor, since    \* history: version at the last invalidation of a place

cacheVars == <<cache, anchorOrder>>
generationVars == <<globalGeneration, generations>>
requestVars == <<pc, ask, generation, joined, value>>
vars == <<version, generationVars, cacheVars, requestVars, registered,
          invalidations, menu, floor, since>>

PlaceOf(r) == ask[r].place
KindOf(r) == PlaceOf(r)[1]
ScopeOf(r) == PlaceOf(r)[2]

LoadPhase == {"head", "workspace", "catalogs", "anchors", "files", "verify",
              "list", "answer"}
Phase == {"idle", "waiting", "resolved"} \cup LoadPhase

Init ==
    /\ version = [s \in Scope |-> 0]
    /\ globalGeneration = 0 /\ generations = [s \in Scope |-> 0]
    /\ cache = [p \in Place |-> [k \in KeysOf(p[1]) |-> None]]
    /\ anchorOrder = <<>>
    /\ pc = [r \in Reader |-> "idle"] /\ ask = [r \in Reader |-> None]
    /\ generation = [r \in Reader |-> None]
    /\ joined = [r \in Reader |-> None] /\ value = [r \in Reader |-> None]
    /\ registered = {} /\ invalidations = 0 /\ menu \in Menus
    /\ floor = [p \in Place |-> 0] /\ since = [r \in Reader |-> 0]

-----------------------------------------------------------------------------
(* Generations. *)

NextCacheGeneration(n) == IF n = MaxSafeInteger THEN 0 ELSE n + 1

\* Grants are bound to their installation only.
GenerationOf(place) ==
    [global |-> globalGeneration,
     installation |-> generations[InstallationAt(place[2])],
     repository |-> IF place[2] \in Repository THEN generations[place[2]]
                                               ELSE 0]

IsCurrent(r) == generation[r] = GenerationOf(PlaceOf(r))

-----------------------------------------------------------------------------
(* Requests. *)

FirstPhase(kind) ==
    CASE kind \in {"catalog", "full"} -> "head"
      [] kind = "anchor" -> "verify"
      [] kind = "grants" -> "list"

Missing(a) ==
    {k \in a.keys : a.force \/ cache[a.place][k] = None}

Oldest(versions) == CHOOSE v \in versions : \A w \in versions : v <= w

\* A catalog request looks for a load before it looks at the cache; the
\* other maps of flights are keyed by all that is missing from the cache.
CanJoin(a, f) ==
    /\ f \in registered /\ PlaceOf(f) = a.place
    /\ a.place[1] # "catalog" => ask[f].keys = Missing(a)

Idle(r) == pc[r] = "idle"

\* Everything is cached, and fresh.
Hit(r, a) ==
    /\ Idle(r) /\ Missing(a) = {} /\ ~ \E f \in Reader : CanJoin(a, f)
    /\ pc' = [pc EXCEPT ![r] = "resolved"]
    /\ ask' = [ask EXCEPT ![r] = a]
    /\ value' = [value EXCEPT ![r] =
                    Oldest({cache[a.place][k] : k \in a.keys})]
    /\ since' = [since EXCEPT ![r] = floor[a.place]]
    /\ UNCHANGED <<version, generationVars, cacheVars, generation, joined,
                   registered, invalidations, menu, floor>>

\* What is cached of the request is good; the request goes on for the rest.
Join(r, a, f) ==
    /\ Idle(r) /\ CanJoin(a, f)
    /\ pc' = [pc EXCEPT ![r] = IF pc[f] = "resolved" THEN "resolved"
                                                     ELSE "waiting"]
    /\ ask' = [ask EXCEPT ![r] = [a EXCEPT !.keys = ask[f].keys]]
    /\ generation' = [generation EXCEPT ![r] = GenerationOf(a.place)]
    /\ joined' = [joined EXCEPT ![r] = f]
    /\ value' = [value EXCEPT ![r] = IF pc[f] = "resolved" THEN value[f]
                                                           ELSE None]
    /\ since' = [since EXCEPT ![r] = floor[a.place]]
    /\ UNCHANGED <<version, generationVars, cacheVars, registered,
                   invalidations, menu, floor>>

Start(r, a) ==
    /\ Idle(r) /\ Missing(a) # {} /\ ~ \E f \in Reader : CanJoin(a, f)
    /\ pc' = [pc EXCEPT ![r] = FirstPhase(a.place[1])]
    /\ ask' = [ask EXCEPT ![r] = [a EXCEPT !.keys = Missing(a)]]
    /\ generation' = [generation EXCEPT ![r] = GenerationOf(a.place)]
    /\ registered' = IF a.place[1] \in Coalesced THEN registered \cup {r}
                                                 ELSE registered
    /\ since' = [since EXCEPT ![r] = floor[a.place]]
    /\ UNCHANGED <<version, generationVars, cacheVars, joined, value,
                   invalidations, menu, floor>>

-----------------------------------------------------------------------------
(* Loads. *)

\* The requests that a load answers.
Served(f) == {f} \cup {r \in Reader : pc[r] = "waiting" /\ joined[r] = f}

Resolve(f, v) ==
    /\ pc' = [r \in Reader |-> IF r \in Served(f) THEN "resolved" ELSE pc[r]]
    /\ value' = [r \in Reader |-> IF r \in Served(f) THEN v ELSE value[r]]

Store(p, K, v) ==
    cache' = [cache EXCEPT ![p] = [k \in DOMAIN @ |-> IF k \in K THEN v
                                                               ELSE @[k]]]

\* The anchor entries that stay, then those of K in the order of the request.
Renewed(p, K, added) ==
    SelectSeq(anchorOrder, LAMBDA e : e[1] # p \/ e[2] \notin K) \o added

\* Anchors become the newest entries of their map, which keeps MaxAnchors.
PublishAnchors(p, K, v) ==
    \E added \in SetToAllKPermutations({<<p, k>> : k \in K}) :
       LET all == Renewed(p, K, added)
           excess == IF Len(all) > MaxAnchors THEN Len(all) - MaxAnchors ELSE 0
           evicted == {all[i] : i \in 1..excess}
       IN  /\ Len(added) = Cardinality(K)
           /\ anchorOrder' = SubSeq(all, excess + 1, Len(all))
           /\ cache' = [q \in Place |-> [k \in KeysOf(q[1]) |->
                          IF <<q, k>> \in evicted THEN None
                          ELSE IF q = p /\ k \in K THEN v ELSE cache[q][k]]]

\* Mutant of Publish: the generation is not looked at.
PublishAnyGeneration(f, v) ==
    IF KindOf(f) = "anchor" THEN PublishAnchors(PlaceOf(f), ask[f].keys, v)
    ELSE Store(PlaceOf(f), ask[f].keys, v) /\ UNCHANGED anchorOrder

\* Catalogs and anchors are published by the load, if still current; full
\* Projects whatever happened meanwhile; grants by each request they answer.
Publish(f, v) ==
    CASE KindOf(f) = "full" \/ (KindOf(f) = "catalog" /\ IsCurrent(f)) ->
             Store(PlaceOf(f), ask[f].keys, v) /\ UNCHANGED anchorOrder
      [] KindOf(f) = "anchor" /\ IsCurrent(f) ->
             PublishAnchors(PlaceOf(f), ask[f].keys, v)
      [] OTHER -> UNCHANGED cacheVars

\* What remains to be read after a phase, given the version that was read.
\* The one call of anchors and grants is answered, then its answer arrives.
NextPhase(kind, phase, v) ==
    CASE kind = "catalog" /\ phase = "head" /\ ContentAt[v] # "no_branch" ->
             "workspace"
      [] phase = "workspace" /\ ContentAt[v] = "projects" -> "catalogs"
      [] phase = "catalogs" -> "anchors"
      [] kind = "full" /\ phase = "head" /\ ContentAt[v] # "no_branch" ->
             "files"
      [] kind \in {"anchor", "grants"} /\ phase = FirstPhase(kind) -> "answer"
      [] OTHER -> "resolved"

\* The version a load has read, once its first answer arrived.
Read(f) == IF pc[f] = FirstPhase(KindOf(f)) THEN version[ScopeOf(f)]
                                            ELSE value[f]

\* GitHub answers the call a load waits for.
Answer(f) ==
    /\ pc[f] \in LoadPhase
    /\ LET phase == NextPhase(KindOf(f), pc[f], Read(f))
       IN  IF phase = "resolved"
           THEN Resolve(f, Read(f)) /\ Publish(f, Read(f))
           ELSE /\ pc' = [pc EXCEPT ![f] = phase]
                /\ value' = [value EXCEPT ![f] = Read(f)]
                /\ UNCHANGED cacheVars
    /\ UNCHANGED <<version, generationVars, ask, generation, joined,
                   registered, invalidations, menu, floor, since>>

\* A call fails, or what it returned does not fit together.
Fail(f) ==
    /\ pc[f] \in LoadPhase
    /\ Resolve(f, None)
    /\ UNCHANGED <<version, generationVars, cacheVars, ask, generation, joined,
                   registered, invalidations, menu, floor, since>>

\* Mutant of Unregister: the load found under the key is removed, whoever it
\* belongs to.
UnregisterAny(r) ==
    {f \in registered : PlaceOf(f) # PlaceOf(r) \/ ask[f].keys # ask[r].keys}

\* The owner of a load removes it from the map, if it is still there.
Unregister(r) == registered \ {r}

\* A request gets its answer; one for grants that had to load stores it.
Return(r) ==
    /\ pc[r] = "resolved"
    /\ IF /\ KindOf(r) = "grants" /\ value[r] # None
          /\ generation[r] # None /\ IsCurrent(r)
       THEN Store(PlaceOf(r), ask[r].keys, value[r]) /\ UNCHANGED anchorOrder
       ELSE UNCHANGED cacheVars
    /\ pc' = [pc EXCEPT ![r] = "idle"]
    /\ ask' = [ask EXCEPT ![r] = None]
    /\ generation' = [generation EXCEPT ![r] = None]
    /\ joined' = [joined EXCEPT ![r] = None]
    /\ value' = [value EXCEPT ![r] = None]
    /\ since' = [since EXCEPT ![r] = 0]
    /\ registered' = IF joined[r] = None THEN Unregister(r) ELSE registered
    /\ UNCHANGED <<version, generationVars, invalidations, menu, floor>>

-----------------------------------------------------------------------------
(* What happens to the repository and to the caches meanwhile. *)

\* A mutation by any process, or a change of what the installation grants.
Change(s) ==
    /\ version[s] < MaxVersion
    /\ version' = [version EXCEPT ![s] = @ + 1]
    /\ UNCHANGED <<generationVars, cacheVars, requestVars, registered,
                   invalidations, menu, floor, since>>

\* Mutant of Expire: full Projects are kept until they are invalidated.
ExpireOthers(p, k) ==
    /\ cache[p][k] # None /\ p[1] # "full"
    /\ cache' = [cache EXCEPT ![p][k] = None]
    /\ anchorOrder' = SelectSeq(anchorOrder, LAMBDA e : e # <<p, k>>)
    /\ UNCHANGED <<version, generationVars, requestVars, registered,
                   invalidations, menu, floor, since>>

\* The entry's time to live is over.
Expire(p, k) ==
    /\ cache[p][k] # None
    /\ cache' = [cache EXCEPT ![p][k] = None]
    /\ anchorOrder' = SelectSeq(anchorOrder, LAMBDA e : e # <<p, k>>)
    /\ UNCHANGED <<version, generationVars, requestVars, registered,
                   invalidations, menu, floor, since>>

\* Mutant of Dropped: loads in flight stay in their maps.
DroppedCacheOnly(P) == {}

\* The loads in flight that an invalidation takes out of their maps.
Dropped(P) == {f \in registered : PlaceOf(f) \in P}

\* Drop what the places hold and the loads in flight for them.
Forget(P) ==
    /\ invalidations < MaxInvalidations
    /\ invalidations' = invalidations + 1
    /\ cache' = [p \in Place |-> IF p \in P THEN [k \in KeysOf(p[1]) |-> None]
                                            ELSE cache[p]]
    /\ anchorOrder' = SelectSeq(anchorOrder, LAMBDA e : e[1] \notin P)
    /\ registered' = registered \ Dropped(P)
    /\ floor' = [p \in Place |-> IF p \in P THEN version[p[2]] ELSE floor[p]]
    /\ UNCHANGED <<version, requestVars, menu, since>>

InvalidateAll ==
    /\ globalGeneration' = NextCacheGeneration(globalGeneration)
    /\ generations' = [s \in Scope |-> 0]
    /\ Forget(Place)

\* Its repositories' generations start again from 0.
InvalidateInstallation(i) ==
    /\ generations' = [s \in Scope |->
                         IF s = i THEN NextCacheGeneration(generations[i])
                         ELSE IF InstallationAt(s) = i THEN 0
                         ELSE generations[s]]
    /\ Forget({p \in Place : InstallationAt(p[2]) = i})
    /\ UNCHANGED globalGeneration

InvalidateRepository(s) ==
    /\ generations' = [generations EXCEPT ![s] = NextCacheGeneration(@)]
    /\ Forget({p \in Place : p[2] = s})
    /\ UNCHANGED globalGeneration

Next ==
    \/ \E r \in Reader, a \in menu :
          Hit(r, a) \/ Start(r, a) \/ \E f \in Reader : Join(r, a, f)
    \/ \E r \in Reader : Answer(r) \/ Fail(r) \/ Return(r)
    \/ \E s \in Scope : Change(s)
    \/ \E p \in Place : \E k \in KeysOf(p[1]) : Expire(p, k)
    \/ InvalidateAll
    \/ \E i \in Installation : InvalidateInstallation(i)
    \/ \E s \in Repository : InvalidateRepository(s)

Spec == Init /\ [][Next]_vars

\* The transport answers or fails every call, time passes, and the event loop
\* runs every continuation.
Fairness ==
    /\ \A r \in Reader : WF_vars(Answer(r) \/ Fail(r)) /\ WF_vars(Return(r))
    /\ \A p \in Place : \A k \in KeysOf(p[1]) : WF_vars(Expire(p, k))

FairSpec == Spec /\ Fairness

-----------------------------------------------------------------------------
(* Properties. *)

Generation == [global : 0..MaxSafeInteger, installation : 0..MaxSafeInteger,
               repository : 0..MaxSafeInteger]

\* The types of the caches, of the requests and of the history; a request
\* waits only for a load that is in progress.
TypeOK ==
    /\ version \in [Scope -> Version]
    /\ globalGeneration \in 0..MaxSafeInteger
    /\ generations \in [Scope -> 0..MaxSafeInteger]
    /\ DOMAIN cache = Place
    /\ \A p \in Place : cache[p] \in [KeysOf(p[1]) -> Version \cup {None}]
    /\ pc \in [Reader -> Phase]
    /\ ask \in [Reader -> Ask \cup {None}]
    /\ generation \in [Reader -> Generation \cup {None}]
    /\ joined \in [Reader -> Reader \cup {None}]
    /\ \A r \in Reader : pc[r] = "waiting" =>
          joined[r] # None /\ pc[joined[r]] \in LoadPhase
    /\ value \in [Reader -> Version \cup {None}]
    /\ registered \subseteq Reader
    /\ invalidations \in 0..MaxInvalidations
    /\ floor \in [Place -> Version] /\ since \in [Reader -> Version]

Guarded == {p \in Place : p[1] # "full"}

\* No load that was in flight during an invalidation brings back what the
\* invalidation dropped: the generation checks of #publishReadProjectCache,
\* #fetchAndVerifyNodeAnchors and #authorizedRepositories.
CacheFollowsInvalidation ==
    \A p \in Guarded : \A k \in KeysOf(p[1]) :
       cache[p][k] # None => cache[p][k] >= floor[p]

\* One answer of GitHub serves all requests for the same thing: there are
\* never two loads of one catalog, or of one installation's grants, within a
\* generation.  The `finally` of an old load must spare its successor.
OneLoadPerGeneration ==
    \A f, g \in Reader :
       /\ pc[f] \in LoadPhase /\ pc[g] \in LoadPhase
       /\ PlaceOf(f) = PlaceOf(g) /\ KindOf(f) \in {"catalog", "grants"}
       /\ generation[f] = generation[g]
       => f = g

\* What CachedReads knows of a request.  Failed requests have ended for it.
RequestOf(r) ==
    IF pc[r] = "idle" THEN None
    ELSE IF PlaceOf(r) \notin Guarded \/ (pc[r] = "resolved" /\ value[r] = None)
    THEN None
    ELSE [place |-> PlaceOf(r), since |-> since[r],
          answer |-> IF pc[r] = "resolved" THEN value[r] ELSE None]

Reads == INSTANCE CachedReads WITH
            Place <- Guarded,
            version <- [p \in Guarded |-> version[p[2]]],
            floor <- [p \in Guarded |-> floor[p]],
            request <- [r \in Reader |-> RequestOf(r)]

\* Reads through the guarded caches and the loads they share are the reads of
\* CachedReads: a request that was asked after an invalidation is answered
\* with nothing older.
ReadsFollowInvalidation == Reads!Spec

\* With no further change, what is cached becomes what GitHub holds, also
\* where no invalidation arrives: after a mutation whose answer was lost.
CachesBecomeCurrent ==
    <>[](\A p \in Place : \A k \in KeysOf(p[1]) :
            cache[p][k] \in {None, version[p[2]]})
=============================================================================
