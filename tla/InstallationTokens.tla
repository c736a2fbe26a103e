------------------------- MODULE InstallationTokens -------------------------
(***************************************************************************)
(* GitHubAppTokenProvider: the installation tokens an API process holds.   *)
(* A token is minted on demand, by one request to GitHub for all who ask   *)
(* meanwhile, kept until shortly before it expires or until GitHub has     *)
(* rejected it, and forgotten if too many other installations are in use.  *)
(* Tokens are numbered in the order in which GitHub mints them.            *)
(***************************************************************************)
EXTENDS RecentlyUsed

CONSTANTS
    Lifetime,       \* of a token, as GitHub sets it
    Skew,           \* INSTALLATION_TOKEN_REFRESH_SKEW_SECONDS
    MintTimeout,    \* INSTALLATION_TOKEN_REQUEST_TIMEOUT_MS
    MaxTokens,      \* INSTALLATION_TOKEN_CACHE_MAX_ENTRIES
    MaxMints        \* bound on the tokens minted

ASSUME TokenTimes ==
    /\ Lifetime \in Nat /\ Skew \in Nat /\ Skew < Lifetime
    /\ MintTimeout \in Nat \ {0} /\ MaxTokens \in Nat \ {0}
    /\ MaxMints \in Nat

\* Installation ids are safe integers.
ASSUME InstallationsFinite == IsFiniteSet(Installation)

VARIABLES
    now,
    cache,          \* #cache
    inFlight,       \* #inFlight: each installation's token request, or None
    generations,    \* #cacheGenerations
    minted          \* the number of tokens GitHub has minted

tokenVars == <<cache, inFlight, generations, minted>>

Authority == [installation : Installation, token : Nat, expiresAt : Nat]
TokenRequest == [started : Nat, generation : Nat]

ASSUME NoneIsNoEntry == None \notin Nat \cup Authority \cup TokenRequest

TokensInit ==
    /\ cache = NoEntries /\ minted = 0
    /\ inFlight = [i \in Installation |-> None]
    /\ generations = [i \in Installation |-> 0]

\* Mutant of Usable: a token is used up to its very end.
UsableToTheEnd(entry, time) == entry.expiresAt >= time

Usable(entry, time) == entry.expiresAt - Skew > time

\* #pruneTokenCache: expired entries first, then those used longest ago.
Pruned(table, time) ==
    LET live == {i \in Keys(table) : Usable(table.held[i], time)}
    IN  Only(table, Newest(table, live, MaxTokens))

\* The entry that getAuthority finds in the cache, or None.
HeldIn(table, i) == Pruned(table, now).held[i]

\* getAuthority: the cached token, the one being minted, or a new one.
GetAuthority(table, generation, i) ==
    LET found == HeldIn(table, i) IN
    /\ cache' = IF found = None THEN Pruned(table, now)
                                ELSE Put(Pruned(table, now), i, found)
    /\ inFlight' =
          IF found # None \/ inFlight[i] # None THEN inFlight
          ELSE [inFlight EXCEPT ![i] = [started |-> now,
                                        generation |-> generation]]
    /\ UNCHANGED minted

NewEntry(i) ==
    [installation |-> i, token |-> minted + 1, expiresAt |-> now + Lifetime]

\* GitHub answers with a token, which whoever waits is given; it is kept
\* unless a token was rejected since it was asked for.
TokenMinted(i) ==
    /\ inFlight[i] # None /\ minted < MaxMints
    /\ minted' = minted + 1
    /\ cache' = IF inFlight[i].generation = generations[i]
                THEN Pruned(Put(cache, i, NewEntry(i)), inFlight[i].started)
                ELSE cache
    /\ inFlight' = [inFlight EXCEPT ![i] = None]
    /\ UNCHANGED generations

\* GitHub refuses, its answer is not a usable token, or the deadline passes.
MintFails(i) ==
    /\ inFlight[i] # None
    /\ inFlight' = [inFlight EXCEPT ![i] = None]
    /\ UNCHANGED <<cache, generations, minted>>

MintOverdue(i) ==
    inFlight[i] # None /\ now >= inFlight[i].started + MintTimeout

\* The rejected token is still the one held.
StillHeld(i, token) == cache.held[i] # None /\ cache.held[i].token = token

\* invalidate drops it ...
AfterRejection(i, token) ==
    IF StillHeld(i, token) THEN Only(cache, Keys(cache) \ {i}) ELSE cache

\* ... and then begins a generation.
GenerationsAfter(i, token) ==
    IF StillHeld(i, token) THEN [generations EXCEPT ![i] = @ + 1]
                           ELSE generations
=============================================================================
