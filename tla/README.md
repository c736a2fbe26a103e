# hunsu in TLA+

A verification project for hunsu: the decision engine of a Project
(`packages/core`), the way its commands are recorded on the branch
`hunsu/state` of a GitHub repository (`packages/github-store`), the service
that connects them (`apps/api`) and what the dashboard (`apps/web`) sends and
reads. It says what these parts promise, checks the promises with TLC on small
instances, and proves the most important ones with TLAPS for every size.

## The system

| Part | State | Operations | Interacts by |
| --- | --- | --- | --- |
| Decision engine, `packages/core/src/engine.ts` | `ProjectState`: Projects, Nodes, Runs, checkpoints, evidence, reviews, proposals, comparisons, decisions, processed commands | `decideProjectCommand` (fifteen commands), `applyDomainEvent`, `replayDomainEvents`, `unresolvedDivergenceCount` | pure functions, called by the store and by the service |
| State branch store, `github-store/src/state-store.ts` | none of its own; the branch, its tags and its Run branches | `append`, `anchorNode`, `createRunBranch`, `createCoachingNode`, `verifyRunResult`, `readProject`, `reconstructRepository` | calls the transport, several calls per operation |
| GitHub transport, `github-rest.ts` | per-installation chain of requests, cooldowns | `readBranch`, `createBranch`, `commitFiles`, reads of blobs and trees | HTTP, with deadlines and bounded attempts |
| Installation tokens, `auth/github.ts` | token cache, generations, requests in flight | get, reject | called by the transport |
| Application service, `application-service.ts` | read caches with generations, loads in flight | one handler per API operation, `#mutate` for the mutations, invalidation | calls the store; is invalidated by webhooks and by its own mutations |
| Sharded read models, `sharded-read-models.ts` | files beside each batch of the log | materialize on append; decode, window and cross-check on read | written by mutations, read through the service's caches |
| Webhook intake, `webhook.ts` | delivery leases in the ephemeral store | claim, invalidate, complete or release | GitHub deliveries, possibly repeated |
| Ephemeral authority state | one-time consents and codes, refresh grants, delivery leases | create, consume, rotate, claim, complete, release | Durable Objects, or maps in memory |
| OAuth resource, `auth/oauth-resource.ts` | consents, codes, grants | authorize, decide, exchange, refresh | HTTP, ephemeral store |
| Protocol and projections | none | encode, decode, upgrade, project | pure functions |
| Web application | one pending submission, its mutation | submit, retry, select; decode answers | HTTP |

What is hard here, and what a test hardly reaches:

- A mutation takes several calls (read the default head, read the state branch,
  anchor a Node, create blobs, tree and commit, move the ref). Between any two
  of them another process can do all of its own, the process can stop, or a
  response can be lost after its effect took place. There are no locks between
  processes: correctness rests on the idempotency key, on the head that the
  caller confirmed and on GitHub refusing an update that is no fast-forward.
- Decider and replayer state the same rules in different code. A command that
  is accepted and recorded but not replayed makes a Project unreadable. The same
  holds for the read models: their readers fail closed on many relations
  between values that were copied at different times.
- Commands arrive in any order: Runs end while others start, proposals wait
  while their source is rejected, comparisons overlap, decisions of different
  cohorts meet in one result.
- Caches are invalidated while loads are in flight, deliveries are repeated,
  leases expire, grants are refreshed by two clients at once, tokens are
  rejected while others use them, a user retries in another place.

`PROJECT.json` lists these hazards one by one, at their lines, with the
properties that cover them.

## Modules

| Module | Models | Notes |
| --- | --- | --- |
| `ProjectState` | the state, the look-ups and the validators of the engine | shared; `Init` is `emptyProjectState` |
| `ProjectReplay` | `applyDomainEvent`: the records that an event adds | a step replays the events of one command |
| `EventReplay` | what replay checks of ids, keys, times and batches (`validateEventIdentity`, `validateDomainEventBatches`) | the specification of a log; extends `ProjectReplay` |
| `ProjectCore` | `decideProjectCommand`, one action per command, and the divergence count | |
| `ProjectCommands` | what the decider checks of a command's metadata, and what `#mutate` and `commandMetadata` fill in | extends `ProjectCore`; refines `EventReplay` |
| `EventLog` | what the store promises of the branch: open, record, answer | abstract |
| `StateStore` | `#mutate`, `anchorNode`, `append`, `commitFiles` and GitHub's refs | one action per GitHub call; refines `EventLog` |
| `RunRequests` | `#startRun`, `#completeRun`, `#terminalRun`, `#rebuildMaterializations`, `createRunBranch`, `verifyRunResult`, the inspector of a tab and the worker of a Run | composed with `EventLog`, that `StateStore` implements |
| `CachedReads` | what a cached read promises | abstract |
| `ReadCache` | catalogs, full Projects, Node anchors and grants: caches, generations, flights, invalidations | its guarded loads refine `CachedReads` |
| `StateFileCache` | the cache of state files and its flights | run beside `ReadCache` |
| `DeliveryLease` | what the store of deliveries promises to the handlers, by name | abstract |
| `WebhookDelivery` | `GitHubWebhookProcessor` over both stores | refines `DeliveryLease` |
| `OAuthGrants` | `McpOAuthService` over both stores | |
| `RecentlyUsed` | the Maps that give up the entry used longest ago | tables, used by the next two |
| `InstallationTokens` | `GitHubAppTokenProvider` | actions used by the next |
| `GitHubRequests` | `#withInstallationRequestLock`, `#requestWithCooldown`, cooldowns, the second attempt after a 401 | composed with `InstallationTokens` |
| `PageCommitments` | the Merkle trees over pages and their membership proofs | pure |
| `GraphPages`, `ActivityPages`, `EventPages` | graph, activity and event shards: materialization, decoders, windows, filtered pages | pure, over the state |
| `DomainEvents` | the events with their values, as service and engine build them, and the log of a state | pure |
| `EventCodec` | the decoders of events and payloads, the v2 upgrades, reconstruction | pure |
| `ActivityRecords` | the entries of activity lists as values, and their decoders | pure |
| `AuthoritativeReads` | reads that go back from a shard to the stored events and payloads | pure |
| `Projections` | `packages/projections`: what a client is to be shown, from the whole state | the reference of the next |
| `WebViews` | the answers the service builds from shards, and `v2Decoders.ts` | compared with `Projections` |
| `ReadModels` | the readers' properties over all of these | |
| `MC*` | instances for TLC | |
| `*Proofs` (eight) | theorems | see below |

Correspondence to the code. In the engine modules a variable is a field of
`ProjectState`; a command that the decider refuses is no step; the guards of an
action are the checks of its `build...` or `validate...` function in their
order, and the records it adds are those of its events. A validator that runs
between two events of one batch takes the changed part of the state as an
argument, as the code passes the intermediate state. In the modules of
concurrent code a phase (`pc`, `handlers`, `job`) is the `await` at which a
request stands; what it holds in local variables is kept with it, and the
variables without an owner are GitHub's, the store's or the process's.

The read models are functions of the state. `StoredLog` reads the log off the
state: the batch that created the Project, then one batch per command. The order
of the others is not in the state, so it is an arbitrary one, and the theorems
about the log use nothing of it. The materializer's
functions build the shards of that log, and each `Decodes...`, `Loads...` or
`Reads...` operator is the conjunction of the checks of one reader, over the
value that the writer made. So the question asked of every reachable state is
whether any of the readers refuses it, and whether what is shown is what
`packages/projections` says of the state.

### Abstractions

- A Goal, a How (Runner value) and a tree stand for their digests; a digest is
  the term it is computed from. A Node Plan is the set of its Goals with its How:
  the order of Goals, and a proposal that changes nothing but their order or
  wording, are not told apart. Findings, actor identities (the type is kept),
  text, sizes, base64 and gzip are left out; so are timestamps, but for the time at
  which a Node is registered (`ProjectCommands`).
- `CompleteRun` is one command in the engine. The service sends the evidence of a
  Run with its completion: in `ProjectCommands` a request has one command for each
  piece, at indexes that count up, and the completion after them. The service
  appends them at once; there, other commands may come between them. In
  `DomainEvents` such evidence is a batch of its own before its completion.
- The retry look-up `decideRetry` is in `StateStore`, where the store performs it
  before it decides, and a guard of `ProjectCommands`. A commit of the state
  branch is the pair of its base and its number, which is unique because the
  branch only moves forward. A command is a value there and `Accepts` stands for
  the engine.
- In `RunRequests` one append, and one load of the state, is a step of `EventLog`;
  what happens inside is `StateStore`'s. Both may read any older head, and an
  append that reads one answers from it or fails. A failure other than a conflict
  (not found, forbidden, integrity, invalid, unavailable) says nothing about the
  command, as `storeFailure` and `transportFailure` give these for reasons outside
  of the model, some of them as not worth a retry: they are one answer.
- `Before` is the order in which the writer sorts records and in which they were
  recorded, `Precedes` the order that the decoder of activity asks for, which
  compares the same time and id by code units.
- In `ReadCache` a load reads what the scope was at its first answer. A
  repository's contents are no branch, no v2 state, no Projects, or Projects.
- Durations are counted in steps. A record of the webhook store keeps the seconds
  it has left. A timer is never late, and a token request ends before the request
  that waits for it (`TokensComeFirst`: the deadlines of the code are 10 s and
  15 s).
- Signatures, redirect URIs and PKCE are one flag: whether a request presents what
  the record was made for.
- A table of `RecentlyUsed` keeps for each entry which others were used after it,
  in place of the insertion order of a Map or of `lastUsedOrder`: the same order,
  without a counter and without sequences.
- A cursor is the position it encodes. The entry of a Project in the shard
  locator is the shard's path.

## Runs

| Run | Question | Instance |
| --- | --- | --- |
| `coached` | proposals, Coaching children that change Goals or How, Runs, evidence, checkpoints and experiments, from the empty state, with the keys, ids and times of their commands | 4 commits, 2 trees, 2 Goals, 2 Hows, 2 Runs, a proposal, a comparison |
| `decided` | comparisons and decisions over two cohorts, with a second Project over some of the same commits | from the empty state by way of `GrownProject`: four results of two sources |
| `divergence` | a finding, see below | `GrownProject`, four decisions |
| `store_lag` | refinement of the log, keys used once, batches accepted, anchors, confirmed heads, reads one update behind | 2 workers, 2 keys, 2 commands, one push |
| `store_fair` | every attempt ends | 2 workers, one key, reads one update behind |
| `caches` | reads follow invalidations, flights are shared and removed rightly, stale entries vanish | 2 requests, a repository and its installation, 2 Nodes in an anchor cache of one, one change, one invalidation; 2 heads with 2 files |
| `webhook` | the lease, and that what is sent again is processed | 2 deliveries of four kinds, 2 handlers, two faults, a map of one record |
| `oauth_grants` | one family per consent, replays end it | one consent, 2 sessions, 2 families, 2 requests, tokens rotated twice |
| `github_requests` | turns, tokens, cooldowns, and that requests end | 3 requests of 2 installations, room for one token and one cooldown |
| `submissions` | keys, conflicts, and Git before log | one tab, 2 Nodes, one Run, one result, 2 handlers, 3 keys |
| `retries` | a finding, see below | the same with one handler |
| `read_models` | every state can be read and is shown whole | from `GrownProject`, two Runs that writer and reader sort differently, pages of three Nodes, two entries, shards of four events |

Why the bounds are enough to be interesting. Two siblings are the least that
can be compared; two comparisons exercise the overlap rule; the third decision
in `decided` decides in a second cohort after the first is settled. Two Goals
and two Hows make a proposal that changes one, the other or both. Two workers
meet in every pair of phases, and a third attempt of the same request starts
when one of them is idle again. A cache, map or cooldown table of one entry with
two candidates evicts; a token that lives three steps expires during a request.
Six to seven Nodes in pages of three make a last page that is full, and one that
holds one Node; the event list has up to eight shards, of which one request
reads two. The bounds by name: `MaxPush`, `MaxLag` (pushes to the default
branch, updates a read may miss), `MaxVersion`, `MaxInvalidations`, `MaxFaults`,
`MaxMints`, `MaxTime`, and `ShortLog`, which ends `submissions` at three batches.
`GrownProject` is reachable: `decided` begins in the empty state, and only
what leads to it is followed up to there (`ByWayOfGrownProject`).

Constraints. `IdsInOrder`: identities are compared for equality only, so a
behaviour that uses the ids of one kind in another order is a renaming of one
that uses them in increasing order; nothing but renamings is cut. In
`read_models` the order also stands for that of recording (`Before`). `TidySpec` of
`coached` makes the request, its index and its time a function of what a step adds,
so that they multiply no states: every request has a key of its own, the evidence
of a completion counts up, and creating a Project is tried again, with the key it
was created with, which is refused, and with another one; the time differs between
Nodes.
`OneRunHasCheckpoints` and `ReviewsOfFew` leave out checkpoints and reviews of
further targets; `RunsEndEarly` and `SomeRunsAreAlone` follow a Run that failed or
was canceled, and in `coached` one with checkpoints, only while nothing is compared
or no other Run is there: the engine decides nothing on these either; `TwinStartsNothing` keeps
the second Project to comparisons and decisions. `store_lag`, `submissions` and
`oauth_grants` use symmetry of values that are treated alike; no run with a
liveness property does.

`CHECK_DEADLOCK FALSE` is set where a system that has used all its ids or keys
stops. The runs of the store, the caches, webhooks and requests check deadlock.

### Properties that carry the most

- `EveryDecisionReplays`, `EveryStateIsReadable`, `ViewsShowTheState`: whatever
  sequence of commands is accepted of the service can be replayed, with its ids,
  keys and times, decoded, materialized, and read, as far as writer and reader sort
  alike, and is then shown as `packages/projections` says.
- `WindowsShowAll`: walking windows or filtered pages to the end yields every
  entry once, whatever their sizes.
- `ImplementsEventLog`, `AppliedOnce`, `EveryBatchAccepted`, `ConfirmedHead`,
  `NodesAnchored`: an attempt that crashes, loses a response, races another or reads
  late leaves a log of accepted batches on the confirmed heads, no two with one key,
  with every Node anchored. `RecordedIsNotRefused` speaks of the snapshot that an
  attempt read: what is recorded in it is answered and not refused.
- `KeysNameOneCommand`, `ConflictsAreTrue`, `GitPrecedesLog`: over tab, worker,
  handlers and log, a key is never sent with two commands, an answer of conflict is
  not one to what was applied or will be, and the log never names a branch or tag
  that does not exist.
- `ReadsFollowInvalidation`, `CacheFollowsInvalidation`, `CachesBecomeCurrent`:
  guarded loads never bring back what was invalidated; what a load without a
  guard brings back vanishes with its time to live.
- `ImplementsLease`, `AcknowledgedIsProcessed`, `DeliveriesAreProcessed`: only the
  handler that holds a delivery completes it or gives it back, and what is completed
  stays so for its time; a delivery answered with success, be it as a duplicate, was
  processed, is about to be, or had its handler stop after the claim or never learn
  of it; and one that keeps being sent is processed.
- `ConsentBoundsAuthority`, `ReplayEndsFamily`: a consent founds one family at
  most with the context its page showed, every token is honoured once, and a token
  that comes again ends its family.
- `OneAtATime`, `CooldownsHold`, `TokensAreGood`, `RequestsEnd`: failures,
  timeouts and rejections never let two requests of an installation overlap, a
  call be made in a cooldown or with a token that a first attempt was rejected
  with, or a request wait for ever.

### Fairness

- `store_fair`: weak fairness of a worker's own steps, because a call of the
  transport ends by its deadline (`#requestWithCooldown` bounds attempts and
  waiting). Calls may fail, the process may stop, reads may stay behind.
- `caches`: weak fairness of the answer or failure of a load, of a request's
  continuation, and of an entry's expiry, which time brings. Not of invalidations.
- `webhook`: weak fairness of time and of a handler that lives; strong fairness
  of a delivery being taken when it can be. That a delivery is sent again until
  it is processed is a premise: GitHub, or its operator, has reason to after a
  failure, and none after a duplicate was answered with success while its handler
  was lost. Stops and lost answers are bounded by `MaxFaults`; without a bound
  nothing could be promised.
- `github_requests`: weak fairness of a request whose turn has come, and of the
  answer or timeout of its call. Time is not fair: a timer is an upper bound.

### Findings

`divergence` shows that `unresolvedDivergenceCount` can stay above zero although
every result is decided. Let results 3, 4 and 5 have one parent. 3 is selected
and 4 rejected in a `sibling_runs` comparison; 5, compared with result 6 of a
Coaching child in a `coached_how_experiment`, is selected there. Two of three
siblings are now selected, `isCandidateCohortResolved` (engine.ts:504) asks for
one, a selected result cannot be rejected, and the overlap rule admits no
comparison that would bring 3 and 5 together. `tests/projections.test.ts:213`
words the rule as "count as unresolved divergence until decisions decorate
them", and `docs/product-transition.md:73` asks for a count of zero before a
release proceeds.

`retries` shows that a retry of a payload can be sent under a new key. The
comment at `logicalSubmissionKey.ts:10` says that a transport failure does not
clear the key, so that a retry reaches the server with the original one. The
object keeps one payload, and one inspector stays mounted while Nodes are
selected: a start on Node A fails, B is selected, "Retry same request" sends the
same Goal and Run id for B, and when the user is back on A the first payload goes
out under a new key. If the server had recorded it, the retry is refused as a
duplicate Run.

### Notes on the code

Met while modelling; no property is about them, or the one that is holds.

- `#loadRepositoryProjects` publishes its result without the generation check of
  the single loads. `CacheFollowsInvalidation` is stated for guarded loads;
  `CachesBecomeCurrent` covers the rest.
- Every invalidation empties the map of state files. A read between a fetch and
  its look-up then reports an integrity failure of a sound branch
  (`MissingOnlyWhenCleared` says that this is the only way).
- Node detail shows the last activity page of each kind: a decided Node can show
  an empty list of decisions when later ones that concern it fill the page.
- The materializer sorts entries of one timestamp with `localeCompare`
  (sharded-read-models.ts:1223), their decoder asks for the order of code units
  (:2137). Clients choose the ids, and where they differ in case or punctuation
  the two orders can differ, so that the list is refused by its reader. Such
  lists are in the model (`Precedes` of `read_models`); `ActivityIsReadable` is
  about those that are sorted alike (`SortedAlike`).
- `Projections` shows records in the order `Before`, `packages/projections` in that
  of recording, which can differ where records of one time are concerned.
- The decider validates a root with its own `registeredAt` (engine.ts:530) and
  does not look up the id of a command's first event, while replay compares with
  the time of the event (:251) and refuses a used id (:1174). A caller could
  therefore have accepted what replay refuses. The service makes no such command:
  it reads the clock once and derives ids from key, content and index, which is
  what `EveryDecisionReplays` is about, and `applyProjectCommand` applies the
  events before they are recorded.
- A 401 to the second attempt of a request is answered as forbidden
  (github-rest.ts:785) and leaves its token cached. The next request makes its first
  attempt with it, and drops it if that is rejected, too.
- While the requests of an installation take turns, the check of the generation
  after a mint (auth/github.ts:156) never finds another one.
- `projectGraphProjection`, `#graph`, `#events` and `#projectList` are no longer
  reached by a request, `validateNodeGraph` only by tests.

## Proofs

TLAPS checks, for all values of the constants:

- `StateStoreProofs`: `StoreInv` and from it types, anchored Nodes, confirmed
  heads, the bootstrap rule, and `Spec => ImplementsEventLog`: with any number of
  workers, any lag of reads, crashes and lost responses. `StoreInv` states for
  each phase what the attempt may rely on across other workers' steps
  (`PhaseInv`). It is needed because the decision is taken on a snapshot and used
  three calls later. Every step lets the branch and its tags only grow
  (`Grows`), so what rests on a prefix of the log survives (`OthersKept`); the
  step of the worker itself establishes its next phase; the update of the ref
  succeeds only if the snapshot is still the whole log, which is the moment the
  decision becomes a decision on the current state. So keys are used once and every
  batch is accepted on the prefix before it (`KeysAreUsedOnce`, `LogReplays`).
  `SnapshotInv` adds that a refused worker had read a snapshot without its own
  batch. A batch that is in the snapshot read is found and answered; nothing is said
  of one that a late read missed.
- `ProjectCoreProofs` has five parts. The first is about decisions: selections
  and rejections stay apart, a result stays in one cohort, a cohort has one
  future, decisions stay in their Project. The invariant adds that ids identify
  comparisons and that a decision cites an existing one: without it a later
  comparison could join a cohort that already has its future. This part also
  proves the types of the engine.
- Its second part is `TreeInv`, that is the node graph, Runs and results,
  coverage of completed Runs and Coaching dispositions together, and the two
  action properties of ended Runs and rejected Nodes. Commands are first reduced
  to four ways in which Nodes, Runs, evidence and dispositions change
  (`Changes`): a root, a result with its Run's completion, a Coaching child with
  its disposition, or no Node at all. The tree stays acyclic because a new Node's
  commit is not registered while its parent is: given a set of Nodes with the new
  one in it, the Node that the invariant finds in the rest does not point at it.
  Comparisons of experiments stay fair because a source is its result's parent
  and a Node stays as it was registered.
- Its third part is `CommandSpec => EveryDecisionReplays`. The decider checks a
  command against the state before it, the replayer each event against the state
  its predecessors left. The proof needs `TreeInv` at `CreateProject`, which never
  validates its root Node as such: that no Node precedes a Project's root is an
  invariant, not a check. At the two commands whose first event changes what the
  second is validated against, it shows that the change cannot refuse the second.
  Of the metadata, `CommandInv` says that no two commands have one key, and that a
  second event has the id that the next command of its request would have. Such an
  id is not used again, because a command that registers a Node is the last of its
  request: the next index is taken only after a command of one event (`NewEventId`).
- Its fourth part is `Spec => []LogIsReadable`: in whatever order its batches
  were appended, the log of a Project decodes to the values it was made of. Logs
  are put together by recursion, and a recursion is first shown to define a
  function where a bounded rank falls with each step (`RecursionIsDefined`). What
  was recorded is finite, also when there are infinitely many ids, since a step
  adds one record of a kind at most (`RecordsStayFinite`); so the log is a
  sequence of whole batches, each at one place (`FlattenIsMadeOf`). Every batch
  is the one of its command's key, and no two have the same, as ids are unique
  (`IdsAreUnique`, `KeysDetermineBatches`): therefore the events found under a
  key are one batch, numbered without gaps (`BatchesAreValid`). Of each kind of
  event it is shown that the value it carries passes every check of its decoder
  (`NodeDecodes`, `RunDecodes`, ...), and passes it again after the upgrade from
  v2 for proposals and comparisons (`UpgradedComparisonDecodes`). `LogInv` adds
  what these values rest on: the source of a proposal and the target of a review
  are there, a comparison has two Nodes at least, a decision one. Every
  registration is of a Node that the state has, and every Node has one, so its
  tag is found (`TagsAreFound`).
- Its fifth part is about where things come from, `OriginsFit`: a Run has the Goal
  and the Runner of its source's plan, its evidence is for criteria of that Goal,
  and a review is of a Run that is there. A Run is validated against its source when
  it is requested; that the two never come apart is an invariant, as plans and
  Runs change by different commands.
- `RunRequestsProofs` begins with the log itself, which is the abstract
  specification that `StateStore` implements: its types, that it only grows, and
  `LogInv`, on which the rest stands. Opening the branch disturbs no batch because a
  batch names its base, so a log with a batch has one.
- It goes on with the service: keys name one command, Git is ahead of the log,
  and conflicts stand. `RequestInv` states
  for each stage what a handler may rely on (`HandlerInv`), in terms that survive
  the growth of the log, the branches and the tags by other handlers. A conflict is
  told from a prefix of the log, however old, and stands because what a prefix has
  closed stays closed, and was not recorded before it was closed. That theorem has
  the hypothesis `EngineDecides`: the log's `Accepts`, which is left open, is the
  engine's decision.
- `WebhookDeliveryProofs`: `Spec => ImplementsLease` over either store, and that
  an acknowledged delivery is processed. A lease is known by the second it
  expires at, the abstract one by the handlers that have it: a history (`owners`)
  records who claimed a delivery, and `OwnersInv` says that those whose second is
  that of a live lease are those in it. That is what makes the fence by
  `leaseExpiresAt` sound: a handler whose lease passed to another cannot complete
  it. `LeasesInv` has it that in a Durable Object no two handlers share a lease;
  in the map in memory they can, if one is dropped and claimed again within a
  second, and the abstract lease says just that. `HandledInv`: what has a live
  record is processed, about to be, or its handler was lost, and so is what a
  duplicate was answered for.
- `OAuthGrantsProofs`: `GrantInv` has three parts besides types. `RightInv`: the
  one right that a consent gives is in its record, with a request, in its code or
  in its family, and never in two of these; each call of the store passes it on
  or loses it. `AuthorityInv`: what is held goes back to a family of its consent
  and carries its context. `FamilyInv`: a living family is ahead of every token
  that was honoured, and revoked once one of them came again; a family that is
  gone does not come back, else its old tokens would be honoured anew.
- `GitHubRequestsProofs`: turns, cooldowns, tokens, and the limits of the two
  maps. `TurnInv`: of an installation's requests under way all but one wait for
  another one, no two for the same, and the tail is one that none waits for; a
  tail is forgotten only by the request that it is, so a chain never forks.
  `CooldownInv`: an installation that has to be quiet is in the table, with a
  cooldown that lasts as long, and those that have to be quiet fit into it; what
  is evicted is an installation whose quiet the history has already given up.
  `TokenInv`: the tokens of an installation in use, cached or in a call, are no
  other installation's and no first attempt was rejected with them; such a 401 drops
  the token it was about, and what a mint brings is newer than any rejection.
  `DoubtInv` is about those that a second attempt was rejected with: only a first
  attempt is made with one of them. `TimeInv` bounds each
  attempt's deadline by the life of its token, which needs that the refresh skew
  (60 s) covers a request (15 s).
- `ReadCacheProofs`: no guarded cache holds what was invalidated, one generation
  has one load, and `Spec => ReadsFollowInvalidation`. `ReadInv` says that a
  request whose generation is still current was asked after the last invalidation
  of its place (`SinceInv`). That is inductive because a generation, once left,
  never comes again: an invalidation starts the counters below its own from 0,
  but the three together grow in lexicographic order (`Earlier`). The rest of
  `ReadInv` is about sharing: a request waits for a load that is
  under way for the same place, and both were asked for after the same
  invalidation. For the refinement each step is mapped to an ask,
  an answer, an invalidation, a change, or to none.
  Its last part is about `StateFileCache`: a file is reported missing only if it
  does not exist or the map was emptied. `FileInv` says that what a request did not
  miss stays in the map until that is emptied, and that a request waits only for a
  fetch of exactly what it misses.
- `ReadModelsProofs`: first, the filtered event list is complete, `Spec =>
  []EventWalkFindsAll`, the first part of `WindowsShowAll`. One request then
  looks at an interval below the cursor, shows its newest matches and ends at the
  last event it looked at (`ScanShowsMatches`), and by induction on the cursor
  the requests from there on show the rest (`WalkShowsMatches`). Second, windows
  show all there is, `Spec /\ NodesInOrder => []WindowsShowAll`. The records of a
  finite set stand in order at the place of their rank (`InOrderLists`), and
  adjacent parts of a sequence, put together, are a part of it
  (`FlattenOfParts`): so a window of activity, though read from several pages, is
  the part of the list from its offset on (`ActivityWindowShows`), and a window
  of the graph the Nodes from its offset to its end with their edges and active
  Runs (`GraphWindowShows`). A walk is windows with adjacent bounds, from the
  first record to the last (`IsWalk`), by induction on the cursor. `GraphInv`
  adds what only holds of reachable states: Nodes are finite in number, each
  after its parent, and each Run has its source among them; without it an edge
  could come before its source. The hypothesis `NodesInOrder` says what the
  constant `Before` stands for, the order of registration: a new Node is after
  all others. The order of `read_models` satisfies it, as it uses ids in
  increasing order. For the walks of activity no order is assumed: they repeat
  the list whatever its order. Third, no reader refuses what was written, of
  activity the lists that are sorted alike, `Spec /\ NodesInOrder /\
  RecordsInOrder => []EveryStateIsReadable`. For the log that is shown with the
  engine, see above. The tree of a commitment is defined level by level; a
  verifier that climbs from a leaf with the siblings it is offered has on each
  level the digest that stands there (`ProofsHold`), and conversely, if it ends
  in the root, had the leaf at the start (`OnlyLeavesAreProven`): digests are
  terms, so they are equal only for equal inputs. Of the graph it is then enough
  that it is a tree in order (`GraphIsTree`): each edge ends in the Node that is
  its child, and the parent of a Node is in an earlier place; the sums and
  digests of its manifest, pages and shards follow (`TreesReadBack`).
  `ChildrenOfProposals` adds that a child of a proposal has the proposal it came
  from, confirmed. Of activity it needs that ids are unique, so that the record
  that is looked up for an entry is the one it was made of, and `RecordsInOrder`,
  that `Before`, by which the writer sorts, orders the records of each kind.
  Nothing is assumed of `Precedes`, for which the entries of a page are checked:
  the property itself is about the lists that both sort alike. `CommitmentsBind`:
  whatever identity, Nodes or page of activity is handed to a reader with any
  proofs, it takes only what is of this state. Last, everything that the shards
  show is confirmed by the log, `Spec => []ActivityIsAuthoritative`, whatever the
  order of records. The readers look up the event behind each Node, Run, review,
  proposal, comparison and decision, and compare what they have with what it
  says. Conversely to decoding, every event of the log is told by its record
  (`CommandIsTold`), each record has one event of its key (`RecordsAreOnce`), and
  no two events have the same id (`EventIdsDiffer`), so the lookup ends at the
  right one. The shards of the event index and its manifest read back for a log
  of any length (`IndexOfLogIsReadable`). That the values then agree, though the
  state went on after the event, is `OriginsFit` and what the tree's invariant
  says of Runs that have ended.

Assumptions. The absent value is no identity, record, answer, lease, table entry,
generation or page: `NoneIsFresh`, `NoneIsNoRecord`, `NoneIsNoBase`,
`NoneIsNoRefusal`, `NoneIsNoHandler`, `NoneIsNoLease`, `NoneIsNoPage`,
`NoneIsNoEntry`, `NoneIsNoRequest`, `NoneIsNoCursor`, `Sentinels`. Shapes of
constants: `NodeOfType`, `BoundsType`, `LeaseType`, `RecordBounds`, `Times`,
`TokenTimes`, `GateTimes`, `InstallationOfType`, `EventBoundsArePositive`,
`GraphPageSizeIsPositive`, `ActivityPageSizeIsPositive`, `EvidenceHasShape`,
`ContentAtType`, `AsksType`, `ScopesDisjoint`. What a request may name:
`ThereIsAProject`, `CommandsOfRuns`. From the code: `GoalsHaveCriteria` (decoding
admits no Goal without a criterion), `InstallationsFinite` (ids are safe
integers), `SkewCoversRequest` (60 s and 15 s), and in `CacheBounds` that a
process sees fewer invalidations than the 2^53 - 1 after which a generation
wraps. TLC evaluates them in every run of their modules.

Only model-checked: liveness (`AttemptsEnd`, `CachesBecomeCurrent`,
`DeliveriesAreProcessed`, `RequestsEnd`), which is out of the prover's reach; and
of the read models `ViewsShowTheState`, for which what the shards say has to be
followed on through the projections and the dashboard's decoders.
The limit of the anchor cache is modelled, as eviction is part of what a load
publishes, but no property is about it.

## Not modelled

- Bytes and formats: rendering, routing, HTTP headers, cryptography and token
  encoding, session cookies (sealed values without interacting state), JSON
  canonicalization, file names, the checks on single strings.
- `packages/protocol-registry`, `packages/plugin-contract`, `packages/config`:
  read-only tables and the validation of configuration, functions of their input.
- `createCoachingNode`, which makes the empty commit of a Coaching child before it
  is anchored and appended as any other Node is; `runner-runtime.ts`, a stateless
  look-up.
- The in-memory transport, a test double; `StateStore` models GitHub from how the
  store uses it.
- Deployment scripts, and in the web application everything but the submission of
  Runs and the decoding of answers.
