--------------------------- MODULE GitHubRequests ---------------------------
(***************************************************************************)
(* GitHubRestTransport: the requests of an API process to GitHub.          *)
(* Requests of one installation take turns: each waits for the one before  *)
(* it, a chain of promises whose end is kept in #installationRequestTails. *)
(* A failure that asks for patience starts a cooldown, in which the        *)
(* installation's requests fail without a call.  A request that GitHub     *)
(* answers with 401 is sent once more, with another token.                 *)
(*                                                                         *)
(* Time is counted in steps as long as the shortest cooldown, and a timer  *)
(* is never late.                                                          *)
(***************************************************************************)
EXTENDS InstallationTokens

CONSTANTS
    Request,            \* requests that may be in progress at one time
    InstallationOf,     \* the installation each is for
    RequestTimeout,     \* DEFAULT_GITHUB_REQUEST_TIMEOUT_MS
    TransientCooldown,  \* TRANSIENT_FAILURE_COOLDOWN_SECONDS
    Cooldowns,          \* those that GitHub or a refusal may ask for
    MaxCooldowns,       \* MAX_INSTALLATION_COOLDOWNS
    MaxTime             \* bound on the clock

ASSUME InstallationOfType == InstallationOf \in [Request -> Installation]
ASSUME NoneIsNoRequest == None \notin Request
ASSUME GateTimes ==
    /\ RequestTimeout \in Nat \ {0} /\ TransientCooldown \in Cooldowns
    /\ Cooldowns \subseteq Nat \ {0}
    /\ MaxCooldowns \in Nat \ {0} /\ MaxTime \in Nat

\* So a request for a token is over before the request that waits for it.
ASSUME TokensComeFirst == MintTimeout < RequestTimeout

\* A token that is usable when an attempt begins lasts until its deadline.
ASSUME SkewCoversRequest == RequestTimeout <= Skew

VARIABLES
    tail,           \* #installationRequestTails: the last request, or None
    after,          \* the request each one waits for, or None
    pc,             \* idle, queued, authority, calling
    attempt,        \* 0, then 1 after a 401
    deadline,       \* of the attempt
    token,          \* the token it is made with
    cooldowns,      \* #installationCooldowns: when each one's cooldown ends
    quietUntil,     \* history: when the last cooldown of each one ends
    rejected,       \* history: tokens that a first attempt was rejected with
    doubted         \* history: tokens that a second one was rejected with

gateVars == <<tail, after, pc, attempt, deadline, token, cooldowns,
              quietUntil, rejected, doubted>>
vars == <<now, tokenVars, gateVars>>

Init ==
    /\ now = 0 /\ TokensInit
    /\ tail = [i \in Installation |-> None]
    /\ after = [r \in Request |-> None]
    /\ pc = [r \in Request |-> "idle"]
    /\ attempt = [r \in Request |-> 0] /\ deadline = [r \in Request |-> 0]
    /\ token = [r \in Request |-> None]
    /\ cooldowns = NoEntries /\ rejected = {} /\ doubted = {}
    /\ quietUntil = [i \in Installation |-> 0]

Attempting == {"authority", "calling"}

\* A request takes its place behind the last one of its installation.
Send(r) ==
    LET i == InstallationOf[r] IN
    /\ pc[r] = "idle"
    /\ pc' = [pc EXCEPT ![r] = "queued"]
    /\ after' = [after EXCEPT ![r] = tail[i]]
    /\ tail' = [tail EXCEPT ![i] = r]
    /\ UNCHANGED <<now, tokenVars, attempt, deadline, token, cooldowns,
                   quietUntil, rejected, doubted>>

\* Mutant of NextTail: whoever leaves, the installation has no tail.
NextTailNone(r) == [tail EXCEPT ![InstallationOf[r]] = None]

\* The end of the chain is forgotten by the request that is that end.
NextTail(r) ==
    IF tail[InstallationOf[r]] = r THEN [tail EXCEPT ![InstallationOf[r]] = None]
                                   ELSE tail

\* Mutant of Released: a request that ends in its second attempt keeps its turn.
ReleasedFirst(r) == IF attempt[r] = 0 THEN {r} ELSE {}

\* Those whose turn is over when r ends, however it ends.
Released(r) == {r}

\* The end of a request.
Leave(r) ==
    /\ pc' = [pc EXCEPT ![r] = "idle"]
    /\ tail' = NextTail(r)
    /\ after' = [q \in Request |-> IF after[q] \in Released(r) THEN None
                                                               ELSE after[q]]
    /\ attempt' = [attempt EXCEPT ![r] = 0]
    /\ deadline' = [deadline EXCEPT ![r] = 0]
    /\ token' = [token EXCEPT ![r] = None]

Active(table) == {i \in Keys(table) : table.held[i] > now}

\* Mutant of Remembered: the oldest ones are kept.
RememberedOldest(table) ==
    Only(table, {i \in Active(table) :
            Cardinality({j \in Active(table) : i \in table.newer[j]})
               < MaxCooldowns})

\* What is kept of the cooldowns: the active ones, the most recent if too many.
Remembered(table) == Only(table, Newest(table, Active(table), MaxCooldowns))

Later(a, b) == IF a > b THEN a ELSE b

Quiet == {i \in Installation : quietUntil[i] > now}

\* #recordInstallationCooldown: a longer cooldown is not shortened.  If there
\* is no room for another one, those of other installations may be forgotten.
RecordCooldown(i, seconds) ==
    LET retryAt == now + seconds
        longer  == cooldowns.held[i] # None /\ cooldowns.held[i] > retryAt
        crowded == Cardinality(Active(cooldowns) \cup {i}) > MaxCooldowns
    IN  /\ cooldowns' = Remembered(IF longer THEN cooldowns
                                   ELSE Put(cooldowns, i, retryAt))
        /\ quietUntil' = [j \in Installation |->
                            IF j = i THEN Later(quietUntil[i], retryAt)
                            ELSE IF crowded THEN 0 ELSE quietUntil[j]]

\* An attempt begins: it has the rest of its time for token and answer.
Begin(r, n, table, generation) ==
    LET found == HeldIn(table, InstallationOf[r]) IN
    /\ GetAuthority(table, generation, InstallationOf[r])
    /\ attempt' = [attempt EXCEPT ![r] = n]
    /\ deadline' = [deadline EXCEPT ![r] = now + RequestTimeout]
    /\ token' = [token EXCEPT ![r] = found]
    /\ pc' = [pc EXCEPT ![r] = IF found = None THEN "authority"
                                              ELSE "calling"]

MyTurn(r) == pc[r] = "queued" /\ after[r] = None

\* #activeInstallationCooldown, when the request's turn has come.
Refused(r) == InstallationOf[r] \in Active(cooldowns)

\* In a cooldown the request fails at once; the cooldown becomes the newest.
Refuse(r) ==
    /\ MyTurn(r) /\ Refused(r)
    /\ cooldowns' = LET i == InstallationOf[r]
                    IN  Put(Only(cooldowns, Active(cooldowns)), i,
                            cooldowns.held[i])
    /\ Leave(r)
    /\ UNCHANGED <<now, tokenVars, quietUntil, rejected, doubted>>

Enter(r) ==
    /\ MyTurn(r) /\ ~Refused(r)
    /\ Begin(r, 0, cache, generations[InstallationOf[r]])
    /\ cooldowns' = Only(cooldowns, Active(cooldowns))
    /\ UNCHANGED <<now, generations, tail, after, quietUntil, rejected, doubted>>

\* The requests that wait for the token of an installation.
Waiting(i) == {r \in Request : pc[r] = "authority" /\ InstallationOf[r] = i}

Minted(i) ==
    /\ TokenMinted(i)
    /\ pc' = [r \in Request |-> IF r \in Waiting(i) THEN "calling" ELSE pc[r]]
    /\ token' = [r \in Request |-> IF r \in Waiting(i) THEN NewEntry(i)
                                                       ELSE token[r]]
    /\ UNCHANGED <<now, tail, after, attempt, deadline, cooldowns,
                   quietUntil, rejected, doubted>>

\* Without a token the request fails, and its installation has to be patient.
Unauthorized(r, seconds) ==
    /\ pc[r] = "authority"
    /\ MintFails(InstallationOf[r])
    /\ RecordCooldown(InstallationOf[r], seconds)
    /\ Leave(r)
    /\ UNCHANGED <<now, rejected, doubted>>

\* GitHub answers: with a result, or with an error that needs no patience.
Answered(r) ==
    /\ pc[r] = "calling"
    /\ Leave(r)
    /\ UNCHANGED <<now, tokenVars, cooldowns,
                   quietUntil, rejected, doubted>>

\* GitHub limits the rate or has failed; or the connection has.
Failed(r, seconds) ==
    /\ pc[r] = "calling"
    /\ RecordCooldown(InstallationOf[r], seconds)
    /\ Leave(r)
    /\ UNCHANGED <<now, tokenVars, rejected, doubted>>

\* 401 to the second attempt: forbidden, and the token stays where it is.
RejectedAgain(r) ==
    /\ pc[r] = "calling" /\ attempt[r] = 1
    /\ doubted' = doubted \cup {token[r].token}
    /\ Leave(r)
    /\ UNCHANGED <<now, tokenVars, cooldowns, quietUntil, rejected>>

\* 401 to the first attempt: its token is dropped and another one is tried.
Rejected(r) ==
    LET i == InstallationOf[r] IN
    /\ pc[r] = "calling" /\ attempt[r] = 0
    /\ rejected' = rejected \cup {token[r].token}
    /\ doubted' = doubted \ {token[r].token}
    /\ generations' = GenerationsAfter(i, token[r].token)
    /\ Begin(r, 1, AfterRejection(i, token[r].token), generations'[i])
    /\ UNCHANGED <<now, tail, after, cooldowns, quietUntil>>

TimesOut(r) ==
    /\ pc[r] \in Attempting /\ now >= deadline[r]
    /\ RecordCooldown(InstallationOf[r], TransientCooldown)
    /\ Leave(r)
    /\ UNCHANGED <<now, tokenVars, rejected, doubted>>

\* Time passes until the next timer is due.
Tick ==
    /\ now < MaxTime
    /\ \A r \in Request : pc[r] \in Attempting => now < deadline[r]
    /\ \A i \in Installation : ~MintOverdue(i)
    /\ now' = now + 1
    /\ quietUntil' = [i \in Installation |-> IF i \in Quiet THEN quietUntil[i]
                                             ELSE 0]
    /\ UNCHANGED <<tokenVars, tail, after, pc, attempt, deadline, token,
                   cooldowns, rejected, doubted>>

Next ==
    \/ \E r \in Request :
          \/ Send(r) \/ Enter(r) \/ Refuse(r) \/ Answered(r) \/ Rejected(r)
          \/ RejectedAgain(r) \/ TimesOut(r)
          \/ \E c \in Cooldowns : Unauthorized(r, c) \/ Failed(r, c)
    \/ \E i \in Installation : Minted(i)
    \/ Tick

Spec == Init /\ [][Next]_vars

\* A request whose turn has come proceeds; GitHub answers, or a timer ends the
\* wait.
Fairness ==
    \A r \in Request :
       /\ WF_vars(Enter(r) \/ Refuse(r))
       /\ WF_vars(\/ Answered(r) \/ TimesOut(r)
                  \/ \E c \in Cooldowns : Unauthorized(r, c) \/ Failed(r, c))

FairSpec == Spec /\ Fairness

-----------------------------------------------------------------------------
(* Properties. *)

Phase == {"idle", "queued"} \cup Attempting

\* The types of the state and of its history; a call has a token.
TypeOK ==
    /\ now \in Nat /\ minted \in Nat /\ rejected \cup doubted \subseteq Nat
    /\ cache.held \in [Installation -> Authority \cup {None}]
    /\ inFlight \in [Installation -> TokenRequest \cup {None}]
    /\ generations \in [Installation -> Nat]
    /\ tail \in [Installation -> Request \cup {None}]
    /\ after \in [Request -> Request \cup {None}]
    /\ pc \in [Request -> Phase]
    /\ attempt \in [Request -> {0, 1}] /\ deadline \in [Request -> Nat]
    /\ token \in [Request -> Authority \cup {None}]
    /\ \A r \in Request : pc[r] = "calling" => token[r] # None
    /\ cooldowns.held \in [Installation -> Nat \cup {None}]
    /\ quietUntil \in [Installation -> Nat]

\* However requests end, and however many come and go, those of an
\* installation take turns (#withInstallationRequestLock).
OneAtATime ==
    \A q, r \in Request :
       /\ q # r /\ InstallationOf[q] = InstallationOf[r]
       /\ pc[q] \in Attempting
       => pc[r] \notin Attempting

\* A call is made with a token of its installation that, the refresh skew
\* being longer than a request may take, does not expire before the call is
\* over.  A token that a first attempt was rejected with is never used again.
\* One that a second attempt was rejected with stays cached, and the next
\* request begins with it; no second attempt is made with it any more.
TokensAreGood ==
    \A r \in Request : pc[r] = "calling" =>
       /\ token[r].installation = InstallationOf[r]
       /\ now < token[r].expiresAt
       /\ token[r].token \notin rejected
       /\ attempt[r] = 1 => token[r].token \notin doubted

\* After a failure that asks for patience nothing is sent to GitHub for the
\* installation until the cooldown is over, also by the requests that were
\* already waiting for their turn; unless too many installations are cooling.
CooldownsHold ==
    [][\A r \in Request :
          pc[r] = "queued" /\ pc'[r] \in Attempting
          => InstallationOf[r] \notin Quiet]_vars

\* Every request ends: its turn comes, whatever happens to those before it.
RequestsEnd == \A r \in Request : pc[r] # "idle" ~> pc[r] = "idle"
=============================================================================
