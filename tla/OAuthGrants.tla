---------------------------- MODULE OAuthGrants -----------------------------
(***************************************************************************)
(* McpOAuthService over the ephemeral store: a Web session is shown a      *)
(* consent page, its decision gives the client a code, the code gives a    *)
(* family of refresh tokens, and every refresh rotates the family's token  *)
(* and gives an access token.                                              *)
(*                                                                         *)
(* Every call of the store is a step of its own.  A request reads the      *)
(* clock once, when it arrives, and the store reads it again at the call.  *)
(* Calls and responses may lose their answers.  A code has the id of the   *)
(* consent it was made for, and a grant and a token remember it: the code  *)
(* keeps no such thing.  Signatures, redirect URIs and PKCE are one flag:  *)
(* whether the request presents what the record was made for.              *)
(***************************************************************************)
EXTENDS Integers, FiniteSets

CONSTANTS
    Session,        \* sessions of one browser
    ContextOf,      \* the authorization context each of them carries
    Consent,        \* ids of consent requests
    Family,         \* ids of families
    Worker,         \* requests in progress at one time
    ConsentTtl, CodeTtl, RefreshTtl, AccessTtl,
    MaximumRecords, \* of each map in memory
    MaxGeneration,  \* Number.MAX_SAFE_INTEGER
    MaxTime,        \* bound on the clock
    None

ASSUME Times ==
    /\ ConsentTtl \in Nat /\ CodeTtl \in Nat /\ RefreshTtl \in Nat
    /\ AccessTtl \in Nat /\ MaxGeneration \in Nat /\ MaxTime \in Nat

ASSUME NoneIsNoPage == None \notin [session : Session, exp : Nat]

VARIABLES
    durable,        \* Durable Objects, or maps in the process's memory
    now,
    web,            \* the browser's session
    page,           \* Consent -> the signed claims of its page, or None
    consents,       \* Consent -> its record, or None
    codes,          \* Consent -> [context, exp], or None
    grants,         \* Family -> [status, generation, token, exp, context]
    job,            \* Worker -> the request it serves, or None
    known,          \* codes that reached their client
    held,           \* refresh tokens that reached their client
    granted,        \* history: Consent -> families created for it
    spent,          \* history: tokens that were honoured
    replayed,       \* history: families one of whose tokens came again
    access          \* history: access tokens that were issued

storeVars == <<consents, codes, grants>>
historyVars == <<granted, spent, replayed, access>>
worldVars == <<durable, now, web>>
vars == <<worldVars, page, storeVars, job, known, held, historyVars>>

CreationAttempts == 3   \* REFRESH_FAMILY_CREATION_ATTEMPTS

Init ==
    /\ durable \in BOOLEAN /\ now = 0 /\ web \in Session
    /\ page = [c \in Consent |-> None]
    /\ consents = [c \in Consent |-> None]
    /\ codes = [c \in Consent |-> None]
    /\ grants = [f \in Family |-> None]
    /\ job = [w \in Worker |-> None]
    /\ known = {} /\ held = {}
    /\ granted = [c \in Consent |-> {}]
    /\ spent = {} /\ replayed = {} /\ access = {}

-----------------------------------------------------------------------------
(* The store. *)

\* The map after a record was added: expired records are pruned before, and
\* a map that is too large loses its oldest one, here any other one.
Stored(recs, k, r) ==
    LET kept == [x \in DOMAIN recs |->
                   IF recs[x] # None /\ recs[x].exp > now
                   THEN recs[x] ELSE None]
        others == {x \in DOMAIN recs \ {k} : kept[x] # None}
        added == [kept EXCEPT ![k] = r]
    IN  IF durable THEN {[recs EXCEPT ![k] = r]}
        ELSE IF Cardinality(others) < MaximumRecords THEN {added}
        ELSE {[added EXCEPT ![x] = None] : x \in others}

\* Mutant of Consume: what was used stays.
ConsumeKept(recs, k) == recs

\* consumeConsent and consumeAuthorizationCode delete what they find, also
\* when it has expired or is then found to belong to another client.
Consume(recs, k) == [recs EXCEPT ![k] = None]

-----------------------------------------------------------------------------
(* Consent. *)

\* createConsentRequest shows the page of a fresh consent to the session.
ShowConsent(c) ==
    /\ page[c] = None
    /\ page' = [page EXCEPT ![c] = [session |-> web, exp |-> now + ConsentTtl]]
    /\ consents' \in Stored(consents, c, [exp |-> now + ConsentTtl])
    /\ UNCHANGED <<worldVars, codes, grants, job, known, held, historyVars>>

\* The claims of the page name the context and the session that decides.
SameSession(c) ==
    /\ page[c].session = web
    /\ ContextOf[page[c].session] = ContextOf[web]

\* decideConsent up to its first call, consumeConsent.
Decide(w, c, approve) ==
    /\ job[w] = None
    /\ page[c] # None /\ page[c].exp > now /\ SameSession(c)
    /\ consents' = Consume(consents, c)
    /\ \/ /\ approve /\ consents[c] # None /\ consents[c].exp > now
          /\ job' = [job EXCEPT ![w] =
                [step |-> "code", from |-> c, at |-> now,
                 context |-> ContextOf[web]]]
       \/ UNCHANGED job     \* denied, refused, or the answer was lost
    /\ UNCHANGED <<worldVars, page, codes, grants, known, held, historyVars>>

\* createAuthorizationCode, and the redirect that brings it to the client.
CreateCode(w) ==
    /\ job[w] # None /\ job[w].step = "code"
    /\ LET c == job[w].from
       IN  /\ codes' \in Stored(codes, c, [context |-> job[w].context,
                              exp |-> job[w].at + CodeTtl])
           /\ known' \in {known, known \cup {c}}
    /\ job' = [job EXCEPT ![w] = None]
    /\ UNCHANGED <<worldVars, page, consents, grants, held, historyVars>>

-----------------------------------------------------------------------------
(* Tokens. *)

\* #exchangeAuthorizationCode: the code is consumed before it is compared.
RedeemCode(w, c, matches) ==
    /\ job[w] = None /\ c \in known
    /\ codes' = Consume(codes, c)
    /\ \/ /\ matches /\ codes[c] # None /\ codes[c].exp > now
          /\ job' = [job EXCEPT ![w] =
                [step |-> "grant", from |-> c, at |-> now,
                 context |-> codes[c].context, exp |-> now + RefreshTtl,
                 attempts |-> 0]]
       \/ UNCHANGED job     \* refused, or the answer was lost
    /\ UNCHANGED <<worldVars, page, consents, grants, known, held, historyVars>>

Token(w, f, generation, exp) ==
    [family |-> f, generation |-> generation, by |-> w, exp |-> exp]

LiveGrant(f) == grants[f] # None /\ grants[f].exp > now

Responding(w, token, context) ==
    [step |-> "respond", from |-> job[w].from, at |-> job[w].at,
     context |-> context, token |-> token]

AnotherTry(j) ==
    IF j.attempts + 1 = CreationAttempts THEN None
    ELSE [j EXCEPT !.attempts = @ + 1]

\* #createRefreshToken: a family of its own, or another try.  A nonce may
\* have been drawn before, but not by a family that is gone.
CreateGrant(w, f) ==
    /\ job[w] # None /\ job[w].step = "grant"
    /\ IF LiveGrant(f) \/ job[w].exp <= now
       THEN /\ job' = [job EXCEPT ![w] = AnotherTry(job[w])]
            /\ UNCHANGED <<grants, granted>>
       ELSE LET t == Token(w, f, 0, job[w].exp)
            IN  /\ \A c \in Consent : \A g \in granted[c] : g[1] # f
                /\ grants' \in Stored(grants, f,
                     [status |-> "active", generation |-> 0, token |-> t,
                      exp |-> job[w].exp, context |-> job[w].context])
                /\ job' = [job EXCEPT ![w] =
                             Responding(w, t, job[w].context)]
                /\ granted' = [granted EXCEPT ![job[w].from] =
                                 @ \cup {<<f, job[w].exp>>}]
    /\ UNCHANGED <<worldVars, page, consents, codes, known, held,
                   spent, replayed, access>>

NextToken(w, t) == Token(w, t.family, t.generation + 1, t.exp)

\* #exchangeRefreshToken up to its call: the signed token has not expired.
\* The next token is made before the store has been asked.
Refresh(w, t, matches) ==
    /\ job[w] = None
    /\ t.token.exp > now /\ t.token.generation < MaxGeneration
    /\ job' = [job EXCEPT ![w] =
         [step |-> "rotate", from |-> t.from, at |-> now, token |-> t.token,
          matches |-> matches,
          next |-> NextToken(w, t.token)]]
    /\ UNCHANGED <<worldVars, page, storeVars, known, held, historyVars>>

\* Mutant of RotationStatus: a token that was rotated is only refused.
RotationStatusLenient(g, j) ==
    CASE g = None -> "missing"
      [] g # None /\ g.exp <= now -> "expired"
      [] g # None /\ g.exp > now /\ g.status = "revoked" -> "revoked"
      [] g # None /\ g.exp > now /\ g.status = "active" ->
           IF j.matches /\ g.token = j.token THEN "rotated" ELSE "invalid"

\* rotateRefreshGrant: the bindings come before the generation.
RotationStatus(g, j) ==
    CASE g = None -> "missing"
      [] g # None /\ g.exp <= now -> "expired"
      [] g # None /\ g.exp > now /\ g.status = "revoked" -> "revoked"
      [] g # None /\ g.exp > now /\ g.status = "active" ->
           IF ~ j.matches THEN "invalid"
           ELSE IF j.token.generation < g.generation THEN "replayed"
           ELSE IF g.token = j.token THEN "rotated" ELSE "invalid"

\* What becomes of the grant.
RotatedGrant(g, j) ==
    LET status == RotationStatus(g, j)
    IN  CASE status = "expired" -> None
          [] status = "replayed" -> [g EXCEPT !.status = "revoked"]
          [] status = "rotated" ->
               [g EXCEPT !.token = j.next, !.generation = j.next.generation]
          [] OTHER -> g

Rotate(w) ==
    /\ job[w] # None /\ job[w].step = "rotate"
    /\ LET j == job[w]
           f == j.token.family
           honoured == RotationStatus(grants[f], j) = "rotated"
       IN  /\ grants' = [grants EXCEPT ![f] = RotatedGrant(grants[f], j)]
           /\ \/ /\ honoured
                 /\ job' = [job EXCEPT ![w] =
                              Responding(w, j.next, grants[f].context)]
              \/ job' = [job EXCEPT ![w] = None]    \* or the answer was lost
           /\ spent' = IF honoured THEN spent \cup {j.token} ELSE spent
           /\ replayed' = IF j.matches /\ LiveGrant(f) /\ j.token \in spent
                          THEN replayed \cup {<<f, j.token.exp>>}
                          ELSE replayed
    /\ UNCHANGED <<worldVars, page, consents, codes, known, held, granted,
                   access>>

Shorter(a, b) == IF a < b THEN a ELSE b

AccessExp(j) == Shorter(j.at + AccessTtl, j.token.exp)

\* #tokenResponse, and the response, which may not reach the client.
Respond(w) ==
    /\ job[w] # None /\ job[w].step = "respond"
    /\ LET j == job[w]
       IN  IF AccessExp(j) > j.at
           THEN /\ access' = access \cup {[from |-> j.from,
                                           context |-> j.context,
                                           exp |-> AccessExp(j)]}
                /\ held' \in {held, held \cup {[token |-> j.token,
                                                from |-> j.from]}}
           ELSE UNCHANGED <<access, held>>
    /\ job' = [job EXCEPT ![w] = None]
    /\ UNCHANGED <<worldVars, page, storeVars, known, granted, spent, replayed>>

-----------------------------------------------------------------------------
(* The world. *)

\* Another login, or a change of what the session may use.
ChangeSession(s) ==
    /\ web # s /\ web' = s
    /\ UNCHANGED <<durable, now, page, storeVars, job, known, held,
                   historyVars>>

Tick ==
    /\ now < MaxTime /\ now' = now + 1
    /\ UNCHANGED <<durable, web, page, storeVars, job, known, held,
                   historyVars>>

\* The alarm deletes a record that has expired.
Alarm ==
    /\ durable
    /\ \/ /\ \E c \in Consent : /\ consents[c] # None /\ consents[c].exp <= now
                                /\ consents' = [consents EXCEPT ![c] = None]
          /\ UNCHANGED <<codes, grants>>
       \/ /\ \E c \in Consent : /\ codes[c] # None /\ codes[c].exp <= now
                                /\ codes' = [codes EXCEPT ![c] = None]
          /\ UNCHANGED <<consents, grants>>
       \/ /\ \E f \in Family : /\ grants[f] # None /\ grants[f].exp <= now
                               /\ grants' = [grants EXCEPT ![f] = None]
          /\ UNCHANGED <<consents, codes>>
    /\ UNCHANGED <<worldVars, page, job, known, held, historyVars>>

\* The process goes away, with its maps and its requests.
Restart ==
    /\ ~ durable
    /\ consents' = [c \in Consent |-> None]
    /\ codes' = [c \in Consent |-> None]
    /\ grants' = [f \in Family |-> None]
    /\ job' = [w \in Worker |-> None]
    /\ UNCHANGED <<worldVars, page, known, held, historyVars>>

Next ==
    \/ \E c \in Consent : ShowConsent(c)
    \/ \E w \in Worker :
          \/ \E c \in Consent, yes \in BOOLEAN :
                Decide(w, c, yes) \/ RedeemCode(w, c, yes)
          \/ CreateCode(w)
          \/ \E f \in Family : CreateGrant(w, f)
          \/ \E h \in held, yes \in BOOLEAN : Refresh(w, h, yes)
          \/ Rotate(w) \/ Respond(w)
    \/ \E s \in Session : ChangeSession(s)
    \/ Tick \/ Alarm \/ Restart

Spec == Init /\ [][Next]_vars

-----------------------------------------------------------------------------
(* Properties. *)

RefreshToken == [family : Family, generation : Nat, by : Worker, exp : Nat]

Context == {ContextOf[s] : s \in Session}

GrantRecord == [status : {"active", "revoked"}, generation : Nat,
                token : RefreshToken, exp : Nat, context : Context]

Job ==
    [step : {"code"}, from : Consent, at : Nat, context : Context]
    \cup [step : {"grant"}, from : Consent, at : Nat, context : Context,
          exp : Nat, attempts : Nat]
    \cup [step : {"rotate"}, from : Consent, at : Nat, token : RefreshToken,
          matches : BOOLEAN, next : RefreshToken]
    \cup [step : {"respond"}, from : Consent, at : Nat, context : Context,
          token : RefreshToken]

\* The types of the variables.
TypeOK ==
    /\ durable \in BOOLEAN /\ now \in 0..MaxTime /\ web \in Session
    /\ page \in [Consent -> [session : Session, exp : Nat] \cup {None}]
    /\ consents \in [Consent -> [exp : Nat] \cup {None}]
    /\ codes \in [Consent -> [context : Context, exp : Nat] \cup {None}]
    /\ grants \in [Family -> GrantRecord \cup {None}]
    /\ job \in [Worker -> Job \cup {None}]
    /\ known \subseteq Consent
    /\ held \subseteq [token : RefreshToken, from : Consent]
    /\ granted \in [Consent -> SUBSET (Family \X Nat)]
    /\ spent \subseteq RefreshToken
    /\ replayed \subseteq Family \X Nat
    /\ access \subseteq [from : Consent, context : Context, exp : Nat]

\* What a client comes to hold goes back to one decision: a consent founds
\* at most one family, whatever requests race or are sent again; its access
\* tokens carry the context of the session that was shown the page; and
\* none of them outlives the family's time by being refreshed.
ConsentBoundsAuthority ==
    /\ \A c \in Consent : Cardinality(granted[c]) <= 1
    /\ \A a \in access :
          /\ a.context = ContextOf[page[a.from].session]
          /\ \E g \in granted[a.from] : a.exp <= g[2]

\* A refresh token is honoured once, though two requests present it or an
\* answer was lost; and when it has come again while its family lives, no
\* token of the family is honoured any more.
ReplayEndsFamily ==
    [][\A w \in Worker :
          /\ job[w] # None /\ job[w].step = "rotate"
          /\ job'[w] # None /\ job'[w].step = "respond"
          => LET t == job[w].token
             IN  t \notin spent /\ <<t.family, t.exp>> \notin replayed]_vars
=============================================================================
