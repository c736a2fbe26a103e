--------------------------- MODULE OAuthGrantsProofs -------------------------
(***************************************************************************)
(* What a client comes to hold goes back to one decision, and a token that *)
(* is presented again ends its family: for all sessions, consents,         *)
(* families, requests and limits, over either store.                       *)
(*                                                                         *)
(* The argument follows the one right that a consent gives: it is in the   *)
(* record of the consent, then with the request that decides, then in the  *)
(* code, then with the request that redeems it, then in the family.  Each  *)
(* call of the store passes it on or loses it, and none copies it.         *)
(***************************************************************************)
EXTENDS OAuthGrants, FiniteSetTheorems, TLAPS

-----------------------------------------------------------------------------
(* The store *)

\* What the store keeps after a record was added: the record, and of the
\* others some.
LEMMA StoredKeeps ==
    ASSUME NEW S, NEW T, NEW recs \in [S -> T \cup {None}], NEW k \in S,
           NEW r \in T, NEW new \in Stored(recs, k, r)
    PROVE  /\ new \in [S -> T \cup {None}]
           /\ new[k] = r
           /\ \A x \in S \ {k} : new[x] = recs[x] \/ new[x] = None
  <1> DEFINE kept == [x \in DOMAIN recs |->
                        IF recs[x] # None /\ recs[x].exp > now
                        THEN recs[x] ELSE None]
             others == {x \in DOMAIN recs \ {k} : kept[x] # None}
             added == [kept EXCEPT ![k] = r]
  <1>1. new \in IF durable THEN {[recs EXCEPT ![k] = r]}
                ELSE IF Cardinality(others) < MaximumRecords THEN {added}
                ELSE {[added EXCEPT ![x] = None] : x \in others}
    BY DEF Stored
  <1>2. kept \in [S -> T \cup {None}]
        /\ \A x \in S : kept[x] = recs[x] \/ kept[x] = None
    OBVIOUS
  <1>3. others \subseteq S \ {k}
    OBVIOUS
  <1> HIDE DEF kept, others
  <1>4. /\ added \in [S -> T \cup {None}] /\ added[k] = r
        /\ \A x \in S \ {k} : added[x] = recs[x] \/ added[x] = None
    BY <1>2
  <1> HIDE DEF added
  <1>5. CASE new = [recs EXCEPT ![k] = r]
    BY <1>5
  <1>6. CASE new = added
    BY <1>4, <1>6
  <1>7. ASSUME NEW x \in others, new = [added EXCEPT ![x] = None]
        PROVE  /\ new \in [S -> T \cup {None}]
               /\ new[k] = r
               /\ \A y \in S \ {k} : new[y] = recs[y] \/ new[y] = None
    BY <1>3, <1>4, <1>7
  <1> QED
    BY <1>1, <1>5, <1>6, <1>7

-----------------------------------------------------------------------------
(* Types *)

LEMMA InitTypes == Init => TypeOK
  BY Times DEF Init, TypeOK

LEMMA ShowTypes ==
    ASSUME TypeOK, NEW c \in Consent, ShowConsent(c)
    PROVE  /\ TypeOK'
           /\ \A x \in Consent \ {c} : consents'[x] \in {consents[x], None}
  <1> DEFINE T == [exp : Nat]
             r == [exp |-> now + ConsentTtl]
  <1>1. r \in T /\ consents \in [Consent -> T \cup {None}]
        /\ consents' \in Stored(consents, c, r)
    BY Times DEF ShowConsent, TypeOK
  <1>2. [session |-> web, exp |-> now + ConsentTtl]
          \in [session : Session, exp : Nat]
    BY Times DEF TypeOK
  <1> HIDE DEF T, r
  <1>3. /\ consents' \in [Consent -> T \cup {None}]
        /\ \A x \in Consent \ {c} : consents'[x] \in {consents[x], None}
    BY <1>1, StoredKeeps
  <1>4. page' \in [Consent -> [session : Session, exp : Nat] \cup {None}]
    BY <1>2 DEF ShowConsent, TypeOK
  <1>5. TypeOK'
    BY <1>3, <1>4 DEF ShowConsent, TypeOK, worldVars, historyVars, T
  <1> QED
    BY <1>3, <1>5

LEMMA DecideTypes ==
    ASSUME TypeOK, NEW w \in Worker, NEW c \in Consent, NEW yes \in BOOLEAN,
           Decide(w, c, yes)
    PROVE  TypeOK'
  BY DEF Decide, Consume, TypeOK, worldVars, historyVars, Job, Context

LEMMA CodeTypes ==
    ASSUME TypeOK, NEW w \in Worker, CreateCode(w)
    PROVE  /\ TypeOK'
           /\ job[w].from \in Consent
           /\ codes'[job[w].from].context = job[w].context
           /\ \A x \in Consent \ {job[w].from} : codes'[x] \in {codes[x], None}
  <1> DEFINE T == [context : Context, exp : Nat]
             c == job[w].from
             r == [context |-> job[w].context, exp |-> job[w].at + CodeTtl]
  <1>1. job[w] \in [step : {"code"}, from : Consent, at : Nat,
                    context : Context]
    BY DEF CreateCode, TypeOK, Job
  <1>2. r \in T /\ codes \in [Consent -> T \cup {None}] /\ c \in Consent
        /\ codes' \in Stored(codes, c, r)
    BY <1>1, Times DEF CreateCode, TypeOK
  <1> HIDE DEF T, r
  <1>3. /\ codes' \in [Consent -> T \cup {None}] /\ codes'[c] = r
        /\ \A x \in Consent \ {c} : codes'[x] \in {codes[x], None}
    BY <1>2, StoredKeeps
  <1>4. TypeOK'
    BY <1>2, <1>3 DEF CreateCode, TypeOK, worldVars, historyVars, T
  <1> QED
    BY <1>1, <1>3, <1>4 DEF r

LEMMA RedeemTypes ==
    ASSUME TypeOK, NEW w \in Worker, NEW c \in Consent, NEW yes \in BOOLEAN,
           RedeemCode(w, c, yes)
    PROVE  TypeOK'
  BY Times DEF RedeemCode, Consume, TypeOK, worldVars, historyVars, Job

LEMMA GrantTypes ==
    ASSUME TypeOK, NEW w \in Worker, NEW f \in Family, CreateGrant(w, f)
    PROVE  /\ TypeOK'
           /\ \A x \in Family \ {f} : grants'[x] \in {grants[x], None}
           /\ \/ /\ UNCHANGED <<grants, granted>>
                 /\ \E n : /\ job' = [job EXCEPT ![w] = n]
                           /\ \/ n = None
                              \/ /\ n.step = "grant" /\ n.from = job[w].from
                                 /\ n.context = job[w].context
              \/ LET t == Token(w, f, 0, job[w].exp)
                 IN  /\ \A c \in Consent : \A g \in granted[c] : g[1] # f
                     /\ grants'[f] = [status |-> "active", generation |-> 0,
                            token |-> t, exp |-> job[w].exp,
                            context |-> job[w].context]
                     /\ job' = [job EXCEPT ![w] =
                                  Responding(w, t, job[w].context)]
                     /\ granted' = [granted EXCEPT ![job[w].from] =
                                      @ \cup {<<f, job[w].exp>>}]
  <1> DEFINE t == Token(w, f, 0, job[w].exp)
             r == [status |-> "active", generation |-> 0, token |-> t,
                   exp |-> job[w].exp, context |-> job[w].context]
  <1>1. job[w] \in [step : {"grant"}, from : Consent, at : Nat,
                    context : Context, exp : Nat, attempts : Nat]
    BY DEF CreateGrant, TypeOK, Job
  <1>2. t \in RefreshToken
    BY <1>1 DEF Token, RefreshToken
  <1>3. CASE LiveGrant(f) \/ job[w].exp <= now
    <2> DEFINE again == [job[w] EXCEPT !.attempts = @ + 1]
               n == AnotherTry(job[w])
    <2>1. UNCHANGED <<grants, granted>> /\ job' = [job EXCEPT ![w] = n]
      BY <1>3 DEF CreateGrant
    <2>2. /\ again \in Job /\ again.step = "grant"
          /\ again.from = job[w].from /\ again.context = job[w].context
          /\ n = None \/ n = again
      BY <1>1 DEF Job, AnotherTry
    <2> HIDE DEF again, n
    <2>3. n \in Job \cup {None}
      BY <2>2
    <2>4. n = None \/ /\ n.step = "grant" /\ n.from = job[w].from
                      /\ n.context = job[w].context
      BY <2>2
    <2>5. TypeOK'
      BY <2>1, <2>3 DEF CreateGrant, TypeOK, worldVars
    <2> QED
      BY <1>3, <2>1, <2>4, <2>5 DEF CreateGrant
  <1>4. CASE ~ (LiveGrant(f) \/ job[w].exp <= now)
    <2>1. /\ \A c \in Consent : \A g \in granted[c] : g[1] # f
          /\ grants' \in Stored(grants, f, r)
          /\ job' = [job EXCEPT ![w] = Responding(w, t, job[w].context)]
          /\ granted' = [granted EXCEPT ![job[w].from] =
                           @ \cup {<<f, job[w].exp>>}]
      BY <1>4 DEF CreateGrant
    <2>2. r \in GrantRecord
      BY <1>1, <1>2 DEF GrantRecord
    <2>3. Responding(w, t, job[w].context) \in Job
      BY <1>1, <1>2 DEF Responding, Job
    <2> HIDE DEF t, r
    <2> DEFINE T == GrantRecord
    <2>7. /\ grants \in [Family -> T \cup {None}] /\ r \in T
          /\ grants' \in Stored(grants, f, r)
      BY <2>1, <2>2 DEF TypeOK
    <2> HIDE DEF T
    <2>4. /\ grants' \in [Family -> T \cup {None}]
          /\ grants'[f] = r
          /\ \A x \in Family \ {f} : grants'[x] \in {grants[x], None}
      BY <2>7, StoredKeeps
    <2>5. granted' \in [Consent -> SUBSET (Family \X Nat)]
      BY <1>1, <2>1 DEF TypeOK
    <2>6. TypeOK'
      BY <2>1, <2>3, <2>4, <2>5 DEF CreateGrant, TypeOK, worldVars, T
    <2> QED
      BY <2>1, <2>4, <2>6 DEF t, r
  <1> QED
    BY <1>3, <1>4

LEMMA RefreshTypes ==
    ASSUME TypeOK, NEW w \in Worker, NEW h \in held, NEW yes \in BOOLEAN,
           Refresh(w, h, yes)
    PROVE  TypeOK'
  <1> DEFINE j == [step |-> "rotate", from |-> h.from, at |-> now,
                   token |-> h.token, matches |-> yes,
                   next |-> NextToken(w, h.token)]
  <1>1. h.token \in RefreshToken /\ h.from \in Consent
    BY DEF TypeOK
  <1>2. NextToken(w, h.token) \in RefreshToken
    BY <1>1 DEF NextToken, Token, RefreshToken
  <1>3. j \in Job
    BY <1>1, <1>2 DEF Job, TypeOK
  <1> HIDE DEF j
  <1>4. job' = [job EXCEPT ![w] = j]
    BY DEF Refresh, j
  <1> QED
    BY <1>3, <1>4 DEF Refresh, TypeOK, worldVars, storeVars, historyVars

\* A grant that was asked for a rotation is gone, as it was, or revoked; or
\* the token was its token and it has the next one.
LEMMA RotationOutcome ==
    ASSUME now \in Nat, NEW g \in GrantRecord \cup {None}, NEW j,
           j.token \in RefreshToken, j.next \in RefreshToken
    PROVE  /\ RotatedGrant(g, j) \in GrantRecord \cup {None}
           /\ RotationStatus(g, j) = "rotated" =>
                /\ g # None /\ g.status = "active" /\ g.token = j.token
                /\ ~ (j.token.generation < g.generation)
                /\ RotatedGrant(g, j).token = j.next
                /\ RotatedGrant(g, j).generation = j.next.generation
                /\ RotatedGrant(g, j).status = "active"
                /\ RotatedGrant(g, j).context = g.context
           /\ RotationStatus(g, j) # "rotated" =>
                \/ RotatedGrant(g, j) = None
                \/ RotatedGrant(g, j) = g
                \/ /\ g # None /\ RotatedGrant(g, j).status = "revoked"
                   /\ RotatedGrant(g, j).token = g.token
                   /\ RotatedGrant(g, j).generation = g.generation
                   /\ RotatedGrant(g, j).context = g.context
           /\ g # None /\ g.exp > now /\ j.matches
              /\ j.token.generation < g.generation =>
                \/ RotatedGrant(g, j) = None
                \/ RotatedGrant(g, j).status = "revoked"
  <1>1. CASE g = None
    BY <1>1 DEF RotationStatus, RotatedGrant
  <1>2. CASE g # None
    <2>1. /\ g \in GrantRecord /\ g.exp \in Nat /\ g.generation \in Nat
          /\ g.status \in {"active", "revoked"}
          /\ j.token.generation \in Nat /\ j.next.generation \in Nat
      BY <1>2 DEF GrantRecord, RefreshToken
    <2> DEFINE status == RotationStatus(g, j)
               revoked == [g EXCEPT !.status = "revoked"]
               next == [g EXCEPT !.token = j.next,
                                 !.generation = j.next.generation]
    <2>2. /\ revoked \in GrantRecord /\ revoked.status = "revoked"
          /\ revoked.token = g.token /\ revoked.generation = g.generation
          /\ revoked.context = g.context
      BY <2>1 DEF GrantRecord
    <2>3. /\ next \in GrantRecord /\ next.status = g.status
          /\ next.token = j.next /\ next.generation = j.next.generation
          /\ next.context = g.context
      BY <2>1 DEF GrantRecord
    <2>4. RotatedGrant(g, j) = CASE status = "expired" -> None
                                 [] status = "replayed" -> revoked
                                 [] status = "rotated" -> next
                                 [] OTHER -> g
      BY DEF RotatedGrant
    <2> HIDE DEF revoked, next
    <2>5. CASE ~ (g.exp > now)
      <3>1. status = "expired"
        BY <1>2, <2>1, <2>5 DEF RotationStatus
      <3> QED
        BY <2>4, <2>5, <3>1
    <2>6. CASE g.exp > now /\ g.status = "revoked"
      <3>1. status = "revoked"
        BY <1>2, <2>1, <2>6 DEF RotationStatus
      <3> QED
        BY <2>1, <2>4, <2>6, <3>1
    <2>7. CASE g.exp > now /\ g.status = "active"
      <3>1. status = IF ~ j.matches THEN "invalid"
                     ELSE IF j.token.generation < g.generation THEN "replayed"
                     ELSE IF g.token = j.token THEN "rotated" ELSE "invalid"
        BY <1>2, <2>1, <2>7 DEF RotationStatus
      <3>2. CASE status = "replayed"
        BY <1>2, <2>2, <2>4, <3>2
      <3>3. CASE status = "rotated"
        BY <1>2, <2>3, <2>4, <2>7, <3>1, <3>3
      <3>4. CASE status = "invalid"
        BY <2>1, <2>4, <3>1, <3>4
      <3> QED
        BY <3>1, <3>2, <3>3, <3>4
    <2> QED
      BY <2>1, <2>5, <2>6, <2>7
  <1> QED
    BY <1>1, <1>2

LEMMA RotateTypes ==
    ASSUME TypeOK, NEW w \in Worker, Rotate(w)
    PROVE  /\ TypeOK'
           /\ job[w].token \in RefreshToken /\ job[w].next \in RefreshToken
           /\ job[w].from \in Consent
  <1> DEFINE j == job[w]
             f == j.token.family
             g == grants[f]
             answer == Responding(w, j.next, g.context)
  <1>1. j \in [step : {"rotate"}, from : Consent, at : Nat,
              token : RefreshToken, matches : BOOLEAN, next : RefreshToken]
    BY DEF Rotate, TypeOK, Job
  <1>2. /\ j.token \in RefreshToken /\ j.next \in RefreshToken
        /\ j.from \in Consent /\ j.at \in Nat
        /\ f \in Family /\ j.token.exp \in Nat
    BY <1>1 DEF RefreshToken
  <1>3. g \in GrantRecord \cup {None} /\ now \in Nat
    BY <1>2 DEF TypeOK
  <1>4. /\ grants' = [grants EXCEPT ![f] = RotatedGrant(g, j)]
        /\ \/ RotationStatus(g, j) = "rotated"
              /\ job' = [job EXCEPT ![w] = answer]
           \/ job' = [job EXCEPT ![w] = None]
        /\ spent' \in {spent, spent \cup {j.token}}
        /\ replayed' \in {replayed, replayed \cup {<<f, j.token.exp>>}}
    BY DEF Rotate
  <1>5. /\ RotatedGrant(g, j) \in GrantRecord \cup {None}
        /\ RotationStatus(g, j) = "rotated" => g # None
    BY <1>2, <1>3, RotationOutcome
  <1>6. g # None => answer \in Job
    BY <1>2, <1>3 DEF GrantRecord, Job, Responding
  <1>7. UNCHANGED <<durable, now, web, page, consents, codes, known, held,
                    granted, access>>
    BY DEF Rotate, worldVars
  <1> HIDE DEF j, f, g, answer
  <1>8. TypeOK'
    BY <1>2, <1>4, <1>5, <1>6, <1>7 DEF TypeOK
  <1> QED
    BY <1>2, <1>8 DEF j

LEMMA RespondTypes ==
    ASSUME TypeOK, NEW w \in Worker, Respond(w)
    PROVE  /\ TypeOK'
           /\ job[w].from \in Consent /\ job[w].token \in RefreshToken
           /\ AccessExp(job[w]) \in Nat
           /\ AccessExp(job[w]) <= job[w].token.exp
  <1> DEFINE j == job[w]
             a == [from |-> j.from, context |-> j.context, exp |-> AccessExp(j)]
             h == [token |-> j.token, from |-> j.from]
  <1>1. j \in [step : {"respond"}, from : Consent, at : Nat,
              context : Context, token : RefreshToken]
    BY DEF Respond, TypeOK, Job
  <1>2. /\ j.token \in RefreshToken /\ j.from \in Consent
        /\ j.context \in Context /\ j.at \in Nat /\ j.token.exp \in Nat
    BY <1>1 DEF RefreshToken
  <1>3. AccessExp(j) \in Nat /\ AccessExp(j) <= j.token.exp
    BY <1>2, Times DEF AccessExp, Shorter
  <1>4. /\ a \in [from : Consent, context : Context, exp : Nat]
        /\ h \in [token : RefreshToken, from : Consent]
    BY <1>2, <1>3
  <1>5. /\ access' \in {access, access \cup {a}}
        /\ held' \in {held, held \cup {h}}
        /\ job' = [job EXCEPT ![w] = None]
        /\ UNCHANGED <<durable, now, web, page, consents, codes, grants, known,
                       granted, spent, replayed>>
    BY DEF Respond, worldVars, storeVars
  <1> HIDE DEF j, a, h
  <1>6. TypeOK'
    BY <1>4, <1>5 DEF TypeOK
  <1> QED
    BY <1>2, <1>3, <1>6 DEF j

LEMMA WorldTypes ==
    ASSUME TypeOK,
           (\E s \in Session : ChangeSession(s)) \/ Tick \/ Alarm \/ Restart
    PROVE  TypeOK'
  <1>1. ASSUME NEW s \in Session, ChangeSession(s) PROVE TypeOK'
    BY <1>1 DEF ChangeSession, TypeOK, storeVars, historyVars
  <1>2. CASE Tick
    BY <1>2, Times DEF Tick, TypeOK, storeVars, historyVars
  <1>3. CASE Alarm
    BY <1>3 DEF Alarm, TypeOK, worldVars, historyVars
  <1>4. CASE Restart
    BY <1>4 DEF Restart, TypeOK, worldVars, historyVars
  <1> QED
    BY <1>1, <1>2, <1>3, <1>4

LEMMA NextTypes == TypeOK /\ [Next]_vars => TypeOK'
  <1> SUFFICES ASSUME TypeOK, [Next]_vars PROVE TypeOK'
    OBVIOUS
  <1>1. CASE UNCHANGED vars
    BY <1>1 DEF vars, worldVars, storeVars, historyVars, TypeOK
  <1>2. CASE Next
    BY <1>2, ShowTypes, DecideTypes, CodeTypes, RedeemTypes, GrantTypes,
       RefreshTypes, RotateTypes, RespondTypes, WorldTypes DEF Next
  <1> QED
    BY <1>1, <1>2

\* The records of the store, the requests and what clients hold keep their
\* shapes.
THEOREM GrantTypesHold == Spec => []TypeOK
  BY InitTypes, NextTypes, PTL DEF Spec

-----------------------------------------------------------------------------
(* The inductive invariant *)

\* Request w has the right that consent c gave.
Carries(w, c) ==
    job[w] # None /\ job[w].step \in {"code", "grant"} /\ job[w].from = c

NobodyCarries(c) == \A w \in Worker : ~ Carries(w, c)

\* The right of a consent is in one place, once its page was shown.
RightInv ==
    \A c \in Consent :
       /\ consents[c] # None =>
            page[c] # None /\ codes[c] = None /\ granted[c] = {}
            /\ NobodyCarries(c)
       /\ codes[c] # None =>
            page[c] # None /\ granted[c] = {} /\ NobodyCarries(c)
       /\ granted[c] # {} => page[c] # None /\ NobodyCarries(c)
       /\ \A v, w \in Worker : Carries(v, c) /\ Carries(w, c) => v = w
       /\ \A w \in Worker : Carries(w, c) => page[c] # None
       /\ \A x, y \in granted[c] : x = y

Of(c) == ContextOf[page[c].session]

\* A token goes back to the family that was founded for a consent.
Founds(c, t) == <<t.family, t.exp>> \in granted[c]

JobInv(j) ==
    /\ j.step \in {"code", "grant", "respond"} => j.context = Of(j.from)
    /\ j.step \in {"rotate", "respond"} => Founds(j.from, j.token)
    /\ j.step = "rotate" => /\ j.next.family = j.token.family
                            /\ j.next.exp = j.token.exp
                            /\ j.next.generation = j.token.generation + 1

\* What is held goes back to a consent, and carries its context.
AuthorityInv ==
    /\ \A c \in Consent : codes[c] # None => codes[c].context = Of(c)
    /\ \A w \in Worker : job[w] # None => JobInv(job[w])
    /\ \A h \in held : Founds(h.from, h.token)
    /\ \A c \in Consent : \A x \in granted[c] :
          grants[x[1]] # None => grants[x[1]].context = Of(c)
    /\ \A a \in access : /\ a.context = Of(a.from)
                         /\ \E x \in granted[a.from] : a.exp <= x[2]

Founded(f) == \E c \in Consent : \E x \in granted[c] : x[1] = f

\* A family that is gone does not come back; one that lives is ahead of the
\* tokens that were honoured, and revoked if one of them came again.
FamilyInv ==
    /\ \A f \in Family : grants[f] # None =>
          Founded(f) /\ grants[f].token.generation = grants[f].generation
    /\ \A t \in spent :
          /\ Founded(t.family)
          /\ grants[t.family] # None =>
               t.generation < grants[t.family].generation
    /\ \A x \in replayed :
          /\ Founded(x[1])
          /\ grants[x[1]] # None => grants[x[1]].status = "revoked"

GrantInv == TypeOK /\ RightInv /\ AuthorityInv /\ FamilyInv

LEMMA InitInv == Init => GrantInv
  <1> SUFFICES ASSUME Init PROVE GrantInv
    OBVIOUS
  <1>1. RightInv
    BY DEF Init, RightInv, Carries, NobodyCarries
  <1>2. AuthorityInv
    BY DEF Init, AuthorityInv
  <1>3. FamilyInv
    BY DEF Init, FamilyInv
  <1> QED
    BY <1>1, <1>2, <1>3, InitTypes DEF GrantInv

\* A step that founds no family and changes no page, of a request or of the
\* store, is judged by what it changes.
LEMMA FamiliesKept ==
    ASSUME GrantInv, UNCHANGED <<granted, spent, replayed>>,
           \A f \in Family : grants'[f] = grants[f] \/ grants'[f] = None
    PROVE  FamilyInv'
  <1>1. \A t \in spent : t.family \in Family
    BY DEF GrantInv, TypeOK, RefreshToken
  <1>2. \A x \in replayed : x[1] \in Family
    BY DEF GrantInv, TypeOK
  <1> QED
    BY <1>1, <1>2 DEF GrantInv, FamilyInv, Founded

\* Whose consent is spoken of was shown its page.
LEMMA PagesKnown ==
    ASSUME GrantInv
    PROVE  /\ \A c \in Consent : codes[c] # None \/ granted[c] # {} =>
                page[c] # None
           /\ \A w \in Worker : job[w] # None =>
                job[w].from \in Consent /\ page[job[w].from] # None
           /\ \A h \in held : h.from \in Consent /\ page[h.from] # None
           /\ \A a \in access : a.from \in Consent /\ page[a.from] # None
  <1>1. \A c \in Consent : codes[c] # None \/ granted[c] # {} => page[c] # None
    BY DEF GrantInv, RightInv
  <1>2. ASSUME NEW w \in Worker, job[w] # None
        PROVE  job[w].from \in Consent /\ page[job[w].from] # None
    <2>1. /\ job[w].from \in Consent
          /\ job[w].step \in {"code", "grant", "rotate", "respond"}
      BY <1>2 DEF GrantInv, TypeOK, Job
    <2>2. CASE job[w].step \in {"code", "grant"}
      BY <1>2, <2>1, <2>2 DEF GrantInv, RightInv, Carries
    <2>3. CASE job[w].step \in {"rotate", "respond"}
      BY <1>1, <1>2, <2>1, <2>3 DEF GrantInv, AuthorityInv, JobInv, Founds
    <2> QED
      BY <2>1, <2>2, <2>3
  <1>3. ASSUME NEW h \in held PROVE h.from \in Consent /\ page[h.from] # None
    BY <1>1 DEF GrantInv, TypeOK, AuthorityInv, Founds
  <1>4. ASSUME NEW a \in access
        PROVE  a.from \in Consent /\ page[a.from] # None
    BY <1>1 DEF GrantInv, TypeOK, AuthorityInv
  <1> QED
    BY <1>1, <1>2, <1>3, <1>4

\* Families are only added, and pages that were shown stay.
Grows ==
    /\ \A c \in Consent : granted[c] \subseteq granted'[c]
    /\ \A c \in Consent : page[c] # None => page'[c] = page[c]

LEMMA JobStays ==
    ASSUME Grows, NEW j, JobInv(j), j.from \in Consent, page[j.from] # None
    PROVE  JobInv(j)'
  BY DEF Grows, JobInv, Founds, Of

\* What was held before a step is rightly held after it.
LEMMA AuthorityKept ==
    ASSUME GrantInv, Grows
    PROVE  /\ \A c \in Consent : codes[c] # None => codes[c].context = Of(c)'
           /\ \A w \in Worker : job'[w] = job[w] /\ job[w] # None =>
                JobInv(job[w])'
           /\ \A h \in held : Founds(h.from, h.token)'
           /\ \A c \in Consent : \A x \in granted[c] :
                grants[x[1]] # None => grants[x[1]].context = Of(c)'
           /\ \A a \in access : /\ a.context = Of(a.from)'
                                /\ \E x \in granted'[a.from] : a.exp <= x[2]
  <1>1. \A c \in Consent : page[c] # None => Of(c)' = Of(c)
    BY DEF Grows, Of
  <1>2. \A c \in Consent : codes[c] # None => codes[c].context = Of(c)'
    BY <1>1, PagesKnown DEF GrantInv, AuthorityInv
  <1>3. ASSUME NEW w \in Worker, job'[w] = job[w], job[w] # None
        PROVE  JobInv(job[w])'
    <2> DEFINE j == job[w]
    <2>1. JobInv(j) /\ j.from \in Consent /\ page[j.from] # None
      BY <1>3, PagesKnown DEF GrantInv, AuthorityInv
    <2> QED
      BY <1>3, <2>1 DEF Grows, JobInv, Founds, Of
  <1>4. \A h \in held : Founds(h.from, h.token)'
    BY PagesKnown DEF GrantInv, AuthorityInv, Grows, Founds
  <1>5. \A c \in Consent : \A x \in granted[c] :
          grants[x[1]] # None => grants[x[1]].context = Of(c)'
    BY <1>1, PagesKnown DEF GrantInv, AuthorityInv
  <1>6. \A a \in access : /\ a.context = Of(a.from)'
                         /\ \E x \in granted'[a.from] : a.exp <= x[2]
    BY <1>1, PagesKnown DEF GrantInv, AuthorityInv, Grows
  <1> QED
    BY <1>2, <1>3, <1>4, <1>5, <1>6

\* Rights that are only lost stay in one place.
LEMMA RightKept ==
    ASSUME GrantInv, UNCHANGED granted, Grows,
           \A c \in Consent : consents'[c] \in {consents[c], None},
           \A c \in Consent : codes'[c] \in {codes[c], None},
           \A w \in Worker, c \in Consent : Carries(w, c)' => Carries(w, c)
    PROVE  RightInv'
  <1> SUFFICES ASSUME NEW c \in Consent
               PROVE /\ consents'[c] # None =>
                          page'[c] # None /\ codes'[c] = None
                          /\ granted'[c] = {} /\ NobodyCarries(c)'
                     /\ codes'[c] # None =>
                          page'[c] # None /\ granted'[c] = {}
                          /\ NobodyCarries(c)'
                     /\ granted'[c] # {} =>
                          page'[c] # None /\ NobodyCarries(c)'
                     /\ \A v, w \in Worker :
                          Carries(v, c)' /\ Carries(w, c)' => v = w
                     /\ \A w \in Worker : Carries(w, c)' => page'[c] # None
                     /\ \A x, y \in granted'[c] : x = y
    BY DEF RightInv
  <1>1. NobodyCarries(c) => NobodyCarries(c)'
    BY DEF NobodyCarries
  <1>2. page[c] # None => page'[c] # None
    BY DEF Grows
  <1> QED
    BY <1>1, <1>2 DEF GrantInv, RightInv

LEMMA ShowKeepsInv ==
    ASSUME GrantInv, NEW c \in Consent, ShowConsent(c)
    PROVE  GrantInv'
  <1>1. /\ TypeOK'
        /\ \A x \in Consent \ {c} : consents'[x] \in {consents[x], None}
    BY ShowTypes DEF GrantInv
  <1>2. /\ page[c] = None
        /\ page' = [page EXCEPT ![c] = [session |-> web,
                                       exp |-> now + ConsentTtl]]
        /\ UNCHANGED <<codes, grants, job, held, granted, spent, replayed,
                       access>>
    BY DEF ShowConsent, historyVars
  <1>3. Grows
    BY <1>2 DEF Grows, GrantInv, TypeOK
  <1>4. page'[c] # None
    <2>1. [session |-> web, exp |-> now + ConsentTtl]
            \in [session : Session, exp : Nat]
      BY Times DEF GrantInv, TypeOK
    <2> QED
      BY <1>2, <2>1, NoneIsNoPage DEF GrantInv, TypeOK
  <1>5. RightInv'
    BY <1>1, <1>2, <1>4 DEF GrantInv, TypeOK, RightInv, Carries, NobodyCarries
  <1>6. AuthorityInv'
    BY <1>2, <1>3, AuthorityKept DEF AuthorityInv
  <1>7. FamilyInv'
    BY <1>2, FamiliesKept
  <1> QED
    BY <1>1, <1>5, <1>6, <1>7 DEF GrantInv

LEMMA DecideKeepsInv ==
    ASSUME GrantInv, NEW w \in Worker, NEW c \in Consent, NEW yes \in BOOLEAN,
           Decide(w, c, yes)
    PROVE  GrantInv'
  <1> DEFINE j == [step |-> "code", from |-> c, at |-> now,
                   context |-> ContextOf[web]]
  <1>1. TypeOK'
    BY DecideTypes DEF GrantInv
  <1>2. /\ UNCHANGED <<now, web, page, codes, grants, held, granted, spent,
                       replayed, access>>
        /\ job[w] = None
        /\ consents' = [consents EXCEPT ![c] = None]
        /\ \/ consents[c] # None /\ job' = [job EXCEPT ![w] = j]
           \/ UNCHANGED job
    BY DEF Decide, Consume, worldVars, historyVars
  <1>3. Grows
    BY <1>2 DEF Grows
  <1>4. CASE UNCHANGED job
    <2>1. RightInv'
      BY <1>2, <1>3, <1>4, RightKept DEF GrantInv, TypeOK, Carries
    <2>2. AuthorityInv'
      BY <1>2, <1>3, <1>4, AuthorityKept DEF AuthorityInv
    <2>3. FamilyInv'
      BY <1>2, FamiliesKept
    <2> QED
      BY <1>1, <2>1, <2>2, <2>3 DEF GrantInv
  <1>5. CASE consents[c] # None /\ job' = [job EXCEPT ![w] = j]
    <2>1. \A v \in Worker, x \in Consent :
            Carries(v, x)' => \/ Carries(v, x)
                              \/ v = w /\ x = c
      <3>1. job \in [Worker -> Job \cup {None}]
        BY DEF GrantInv, TypeOK
      <3>2. job'[w].from = c /\ \A v \in Worker \ {w} : job'[v] = job[v]
        BY <1>5, <3>1
      <3> QED
        BY <3>2 DEF Carries
    <2>2. \A x \in Consent : NobodyCarries(x) /\ x # c => NobodyCarries(x)'
      BY <2>1 DEF NobodyCarries
    <2>3. RightInv'
      BY <1>2, <1>5, <2>1, <2>2
         DEF GrantInv, TypeOK, RightInv, NobodyCarries
    <2>4. j.context = Of(c)'
      BY <1>2 DEF Decide, SameSession, Of
    <2>5. JobInv(j)'
      BY <1>2, <2>4 DEF JobInv
    <2>6. AuthorityInv'
      <3>1. ASSUME NEW v \in Worker, job'[v] # None PROVE JobInv(job[v])'
        <4>1. CASE v = w
          <5>1. job'[w] = j'
            BY <1>2, <1>5 DEF GrantInv, TypeOK
          <5> QED
            BY <2>5, <4>1, <5>1
        <4>2. CASE v # w
          BY <1>3, <1>5, <3>1, <4>2, AuthorityKept DEF GrantInv, TypeOK
        <4> QED
          BY <4>1, <4>2
      <3> QED
        BY <1>2, <1>3, <3>1, AuthorityKept DEF AuthorityInv
    <2>7. FamilyInv'
      BY <1>2, FamiliesKept
    <2> QED
      BY <1>1, <2>3, <2>6, <2>7 DEF GrantInv
  <1> QED
    BY <1>2, <1>4, <1>5

LEMMA CodeKeepsInv ==
    ASSUME GrantInv, NEW w \in Worker, CreateCode(w)
    PROVE  GrantInv'
  <1>0. PICK c \in Consent : c = job[w].from
    BY CodeTypes DEF GrantInv
  <1>1. /\ TypeOK'
        /\ codes'[c].context = job[w].context
        /\ \A x \in Consent \ {c} : codes'[x] \in {codes[x], None}
    BY <1>0, CodeTypes DEF GrantInv
  <1>2. /\ UNCHANGED <<page, consents, grants, held, granted, spent, replayed,
                       access>>
        /\ job' = [job EXCEPT ![w] = None]
        /\ job[w] # None /\ job[w].step = "code"
    BY DEF CreateCode, worldVars, historyVars
  <1>3. Grows
    BY <1>2 DEF Grows
  <1>4. Carries(w, c) /\ JobInv(job[w])
    BY <1>0, <1>2 DEF Carries, GrantInv, AuthorityInv
  <1>5. \A v \in Worker, x \in Consent :
          Carries(v, x)' => Carries(v, x) /\ v # w
    BY <1>2 DEF Carries, GrantInv, TypeOK
  <1>6. NobodyCarries(c)' /\ consents[c] = None /\ granted[c] = {}
        /\ page[c] # None
    BY <1>1, <1>4, <1>5 DEF GrantInv, RightInv, NobodyCarries
  <1>7. \A x \in Consent : NobodyCarries(x) => NobodyCarries(x)'
    BY <1>5 DEF NobodyCarries
  <1>8. RightInv'
    <2> SUFFICES ASSUME NEW x \in Consent
                 PROVE /\ consents'[x] # None =>
                            page'[x] # None /\ codes'[x] = None
                            /\ granted'[x] = {} /\ NobodyCarries(x)'
                       /\ codes'[x] # None =>
                            page'[x] # None /\ granted'[x] = {}
                            /\ NobodyCarries(x)'
                       /\ granted'[x] # {} =>
                            page'[x] # None /\ NobodyCarries(x)'
                       /\ \A u, v \in Worker :
                            Carries(u, x)' /\ Carries(v, x)' => u = v
                       /\ \A v \in Worker : Carries(v, x)' => page'[x] # None
                       /\ \A y, z \in granted'[x] : y = z
      BY DEF RightInv
    <2>1. CASE x = c
      BY <1>2, <1>6, <2>1 DEF NobodyCarries
    <2>2. CASE x # c
      BY <1>1, <1>2, <1>5, <1>7, <2>2 DEF GrantInv, RightInv
    <2> QED
      BY <2>1, <2>2
  <1>9. AuthorityInv'
    <2>1. job[w].context = Of(c)
      BY <1>0, <1>2, <1>4 DEF JobInv
    <2>2. \A x \in Consent : codes'[x] # None => codes'[x].context = Of(x)'
      BY <1>1, <1>2, <1>3, <2>1, AuthorityKept DEF Of
    <2>3. \A v \in Worker : job'[v] # None =>
            job'[v] = job[v] /\ job[v] # None
      BY <1>2 DEF GrantInv, TypeOK
    <2> QED
      BY <1>2, <1>3, <2>2, <2>3, AuthorityKept DEF AuthorityInv
  <1>10. FamilyInv'
    BY <1>2, FamiliesKept
  <1> QED
    BY <1>1, <1>8, <1>9, <1>10 DEF GrantInv

LEMMA RedeemKeepsInv ==
    ASSUME GrantInv, NEW w \in Worker, NEW c \in Consent, NEW yes \in BOOLEAN,
           RedeemCode(w, c, yes)
    PROVE  GrantInv'
  <1> DEFINE j == [step |-> "grant", from |-> c, at |-> now,
                   context |-> codes[c].context, exp |-> now + RefreshTtl,
                   attempts |-> 0]
  <1>1. TypeOK'
    BY RedeemTypes DEF GrantInv
  <1>2. /\ UNCHANGED <<page, consents, grants, held, granted, spent, replayed,
                       access>>
        /\ job[w] = None
        /\ codes' = [codes EXCEPT ![c] = None]
        /\ \/ codes[c] # None /\ job' = [job EXCEPT ![w] = j]
           \/ UNCHANGED job
    BY DEF RedeemCode, Consume, worldVars, historyVars
  <1>3. Grows
    BY <1>2 DEF Grows
  <1>4. CASE UNCHANGED job
    <2>1. RightInv'
      BY <1>2, <1>3, <1>4, RightKept DEF GrantInv, TypeOK, Carries
    <2>2. AuthorityInv'
      BY <1>2, <1>3, <1>4, AuthorityKept DEF AuthorityInv, GrantInv, TypeOK
    <2>3. FamilyInv'
      BY <1>2, FamiliesKept
    <2> QED
      BY <1>1, <2>1, <2>2, <2>3 DEF GrantInv
  <1>5. CASE codes[c] # None /\ job' = [job EXCEPT ![w] = j]
    <2>1. job'[w] = j /\ \A v \in Worker \ {w} : job'[v] = job[v]
      BY <1>5 DEF GrantInv, TypeOK
    <2>2. \A v \in Worker, x \in Consent :
            Carries(v, x)' => \/ Carries(v, x)
                              \/ v = w /\ x = c
      BY <2>1 DEF Carries
    <2>3. \A x \in Consent : NobodyCarries(x) /\ x # c => NobodyCarries(x)'
      BY <2>2 DEF NobodyCarries
    <2>4. RightInv'
      BY <1>2, <1>5, <2>2, <2>3
         DEF GrantInv, TypeOK, RightInv, NobodyCarries
    <2>5. job'[w].step = "grant" /\ job'[w].from = c
          /\ job'[w].context = Of(c)'
      BY <1>2, <1>5, <2>1 DEF GrantInv, AuthorityInv, Of
    <2>6. JobInv(job[w])'
      BY <2>5 DEF JobInv, Of
    <2>7. \A v \in Worker : job'[v] # None => JobInv(job[v])'
      BY <1>3, <2>1, <2>6, AuthorityKept
    <2>8. \A x \in Consent : codes'[x] # None => codes'[x] = codes[x]
      BY <1>2 DEF GrantInv, TypeOK
    <2>9. AuthorityInv'
      BY <1>2, <1>3, <2>7, <2>8, AuthorityKept DEF AuthorityInv
    <2>10. FamilyInv'
      BY <1>2, FamiliesKept
    <2> QED
      BY <1>1, <2>4, <2>9, <2>10 DEF GrantInv
  <1> QED
    BY <1>2, <1>4, <1>5

LEMMA RetryKeepsInv ==
    ASSUME GrantInv, TypeOK', NEW w \in Worker, job[w] # None,
           job[w].step = "grant", NEW n, job' = [job EXCEPT ![w] = n],
           \/ n = None
           \/ /\ n.step = "grant" /\ n.from = job[w].from
              /\ n.context = job[w].context,
           UNCHANGED <<page, consents, codes, grants, held, granted, spent,
                       replayed, access>>
    PROVE  GrantInv'
  <1>1. job'[w] = n /\ \A v \in Worker \ {w} : job'[v] = job[v]
    BY DEF GrantInv, TypeOK
  <1>2. Grows
    BY DEF Grows
  <1>3. RightInv'
    BY <1>1, <1>2, RightKept DEF Carries
  <1>4. n # None => JobInv(job[w])'
    <2>1. JobInv(job[w]) /\ page' = page
      BY DEF GrantInv, AuthorityInv
    <2> QED
      BY <1>1, <2>1 DEF JobInv, Of
  <1>5. \A v \in Worker : job'[v] # None => JobInv(job[v])'
    BY <1>1, <1>2, <1>4, AuthorityKept
  <1>6. AuthorityInv'
    BY <1>2, <1>5, AuthorityKept DEF AuthorityInv
  <1>7. FamilyInv'
    BY FamiliesKept
  <1> QED
    BY <1>3, <1>6, <1>7 DEF GrantInv

\* The right of a consent becomes a family that no consent had.
LEMMA FoundingKeepsInv ==
    ASSUME GrantInv, TypeOK', NEW w \in Worker, NEW f \in Family,
           NEW c \in Consent, NEW t,
           job[w] # None, job[w].step = "grant", job[w].from = c,
           t.family = f, t.generation = 0,
           \A d \in Consent : \A x \in granted[d] : x[1] # f,
           grants'[f] # None =>
              /\ grants'[f].context = job[w].context
              /\ grants'[f].token = t /\ grants'[f].generation = 0,
           \A x \in Family \ {f} : grants'[x] \in {grants[x], None},
           job' = [job EXCEPT ![w] = job'[w]],
           job'[w].step = "respond", job'[w].from = c,
           job'[w].context = job[w].context, job'[w].token = t,
           granted' = [granted EXCEPT ![c] = @ \cup {<<f, t.exp>>}],
           UNCHANGED <<page, consents, codes, held, spent, replayed, access>>
    PROVE  GrantInv'
  <1>1. \A v \in Worker \ {w} : job'[v] = job[v]
    BY DEF GrantInv, TypeOK
  <1>2. /\ granted'[c] = granted[c] \cup {<<f, t.exp>>}
        /\ \A d \in Consent \ {c} : granted'[d] = granted[d]
    BY DEF GrantInv, TypeOK
  <1>3. Grows
    BY <1>2 DEF Grows
  <1>4. Carries(w, c) /\ JobInv(job[w])
    BY DEF Carries, GrantInv, AuthorityInv
  <1>5. \A v \in Worker, x \in Consent :
          Carries(v, x)' => Carries(v, x) /\ v # w
    BY <1>1 DEF Carries
  <1>6. /\ NobodyCarries(c)' /\ consents[c] = None /\ codes[c] = None
        /\ granted[c] = {} /\ page[c] # None
    BY <1>4, <1>5 DEF GrantInv, RightInv, NobodyCarries
  <1>7. \A x \in Consent : NobodyCarries(x) => NobodyCarries(x)'
    BY <1>5 DEF NobodyCarries
  <1>8. RightInv'
    <2> SUFFICES ASSUME NEW x \in Consent
                 PROVE /\ consents'[x] # None =>
                            page'[x] # None /\ codes'[x] = None
                            /\ granted'[x] = {} /\ NobodyCarries(x)'
                       /\ codes'[x] # None =>
                            page'[x] # None /\ granted'[x] = {}
                            /\ NobodyCarries(x)'
                       /\ granted'[x] # {} =>
                            page'[x] # None /\ NobodyCarries(x)'
                       /\ \A u, v \in Worker :
                            Carries(u, x)' /\ Carries(v, x)' => u = v
                       /\ \A v \in Worker : Carries(v, x)' => page'[x] # None
                       /\ \A y, z \in granted'[x] : y = z
      BY DEF RightInv
    <2>1. CASE x = c
      BY <1>2, <1>6, <2>1 DEF NobodyCarries
    <2>2. CASE x # c
      BY <1>2, <1>5, <1>7, <2>2 DEF GrantInv, RightInv
    <2> QED
      BY <2>1, <2>2
  <1>9. job[w].context = Of(c)'
    BY <1>4 DEF JobInv, Of
  <1>10. \A v \in Worker : job'[v] # None => JobInv(job[v])'
    <2>1. JobInv(job[w])'
      BY <1>2, <1>9 DEF JobInv, Founds, Of
    <2> QED
      BY <1>1, <1>3, <2>1, AuthorityKept
  <1>11. \A d \in Consent : \A x \in granted'[d] :
           grants'[x[1]] # None => grants'[x[1]].context = Of(d)'
    <2>1. ASSUME NEW d \in Consent, NEW x \in granted[d], grants'[x[1]] # None
          PROVE  grants'[x[1]].context = Of(d)'
      <3>1. x[1] \in Family \ {f}
        BY DEF GrantInv, TypeOK
      <3> QED
        BY <1>3, <2>1, <3>1, AuthorityKept
    <2> QED
      BY <1>2, <1>9, <2>1
  <1>12. AuthorityInv'
    BY <1>3, <1>10, <1>11, AuthorityKept DEF AuthorityInv
  <1>13. \A x : Founded(x) => Founded(x)'
    BY <1>3 DEF Founded, Grows
  <1>14. Founded(f)'
    <2>1. <<f, t.exp>> \in granted'[c] /\ <<f, t.exp>>[1] = f
      BY <1>2
    <2> QED
      BY <2>1 DEF Founded
  <1>15. \A x : Founded(x) => x # f
    BY DEF Founded
  <1>16. FamilyInv'
    <2>1. \A x \in spent : x.family \in Family
      BY DEF GrantInv, TypeOK, RefreshToken
    <2>2. \A x \in replayed : x[1] \in Family
      BY DEF GrantInv, TypeOK
    <2> QED
      BY <1>13, <1>14, <1>15, <2>1, <2>2 DEF GrantInv, FamilyInv
  <1> QED
    BY <1>8, <1>12, <1>16 DEF GrantInv

LEMMA GrantKeepsInv ==
    ASSUME GrantInv, NEW w \in Worker, NEW f \in Family, CreateGrant(w, f)
    PROVE  GrantInv'
  <1>1. /\ TypeOK'
        /\ \A x \in Family \ {f} : grants'[x] \in {grants[x], None}
    BY GrantTypes DEF GrantInv
  <1>2. /\ UNCHANGED <<page, consents, codes, held, spent, replayed, access>>
        /\ job[w] # None /\ job[w].step = "grant"
    BY DEF CreateGrant, worldVars
  <1>3. CASE /\ UNCHANGED <<grants, granted>>
             /\ \E n : /\ job' = [job EXCEPT ![w] = n]
                       /\ \/ n = None
                          \/ /\ n.step = "grant" /\ n.from = job[w].from
                             /\ n.context = job[w].context
    BY <1>1, <1>2, <1>3, RetryKeepsInv
  <1>4. CASE LET t == Token(w, f, 0, job[w].exp)
             IN  /\ \A c \in Consent : \A g \in granted[c] : g[1] # f
                 /\ grants'[f] = [status |-> "active", generation |-> 0,
                        token |-> t, exp |-> job[w].exp,
                        context |-> job[w].context]
                 /\ job' = [job EXCEPT ![w] =
                              Responding(w, t, job[w].context)]
                 /\ granted' = [granted EXCEPT ![job[w].from] =
                                  @ \cup {<<f, job[w].exp>>}]
    <2>1. PICK c \in Consent : c = job[w].from
      BY <1>2, PagesKnown
    <2>2. PICK t : t = Token(w, f, 0, job[w].exp)
      OBVIOUS
    <2>3. c = job[w].from /\ t = Token(w, f, 0, job[w].exp)
      BY <2>1, <2>2
    <2>4. t.family = f /\ t.exp = job[w].exp /\ t.generation = 0
      BY <2>3 DEF Token
    <2>5. /\ job'[w].step = "respond" /\ job'[w].from = c
          /\ job'[w].context = job[w].context /\ job'[w].token = t
          /\ job' = [job EXCEPT ![w] = job'[w]]
      BY <1>4, <2>3 DEF Responding, GrantInv, TypeOK
    <2>6. /\ grants'[f].context = job[w].context /\ grants'[f].token = t
          /\ grants'[f].generation = 0
      BY <1>4, <2>3
    <2>7. granted' = [granted EXCEPT ![c] = @ \cup {<<f, t.exp>>}]
      BY <1>4, <2>3, <2>4
    <2>8. \A d \in Consent : \A x \in granted[d] : x[1] # f
      BY <1>4
    <2>9. /\ job[w] # None /\ job[w].step = "grant" /\ job[w].from = c
          /\ UNCHANGED <<page, consents, codes, held, spent, replayed, access>>
      BY <1>2, <2>3
    <2> QED
      BY <1>1, <2>4, <2>5, <2>6, <2>7, <2>8, <2>9, FoundingKeepsInv
  <1> QED
    BY <1>3, <1>4, GrantTypes DEF GrantInv

LEMMA RefreshKeepsInv ==
    ASSUME GrantInv, NEW w \in Worker, NEW h \in held, NEW yes \in BOOLEAN,
           Refresh(w, h, yes)
    PROVE  GrantInv'
  <1>1. /\ UNCHANGED <<page, consents, codes, grants, held, granted, spent,
                       replayed, access>>
        /\ job[w] = None
        /\ \A v \in Worker \ {w} : job'[v] = job[v]
        /\ job'[w].step = "rotate" /\ job'[w].from = h.from
        /\ job'[w].token = h.token /\ job'[w].next = NextToken(w, h.token)
    BY DEF Refresh, storeVars, historyVars, GrantInv, TypeOK
  <1>2. Grows
    BY <1>1 DEF Grows
  <1>3. RightInv'
    BY <1>1, <1>2, RightKept DEF Carries
  <1>4. JobInv(job[w])'
    <2>1. Founds(h.from, h.token)'
      BY <1>2, AuthorityKept
    <2> QED
      BY <1>1, <2>1 DEF JobInv, Founds, NextToken, Token
  <1>5. \A v \in Worker : job'[v] # None => JobInv(job[v])'
    BY <1>1, <1>2, <1>4, AuthorityKept
  <1>6. AuthorityInv'
    BY <1>1, <1>2, <1>5, AuthorityKept DEF AuthorityInv
  <1>7. FamilyInv'
    BY <1>1, FamiliesKept
  <1> QED
    BY <1>3, <1>6, <1>7, RefreshTypes DEF GrantInv

\* A token is honoured if it is its family's last one, which no token that
\* was honoured before is, and the family was not ended.
LEMMA HonouredIsFresh ==
    ASSUME GrantInv, NEW w \in Worker, Rotate(w),
           RotationStatus(grants[job[w].token.family], job[w]) = "rotated"
    PROVE  /\ job[w].token \notin spent
           /\ <<job[w].token.family, job[w].token.exp>> \notin replayed
  <1> DEFINE t == job[w].token
             g == grants[t.family]
  <1>1. /\ t \in RefreshToken /\ job[w].next \in RefreshToken
        /\ t.family \in Family /\ t.generation \in Nat
    BY RotateTypes DEF GrantInv, RefreshToken
  <1>2. g \in GrantRecord \cup {None} /\ now \in Nat
    BY <1>1 DEF GrantInv, TypeOK
  <1>3. /\ g # None /\ g.status = "active" /\ g.token = t
        /\ ~ (t.generation < g.generation)
    BY <1>1, <1>2, RotationOutcome
  <1> HIDE DEF t
  <1>4. t \notin spent
    BY <1>3 DEF GrantInv, FamilyInv
  <1>5. <<t.family, t.exp>> \notin replayed
    BY <1>3 DEF GrantInv, FamilyInv
  <1> QED
    BY <1>4, <1>5 DEF t

LEMMA RotateKeepsInv ==
    ASSUME GrantInv, NEW w \in Worker, Rotate(w)
    PROVE  GrantInv'
  <1>1. PICK j, f : j = job[w] /\ f = j.token.family
    OBVIOUS
  <1>2. PICK g : g = grants[f]
    OBVIOUS
  <1>3. /\ j.token \in RefreshToken /\ j.next \in RefreshToken
        /\ j.from \in Consent /\ f \in Family /\ TypeOK'
        /\ j.token.generation \in Nat /\ j.token.family = f
    BY <1>1, RotateTypes DEF GrantInv, RefreshToken
  <1>4. /\ g \in GrantRecord \cup {None} /\ now \in Nat
        /\ grants'[f] = RotatedGrant(g, j)
        /\ \A x \in Family \ {f} : grants'[x] = grants[x]
    BY <1>1, <1>2, <1>3 DEF Rotate, GrantInv, TypeOK
  <1>5. /\ job[w] # None /\ j.step = "rotate"
        /\ \A v \in Worker \ {w} : job'[v] = job[v]
        /\ \/ job'[w] = None
           \/ /\ RotationStatus(g, j) = "rotated"
              /\ job'[w] = Responding(w, j.next, g.context)
        /\ UNCHANGED <<page, consents, codes, held, granted, access>>
    BY <1>1, <1>2 DEF Rotate, worldVars, GrantInv, TypeOK
  <1>6. /\ spent' = IF RotationStatus(g, j) = "rotated"
                    THEN spent \cup {j.token} ELSE spent
        /\ \/ replayed' = replayed
           \/ /\ j.matches /\ LiveGrant(f) /\ j.token \in spent
              /\ replayed' = replayed \cup {<<f, j.token.exp>>}
    BY <1>1, <1>2 DEF Rotate
  <1>7. Grows
    BY <1>5 DEF Grows
  <1>8. /\ JobInv(j) /\ Founds(j.from, j.token) /\ Founded(f)
        /\ j.next.generation = j.token.generation + 1
    <2>1. JobInv(j)
      BY <1>1, <1>5 DEF GrantInv, AuthorityInv
    <2>2. Founds(j.from, j.token)
      BY <1>5, <2>1 DEF JobInv
    <2>3. <<f, j.token.exp>> \in granted[j.from] /\ <<f, j.token.exp>>[1] = f
      BY <1>3, <2>2 DEF Founds
    <2> QED
      BY <1>3, <1>5, <2>1, <2>2, <2>3 DEF JobInv, Founded
  <1>9. RotatedGrant(g, j) # None => RotatedGrant(g, j).context = g.context
    BY <1>3, <1>4, RotationOutcome
  <1>10. RightInv'
    <2>1. \A v \in Worker, x \in Consent : Carries(v, x)' => Carries(v, x)
      BY <1>5 DEF Carries, Responding
    <2> QED
      BY <1>5, <1>7, <2>1, RightKept
  <1>11. AuthorityInv'
    <2>1. job'[w] # None => JobInv(job[w])'
      <3>1. CASE job'[w] = None
        BY <3>1
      <3>2. CASE /\ RotationStatus(g, j) = "rotated"
                 /\ job'[w] = Responding(w, j.next, g.context)
        <4>1. g # None
          BY <1>3, <1>4, <3>2, RotationOutcome
        <4>2. <<f, j.token.exp>> \in granted[j.from]
              /\ <<f, j.token.exp>>[1] = f
          BY <1>3, <1>8 DEF Founds
        <4>3. g.context = Of(j.from)
          BY <1>2, <1>3, <4>1, <4>2 DEF GrantInv, AuthorityInv
        <4>4. /\ job'[w].step = "respond" /\ job'[w].from = j.from
              /\ job'[w].context = g.context /\ job'[w].token = j.next
          BY <1>1, <3>2 DEF Responding
        <4>5. j.next.family = f /\ j.next.exp = j.token.exp
          BY <1>1, <1>5, <1>8 DEF JobInv
        <4> QED
          BY <1>5, <4>2, <4>3, <4>4, <4>5 DEF JobInv, Founds, Of
      <3> QED
        BY <1>5, <3>1, <3>2
    <2>2. \A v \in Worker : job'[v] # None => JobInv(job[v])'
      BY <1>5, <1>7, <2>1, AuthorityKept
    <2>3. ASSUME NEW c \in Consent, NEW x \in granted[c], grants'[x[1]] # None
          PROVE  grants'[x[1]].context = Of(c)'
      <3>1. x[1] \in Family
        BY DEF GrantInv, TypeOK
      <3>2. grants[x[1]] # None /\ grants'[x[1]].context = grants[x[1]].context
        <4>1. CASE x[1] = f
          BY <1>2, <1>3, <1>4, <1>9, <2>3, <4>1, RotationOutcome
        <4>2. CASE x[1] # f
          BY <1>4, <2>3, <3>1, <4>2
        <4> QED
          BY <4>1, <4>2
      <3> QED
        BY <1>7, <3>2, AuthorityKept
    <2> QED
      BY <1>5, <1>7, <2>2, <2>3, AuthorityKept DEF AuthorityInv
  <1>12. \A x : Founded(x)' <=> Founded(x)
    BY <1>5 DEF Founded
  <1>13. \A x \in Family : grants[x] # None =>
            Founded(x) /\ grants[x].token.generation = grants[x].generation
    BY DEF GrantInv, FamilyInv
  <1>14. FamilyInv'
    <2>1. ASSUME NEW x \in Family, grants'[x] # None
          PROVE  /\ Founded(x)
                 /\ grants'[x].token.generation = grants'[x].generation
      <3>1. CASE x # f
        BY <1>4, <1>13, <2>1, <3>1
      <3>2. CASE x = f
        BY <1>2, <1>3, <1>4, <1>8, <1>13, <2>1, <3>2, RotationOutcome
      <3> QED
        BY <3>1, <3>2
    <2>2. grants'[f] # None =>
            /\ g # None /\ grants'[f].generation >= g.generation
            /\ g.status = "revoked" => grants'[f].status = "revoked"
            /\ RotationStatus(g, j) = "rotated" =>
                 j.token.generation < grants'[f].generation
      <3>1. g # None => g.generation \in Nat /\ g.exp \in Nat
        BY <1>4 DEF GrantRecord
      <3>2. g # None /\ RotationStatus(g, j) = "rotated" =>
              g.generation = j.token.generation
        BY <1>2, <1>3, <1>4, <1>13, RotationOutcome
      <3> QED
        BY <1>3, <1>4, <1>8, <3>1, <3>2, RotationOutcome
    <2>3. ASSUME NEW t \in spent'
          PROVE  /\ Founded(t.family)
                 /\ grants'[t.family] # None =>
                      t.generation < grants'[t.family].generation
      <3>1. t.family \in Family /\ t.generation \in Nat
        BY <1>3, <2>3 DEF TypeOK, RefreshToken
      <3>2. CASE t \in spent
        <4>1. /\ Founded(t.family)
              /\ grants[t.family] # None =>
                   t.generation < grants[t.family].generation
          BY <3>2 DEF GrantInv, FamilyInv
        <4>2. CASE t.family # f
          BY <1>4, <3>1, <4>1, <4>2
        <4>3. CASE t.family = f /\ grants'[f] # None
          <5>1. g.generation \in Nat /\ grants'[f].generation \in Nat
            BY <1>3, <1>4, <2>2, <4>3 DEF TypeOK, GrantRecord
          <5> QED
            BY <1>2, <2>2, <3>1, <4>1, <4>3, <5>1
        <4> QED
          BY <4>1, <4>2, <4>3
      <3>3. CASE t = j.token /\ RotationStatus(g, j) = "rotated"
        BY <1>3, <1>8, <2>2, <3>3
      <3> QED
        BY <1>6, <2>3, <3>2, <3>3
    <2>4. ASSUME NEW x \in replayed'
          PROVE  /\ Founded(x[1])
                 /\ grants'[x[1]] # None => grants'[x[1]].status = "revoked"
      <3>1. CASE x \in replayed
        <4>1. /\ Founded(x[1]) /\ x[1] \in Family
              /\ grants[x[1]] # None => grants[x[1]].status = "revoked"
          BY <3>1 DEF GrantInv, FamilyInv, TypeOK
        <4> QED
          BY <1>2, <1>4, <2>2, <4>1
      <3>2. CASE /\ x = <<f, j.token.exp>> /\ j.matches /\ LiveGrant(f)
                 /\ j.token \in spent
        <4>1. g # None /\ g.exp > now
          BY <1>2, <3>2 DEF LiveGrant
        <4>2. j.token.generation < g.generation
          BY <1>2, <1>3, <3>2, <4>1 DEF GrantInv, FamilyInv
        <4>3. grants'[f] # None => grants'[f].status = "revoked"
          BY <1>3, <1>4, <3>2, <4>1, <4>2, RotationOutcome
        <4> QED
          BY <1>8, <3>2, <4>3
      <3> QED
        BY <1>6, <2>4, <3>1, <3>2
    <2> QED
      BY <1>12, <2>1, <2>3, <2>4 DEF FamilyInv
  <1> QED
    BY <1>3, <1>10, <1>11, <1>14 DEF GrantInv

LEMMA RespondKeepsInv ==
    ASSUME GrantInv, NEW w \in Worker, Respond(w)
    PROVE  GrantInv'
  <1>1. PICK c, t, e : c = job[w].from /\ t = job[w].token
                       /\ e = AccessExp(job[w])
    OBVIOUS
  <1>2. /\ TypeOK' /\ c \in Consent /\ t.exp \in Nat
        /\ e \in Nat /\ e <= t.exp
    BY <1>1, RespondTypes DEF GrantInv, RefreshToken
  <1>3. /\ UNCHANGED <<page, consents, codes, grants, granted, spent,
                       replayed>>
        /\ job[w] # None /\ job[w].step = "respond"
        /\ job' = [job EXCEPT ![w] = None]
        /\ access' \subseteq access \cup
             {[from |-> c, context |-> job[w].context, exp |-> e]}
        /\ held' \subseteq held \cup {[token |-> t, from |-> c]}
    BY <1>1 DEF Respond, worldVars, storeVars
  <1>4. Grows
    BY <1>3 DEF Grows
  <1>5. \A v \in Worker : job'[v] # None => job'[v] = job[v] /\ job[v] # None
    BY <1>3 DEF GrantInv, TypeOK
  <1>6. job[w].context = Of(c)' /\ Founds(c, t)'
    BY <1>1, <1>3 DEF GrantInv, AuthorityInv, JobInv, Founds, Of
  <1>7. RightInv'
    BY <1>3, <1>4, <1>5, RightKept DEF Carries
  <1>8. \A h \in held' : Founds(h.from, h.token)'
    BY <1>3, <1>4, <1>6, AuthorityKept
  <1>9. \A a \in access' : /\ a.context = Of(a.from)'
                           /\ \E x \in granted'[a.from] : a.exp <= x[2]
    <2>1. <<t.family, t.exp>> \in granted'[c]
          /\ e <= <<t.family, t.exp>>[2]
      BY <1>2, <1>6 DEF Founds
    <2> QED
      BY <1>3, <1>4, <1>6, <2>1, AuthorityKept
  <1>10. AuthorityInv'
    BY <1>3, <1>4, <1>5, <1>8, <1>9, AuthorityKept DEF AuthorityInv
  <1>11. FamilyInv'
    BY <1>3, FamiliesKept
  <1> QED
    BY <1>2, <1>7, <1>10, <1>11 DEF GrantInv

\* Time, the alarm and a restart only take away.
LEMMA WorldKeepsInv ==
    ASSUME GrantInv,
           (\E s \in Session : ChangeSession(s)) \/ Tick \/ Alarm \/ Restart
    PROVE  GrantInv'
  <1>1. /\ UNCHANGED <<page, held, granted, spent, replayed, access>>
        /\ \A c \in Consent : consents'[c] \in {consents[c], None}
        /\ \A c \in Consent : codes'[c] \in {codes[c], None}
        /\ \A f \in Family : grants'[f] = grants[f] \/ grants'[f] = None
        /\ \A w \in Worker : job'[w] = job[w] \/ job'[w] = None
    <2>1. CASE (\E s \in Session : ChangeSession(s)) \/ Tick
      BY <2>1 DEF ChangeSession, Tick, storeVars, historyVars
    <2>2. CASE Alarm
      BY <2>2 DEF Alarm, historyVars, GrantInv, TypeOK
    <2>3. CASE Restart
      BY <2>3 DEF Restart, historyVars
    <2> QED
      BY <2>1, <2>2, <2>3
  <1>2. Grows
    BY <1>1 DEF Grows
  <1>3. RightInv'
    BY <1>1, <1>2, RightKept DEF Carries
  <1>4. AuthorityInv'
    <2>1. \A c \in Consent : \A x \in granted[c] : x[1] \in Family
      BY DEF GrantInv, TypeOK
    <2> QED
      BY <1>1, <1>2, <2>1, AuthorityKept DEF AuthorityInv
  <1>5. FamilyInv'
    BY <1>1, FamiliesKept
  <1> QED
    BY <1>3, <1>4, <1>5, WorldTypes DEF GrantInv

LEMMA NextKeepsInv == GrantInv /\ [Next]_vars => GrantInv'
  <1> SUFFICES ASSUME GrantInv, [Next]_vars PROVE GrantInv'
    OBVIOUS
  <1>1. CASE UNCHANGED vars
    BY <1>1 DEF vars, worldVars, storeVars, historyVars, GrantInv, TypeOK,
       RightInv, NobodyCarries, Carries, AuthorityInv, JobInv, Founds, Of,
       FamilyInv, Founded
  <1>2. CASE Next
    BY <1>2, ShowKeepsInv, DecideKeepsInv, CodeKeepsInv, RedeemKeepsInv,
       GrantKeepsInv, RefreshKeepsInv, RotateKeepsInv, RespondKeepsInv,
       WorldKeepsInv DEF Next
  <1> QED
    BY <1>1, <1>2

\* The right of a consent is in one place, what is held goes back to it, and
\* a family that is gone does not come back.
THEOREM GrantInvariant == Spec => []GrantInv
  BY InitInv, NextKeepsInv, PTL DEF Spec

-----------------------------------------------------------------------------
(* The properties *)

\* A consent founds at most one family, its access tokens carry the context
\* of the session that was shown the page, and none outlives the family.
THEOREM ConsentsBoundAuthority == Spec => []ConsentBoundsAuthority
  <1>1. GrantInv => ConsentBoundsAuthority
    <2> SUFFICES ASSUME GrantInv PROVE ConsentBoundsAuthority
      OBVIOUS
    <2>1. ASSUME NEW c \in Consent PROVE Cardinality(granted[c]) <= 1
      <3>1. CASE granted[c] = {}
        BY <3>1, FS_EmptySet
      <3>2. ASSUME NEW x \in granted[c]
            PROVE  Cardinality(granted[c]) <= 1
        <4>1. granted[c] = {x}
          BY <3>2 DEF GrantInv, RightInv
        <4> QED
          BY <4>1, FS_Singleton
      <3> QED
        BY <3>1, <3>2
    <2>2. \A a \in access : /\ a.context = ContextOf[page[a.from].session]
                            /\ \E g \in granted[a.from] : a.exp <= g[2]
      BY DEF GrantInv, AuthorityInv, Of
    <2> QED
      BY <2>1, <2>2 DEF ConsentBoundsAuthority
  <1> QED
    BY <1>1, GrantInvariant, PTL

\* A refresh token is honoured once, and no token of a family is after one
\* of them has come again.
THEOREM ReplaysEndFamilies == Spec => ReplayEndsFamily
  <1> DEFINE Fresh ==
        \A w \in Worker :
          /\ job[w] # None /\ job[w].step = "rotate"
          /\ job'[w] # None /\ job'[w].step = "respond"
          => LET t == job[w].token
             IN  t \notin spent /\ <<t.family, t.exp>> \notin replayed
  <1>1. GrantInv /\ [Next]_vars => [Fresh]_vars
    <2> SUFFICES ASSUME GrantInv, Next, NEW w \in Worker,
                        job[w] # None, job[w].step = "rotate",
                        job'[w] # None, job'[w].step = "respond"
                 PROVE  /\ job[w].token \notin spent
                        /\ <<job[w].token.family, job[w].token.exp>>
                             \notin replayed
      OBVIOUS
    <2>1. Rotate(w) /\ RotationStatus(grants[job[w].token.family], job[w])
                         = "rotated"
      <3>1. job'[w] # job[w]
        OBVIOUS
      <3>2. job \in [Worker -> Job \cup {None}]
        BY DEF GrantInv, TypeOK
      <3>3. ASSUME NEW v \in Worker,
                   \/ \E c \in Consent, yes \in BOOLEAN :
                        Decide(v, c, yes) \/ RedeemCode(v, c, yes)
                   \/ \E h \in held, yes \in BOOLEAN : Refresh(v, h, yes)
            PROVE  FALSE
        <4>1. job[v] = None /\ \A u \in Worker \ {v} : job'[u] = job[u]
          BY <3>2, <3>3 DEF Decide, RedeemCode, Refresh
        <4> QED
          BY <3>1, <4>1
      <3>4. ASSUME NEW v \in Worker,
                   \/ CreateCode(v) \/ Respond(v)
                   \/ \E f \in Family : CreateGrant(v, f)
            PROVE  FALSE
        <4>1. /\ job[v].step # "rotate"
              /\ \A u \in Worker \ {v} : job'[u] = job[u]
          BY <3>2, <3>4 DEF CreateCode, Respond, CreateGrant
        <4> QED
          BY <3>1, <4>1
      <3>5. CASE \/ \E c \in Consent : ShowConsent(c)
                 \/ \E s \in Session : ChangeSession(s)
                 \/ Tick \/ Alarm \/ Restart
        BY <3>1, <3>5 DEF ShowConsent, ChangeSession, Tick, Alarm, Restart
      <3>6. ASSUME NEW v \in Worker, Rotate(v)
            PROVE  /\ v = w
                   /\ RotationStatus(grants[job[w].token.family], job[w])
                        = "rotated"
        <4>1. v = w
          BY <3>1, <3>2, <3>6 DEF Rotate
        <4> QED
          BY <3>2, <3>6, <4>1 DEF Rotate
      <3> QED
        BY <3>3, <3>4, <3>5, <3>6 DEF Next
    <2> QED
      BY <2>1, HonouredIsFresh
  <1> QED
    BY <1>1, GrantInvariant, PTL DEF Spec, ReplayEndsFamily

=============================================================================
