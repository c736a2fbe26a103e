---------------------------- MODULE CachedReads ----------------------------
(***************************************************************************)
(* What a cached read promises, whatever the caches, the coalescing and    *)
(* the invalidations that race with loads: a request is answered with a    *)
(* state the place had, and never with one older than the last             *)
(* invalidation that was handled before the request was asked.             *)
(***************************************************************************)
EXTENDS Naturals

CONSTANTS
    Place,          \* what is read
    Reader,         \* requests in progress at one time
    MaxVersion,
    None

VARIABLES
    version,        \* the state of each place, as a count of its changes
    floor,          \* the version at the last invalidation of the place
    request         \* what each reader asked and was answered

readsVars == <<version, floor, request>>

Versions == 0..MaxVersion

Init ==
    /\ version = [p \in Place |-> 0]
    /\ floor = [p \in Place |-> 0]
    /\ request = [r \in Reader |-> None]

Change(P) ==
    /\ version' = [p \in Place |-> IF p \in P THEN version[p] + 1
                                              ELSE version[p]]
    /\ UNCHANGED <<floor, request>>

Invalidate(P) ==
    /\ floor' = [p \in Place |-> IF p \in P THEN version[p] ELSE floor[p]]
    /\ UNCHANGED <<version, request>>

Asked(p, v) == [place |-> p, since |-> floor[p], answer |-> v]

Ask(r, p) ==
    /\ request[r] = None
    /\ \E v \in {None} \cup floor[p]..version[p] :
          request' = [request EXCEPT ![r] = Asked(p, v)]
    /\ UNCHANGED <<version, floor>>

\* Several requests are answered at once when they share a load.
Answer(R) ==
    /\ \A r \in R : request[r] # None /\ request[r].answer = None
    /\ \E answer \in [R -> Versions] :
          /\ \A r \in R :
                answer[r] \in request[r].since..version[request[r].place]
          /\ request' = [r \in Reader |-> IF r \in R
                           THEN [request[r] EXCEPT !.answer = answer[r]]
                           ELSE request[r]]
    /\ UNCHANGED <<version, floor>>

\* Requests end, by an answer or by a failure.
End(R) ==
    /\ request' = [r \in Reader |-> IF r \in R THEN None ELSE request[r]]
    /\ UNCHANGED <<version, floor>>

Next ==
    \/ \E P \in SUBSET Place : Change(P) \/ Invalidate(P)
    \/ \E r \in Reader, p \in Place : Ask(r, p)
    \/ \E R \in SUBSET Reader : Answer(R) \/ End(R)

Spec == Init /\ [][Next]_readsVars
=============================================================================
