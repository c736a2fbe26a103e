--------------------------- MODULE MCOAuthGrants ----------------------------
(* An instance of OAuthGrants for TLC. *)
EXTENDS OAuthGrants, TLC

\* Each session has a context of its own.
MCContextOf == [s \in Session |-> s]

MCSymmetry == 
    Permutations(Worker) \cup Permutations(Consent) \cup Permutations(Family)
=============================================================================
