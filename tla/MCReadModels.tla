---------------------------- MODULE MCReadModels ----------------------------
(***************************************************************************)
(* The read models of the Projects that ProjectCore reaches.  The ids of a *)
(* kind are used in increasing order, so their order is that of recording. *)
(***************************************************************************)
EXTENDS MCProjectCore, ReadModels

MCBefore(x, y) ==
    IF "sha" \in DOMAIN x THEN x.sha < y.sha ELSE x.id < y.id

\* Two of the Runs started at one time and have ids that localeCompare and the
\* code units sort differently.
MCPrecedes(x, y) ==
    IF {x.id, y.id} = {14, 15} THEN y.id < x.id ELSE x.id < y.id

\* Reviews change nothing else: it is enough that they are of the comparison,
\* and of the root and of the Run that is under way while nothing is compared.
ReviewsOfFew ==
    \A w \in reviews :
        w.target.of \in IF comparisons = {} THEN {1, 15} ELSE {41}

\* Evidence of every kind, and with every kind of location.
MCEvidenceShape ==
    [e \in EvidenceId |->
       CASE e = 21 -> [kind |-> "check", location |-> "git"]
         [] e = 22 -> [kind |-> "diff", location |-> "url"]
         [] e = 23 -> [kind |-> "note", location |-> "text"]
         [] e = 24 -> [kind |-> "screenshot", location |-> "url"]
         [] OTHER -> [kind |-> "report", location |-> "git"]]

\* The restrictions are on the steps: TLC checks invariants on states that fail
\* a CONSTRAINT, too, and each is costly here.
TidySpec == GrownProject /\ [][Next /\ IdsInOrder' /\ ReviewsOfFew']_vars
=============================================================================
