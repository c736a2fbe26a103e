-------------------------- MODULE MCProjectCommands -------------------------
(***************************************************************************)
(* ProjectCommands for TLC.  The states are those of ProjectCore: which    *)
(* request a command belongs to, and its time, is made a function of what  *)
(* it adds.  The keys are numbers, like the ids of MCProjectCore.          *)
(***************************************************************************)
EXTENDS MCProjectCore, ProjectCommands

MCKey == 0..1000

\* Evidence with an even id belongs to the request that completes its Run.
CompletionOf(r) == 200 + r

NewIds(S) == {x.id : x \in S}

\* The key of the request that adds what this step adds.  A rebuild is tried
\* with the key that created the Project, too.
KeysNow ==
    IF rootSha' # rootSha THEN {0}
    ELSE IF vars' = vars THEN {0, 1}
    ELSE {r \in RunId : runs[r] = None /\ runs'[r] # None}
         \cup {IF runs'[r].status = "completed" THEN CompletionOf(r) ELSE 300 + r :
                 r \in {x \in RunId : runs[x] # None /\ runs'[x] # runs[x]}}
         \cup {q \in ProposalId : proposals[q] # proposals'[q]}
         \cup {IF e.id % 2 = 1 THEN e.id ELSE CompletionOf(e.run) :
                 e \in evidence' \ evidence}
         \cup NewIds((checkpoints' \ checkpoints) \cup (reviews' \ reviews)
                     \cup (dispositions' \ dispositions)
                     \cup (comparisons' \ comparisons)
                     \cup (decisions' \ decisions))

\* Evidence and a completion may follow other commands of their request.
IndexNow(k) ==
    IF CompletionOf(0) < k /\ k < CompletionOf(100)
    THEN Cardinality({x \in processedCommands : x.idempotencyKey[1] = k})
    ELSE 0

\* A Project that was rebuilt is followed until there is evidence.
RebuiltBriefly ==
    (\E x \in processedCommands' : x.idempotencyKey = <<1, 0>>) => evidence' = {}

\* The clock, when a commit is registered.
TimeNow == IF nodes' = nodes THEN 0
           ELSE (CHOOSE n \in nodes' : n \notin nodes).sha % 2

\* The engine decides nothing on checkpoints, or on Runs that failed or were
\* canceled: such a Run, or one with checkpoints, is followed while it is alone.
SomeRunsAreAlone ==
    \A r, q \in RunId :
        /\ runs[r] # None /\ runs[q] # None
        /\ runs[r].status \in {"failed", "canceled"}
           \/ \E x \in checkpoints : x.run = r
        => q = r

TidyNext ==
    /\ Next
    /\ \E k \in KeysNow, m \in Semantic : Mutation(k, m, IndexNow(k), TimeNow)
    /\ RebuiltBriefly

TidySpec == CommandInit /\ [][TidyNext]_commandVars
=============================================================================
