----------------------------- MODULE StateStore -----------------------------
(***************************************************************************)
(* The write path of a Project mutation: HunsuApplicationService.#mutate   *)
(* and GitHubProjectStateStore.append over the GitHub transport.           *)
(*                                                                         *)
(* A worker serves one attempt of a request.  Every call to GitHub is a    *)
(* step of its own, so attempts interleave between any two calls; what a   *)
(* worker computes from a snapshot it holds is one step with no call.  The *)
(* attempts of one request, concurrent or retried after a lost response,   *)
(* are attempts with the same Project, key and command.                    *)
(*                                                                         *)
(* GitHub: a read of a ref may lag behind the ref by MaxLag updates (the   *)
(* store waits for a branch that is "not yet visible"); creating a ref and *)
(* a non-forced update of a ref are atomic and see the ref as it is.       *)
(***************************************************************************)
EXTENDS Integers, Sequences

CONSTANTS
    Worker, Project, Key, Command,
    Node,
    NodeOf,         \* the Node a command registers, or None
    Accepts(_, _),
    MaxLag,         \* how many updates of the state branch a read may miss
    MaxPush,        \* bound on the pushes to the default branch
    None

ASSUME NoneIsFresh == None \notin Nat
ASSUME NodeOfType == NodeOf \in [Command -> Node \cup {None}]
ASSUME BoundsType == MaxLag \in Nat /\ MaxPush \in Nat

VARIABLES
    defaultHead,    \* number of the default branch's head commit
    base,           \* where the state branch starts, None: no such branch
    log,            \* command batches committed to the state branch
    tags,           \* managed Node anchors: pairs of Project and Node
    answered,       \* logical commands whose callers were told of success
    pc, req,        \* each worker's phase and request
    baseRead,       \* the default head it read
    snap,           \* the version of the state branch it read
    tries,          \* its reads of a branch that another worker created
    result          \* what its attempt came to

branchVars == <<base, log, tags>>
workerVars == <<pc, req, baseRead, snap, tries, result>>
vars == <<defaultHead, branchVars, answered, workerVars>>

Base == 0..MaxPush

Log == INSTANCE EventLog WITH base <- base, log <- log, answered <- answered

Request == [project : Project, key : Key, command : Command,
            expected : Log!Commit]

Success == {"applied", "replayed"}

\* The definite refusals: the caller may conclude that nothing was recorded.
Refusal == {"stale_state", "idempotency_conflict", "rejected"}

ASSUME NoneIsNoRefusal == None \notin Refusal

Phase == {"idle", "anchor", "read_base", "read_state", "create_branch",
          "await_branch", "decide", "commit", "patch", "reply"}

\* In these phases a worker waits for GitHub.
Calling == Phase \ {"idle", "decide", "reply"}

\* STATE_BRANCH_VISIBILITY_DELAYS_MS has three entries.
VisibilityReads == 3

-----------------------------------------------------------------------------
(* What a read of the state branch may return: a recent version of the     *)
(* branch; or nothing, while its creation is recent.                       *)

Seen(v) ==
    base # None /\ v \in 0..Len(log) /\ Len(log) - v <= MaxLag

Unseen == base = None \/ Len(log) < MaxLag

\* Every commit a caller may know: heads of the two branches, past or present.
KnownHeads ==
    (0..defaultHead) \X {0}
    \cup {head \in {base} \X (0..Len(log)) : base # None}

Init ==
    /\ defaultHead = 0
    /\ base = None /\ log = <<>> /\ tags = {} /\ answered = {}
    /\ pc = [w \in Worker |-> "idle"]
    /\ req = [w \in Worker |-> None]
    /\ baseRead = [w \in Worker |-> 0]
    /\ snap = [w \in Worker |-> 0]
    /\ tries = [w \in Worker |-> 0]
    /\ result = [w \in Worker |-> None]

-----------------------------------------------------------------------------

\* The attempt ends with outcome x; what it did before is left to the caller.
Finish(w, x) ==
    /\ pc' = [pc EXCEPT ![w] = "reply"]
    /\ result' = [result EXCEPT ![w] = x]

Goto(w, phase) ==
    pc' = [pc EXCEPT ![w] = phase] /\ UNCHANGED result

\* Someone pushes to the default branch.
PushDefault ==
    /\ defaultHead < MaxPush
    /\ defaultHead' = defaultHead + 1
    /\ UNCHANGED <<branchVars, answered, workerVars>>

\* Mutant of Begin: the Node is not anchored first.
BeginUnanchored(w, r) ==
    /\ pc[w] = "idle"
    /\ r.expected \in KnownHeads
    /\ pc' = [pc EXCEPT ![w] = "read_base"]
    /\ req' = [req EXCEPT ![w] = r]
    /\ UNCHANGED <<defaultHead, branchVars, answered, baseRead, snap, tries,
                   result>>

\* An attempt starts: a new request, a retry, or a second copy of one.
Begin(w, r) ==
    /\ pc[w] = "idle"
    /\ r.expected \in KnownHeads
    /\ pc' = [pc EXCEPT ![w] = IF NodeOf[r.command] = None THEN "read_base"
                               ELSE "anchor"]
    /\ req' = [req EXCEPT ![w] = r]
    /\ UNCHANGED <<defaultHead, branchVars, answered, baseRead, snap, tries,
                   result>>

\* anchorNode, before the mutation that registers the Node.  The tag's name
\* holds the commit it points to, so whoever creates it creates the same tag.
Anchor(w) ==
    /\ pc[w] = "anchor"
    /\ tags' = tags \cup {<<req[w].project, NodeOf[req[w].command]>>}
    /\ Goto(w, "read_base")
    /\ UNCHANGED <<defaultHead, base, log, answered, req, baseRead, snap,
                   tries>>

\* #mutate reads the head of the default branch.
ReadBase(w) ==
    /\ pc[w] = "read_base"
    /\ baseRead' = [baseRead EXCEPT ![w] = defaultHead]
    /\ Goto(w, "read_state")
    /\ UNCHANGED <<defaultHead, branchVars, answered, req, snap, tries>>

\* Mutant of ReadState: whoever finds no branch creates it.
ReadStateAnyHead(w) ==
    /\ pc[w] = "read_state"
    /\ \/ /\ \E v \in 0..Len(log) : Seen(v) /\ snap' = [snap EXCEPT ![w] = v]
          /\ Goto(w, "decide")
       \/ Unseen /\ Goto(w, "create_branch") /\ UNCHANGED snap
    /\ UNCHANGED <<defaultHead, branchVars, answered, req, baseRead, tries>>

\* append reads the state branch.  Without one, only a caller that confirmed
\* the default head just read may create it.
ReadState(w) ==
    /\ pc[w] = "read_state"
    /\ \/ /\ \E v \in 0..Len(log) : Seen(v) /\ snap' = [snap EXCEPT ![w] = v]
          /\ Goto(w, "decide")
       \/ /\ Unseen
          /\ IF req[w].expected = <<baseRead[w], 0>>
             THEN Goto(w, "create_branch")
             ELSE Finish(w, "stale_state")
          /\ UNCHANGED snap
    /\ UNCHANGED <<defaultHead, branchVars, answered, req, baseRead, tries>>

\* Mutant of CreateBranch: after a conflict it starts over, however often.
CreateBranchAgain(w) ==
    /\ pc[w] = "create_branch"
    /\ IF base = None
       THEN base' = baseRead[w] /\ Goto(w, "decide")
       ELSE UNCHANGED base /\ Goto(w, "read_state")
    /\ UNCHANGED <<defaultHead, log, tags, answered, req, baseRead, snap,
                   tries>>

\* createBranch: creates the ref, and its response may be lost; or conflicts
\* with a branch that exists.
CreateBranch(w) ==
    /\ pc[w] = "create_branch"
    /\ \/ /\ base = None
          /\ base' = baseRead[w]
          /\ snap' = [snap EXCEPT ![w] = 0]
          /\ Goto(w, "decide") \/ Finish(w, "transport")
          /\ UNCHANGED tries
       \/ /\ base # None
          /\ tries' = [tries EXCEPT ![w] = 0]
          /\ Goto(w, "await_branch")
          /\ UNCHANGED <<base, snap>>
    /\ UNCHANGED <<defaultHead, log, tags, answered, req, baseRead>>

\* Mutant of AwaitBranch: one read too many.
AwaitBranchOnceMore(w) ==
    /\ pc[w] = "await_branch"
    /\ tries' = [tries EXCEPT ![w] = @ + 1]
    /\ \/ /\ \E v \in 0..Len(log) : Seen(v) /\ snap' = [snap EXCEPT ![w] = v]
          /\ Goto(w, "decide")
       \/ /\ Unseen
          /\ IF tries[w] = VisibilityReads
             THEN Finish(w, "transport")
             ELSE Goto(w, "await_branch")
          /\ UNCHANGED snap
    /\ UNCHANGED <<defaultHead, branchVars, answered, req, baseRead>>

\* #readConcurrentStateBranch: reads the branch the winner created, a bounded
\* number of times.
AwaitBranch(w) ==
    /\ pc[w] = "await_branch"
    /\ tries' = [tries EXCEPT ![w] = @ + 1]
    /\ \/ /\ \E v \in 0..Len(log) : Seen(v) /\ snap' = [snap EXCEPT ![w] = v]
          /\ Goto(w, "decide")
       \/ /\ Unseen
          /\ IF tries[w] + 1 = VisibilityReads
             THEN Finish(w, "transport")
             ELSE Goto(w, "await_branch")
          /\ UNCHANGED snap
    /\ UNCHANGED <<defaultHead, branchVars, answered, req, baseRead>>

\* A batch of the snapshot that used the request's key.
Replayed(w, i) ==
    i \in 1..snap[w] /\ Log!UsedAt(log, req[w].project, req[w].key, i)

\* Mutants of Decide: the confirmed head is not compared, or is compared
\* before the idempotency key is looked up.
DecideAnyHead(w) ==
    /\ pc[w] = "decide"
    /\ \/ \E i \in 1..snap[w] : Replayed(w, i) /\ Finish(w, "replayed")
       \/ /\ \A i \in 1..snap[w] : ~Replayed(w, i)
          /\ IF Accepts(Log!View(log, req[w].project, snap[w]), req[w].command)
             THEN Goto(w, "commit")
             ELSE Finish(w, "rejected")
    /\ UNCHANGED <<defaultHead, branchVars, answered, req, baseRead, snap,
                   tries>>

DecideHeadFirst(w) ==
    /\ pc[w] = "decide"
    /\ IF req[w].expected # <<base, snap[w]>>
       THEN Finish(w, "stale_state")
       ELSE IF \E i \in 1..snap[w] : Replayed(w, i)
            THEN Finish(w, "replayed")
            ELSE Goto(w, "commit")
    /\ UNCHANGED <<defaultHead, branchVars, answered, req, baseRead, snap,
                   tries>>

\* The decision on the snapshot: first the idempotency key, then the head the
\* caller confirmed, then the domain.
Decide(w) ==
    /\ pc[w] = "decide"
    /\ \/ \E i \in 1..snap[w] :
            /\ Replayed(w, i)
            /\ Finish(w, IF log[i].command = req[w].command THEN "replayed"
                         ELSE "idempotency_conflict")
       \/ /\ \A i \in 1..snap[w] : ~Replayed(w, i)
          /\ IF req[w].expected # <<base, snap[w]>>
             THEN Finish(w, "stale_state")
             ELSE IF Accepts(Log!View(log, req[w].project, snap[w]),
                             req[w].command)
                  THEN Goto(w, "commit")
                  ELSE Finish(w, "rejected")
    /\ UNCHANGED <<defaultHead, branchVars, answered, req, baseRead, snap,
                   tries>>

\* commitFiles reads the ref again before it builds tree and commit.
CommitFiles(w) ==
    /\ pc[w] = "commit"
    /\ \/ Seen(snap[w]) /\ Goto(w, "patch")
       \/ /\ Unseen \/ \E v \in 0..Len(log) : Seen(v) /\ v # snap[w]
          /\ Finish(w, "stale_state")
    /\ UNCHANGED <<defaultHead, branchVars, answered, req, baseRead, snap,
                   tries>>

\* Mutant of PatchRef: the update is forced.
PatchRefForced(w) ==
    /\ pc[w] = "patch"
    /\ log' = Append(SubSeq(log, 1, snap[w]),
                     [project |-> req[w].project, key |-> req[w].key,
                      command |-> req[w].command,
                      previous |-> <<base, snap[w]>>])
    /\ Finish(w, "applied")
    /\ UNCHANGED <<defaultHead, base, tags, answered, req, baseRead, snap,
                   tries>>

\* Mutant of PatchRef: a branch that has moved is caught up with, and the
\* decided batch goes on its new head.
PatchRefRebased(w) ==
    /\ pc[w] = "patch"
    /\ log' = Append(log, [project |-> req[w].project, key |-> req[w].key,
                           command |-> req[w].command,
                           previous |-> <<base, Len(log)>>])
    /\ Finish(w, "applied")
    /\ UNCHANGED <<defaultHead, base, tags, answered, req, baseRead, snap,
                   tries>>

\* The non-forced update of the ref to a commit whose parent is the snapshot's
\* head: a fast-forward only if the branch has not moved.  Its response may be
\* lost.
PatchRef(w) ==
    /\ pc[w] = "patch"
    /\ IF Len(log) = snap[w]
       THEN /\ log' = Append(log, [project |-> req[w].project,
                                   key |-> req[w].key,
                                   command |-> req[w].command,
                                   previous |-> <<base, snap[w]>>])
            /\ Finish(w, "applied") \/ Finish(w, "transport")
       ELSE UNCHANGED log /\ Finish(w, "stale_state")
    /\ UNCHANGED <<defaultHead, base, tags, answered, req, baseRead, snap,
                   tries>>

\* A call fails, is refused by a cooldown or times out, without an effect.
TransportFails(w) ==
    /\ pc[w] \in Calling
    /\ Finish(w, "transport")
    /\ UNCHANGED <<defaultHead, branchVars, answered, req, baseRead, snap,
                   tries>>

\* An attempt keeps nothing once it is over.
Forget(w) ==
    /\ pc' = [pc EXCEPT ![w] = "idle"]
    /\ req' = [req EXCEPT ![w] = None]
    /\ baseRead' = [baseRead EXCEPT ![w] = 0]
    /\ snap' = [snap EXCEPT ![w] = 0]
    /\ tries' = [tries EXCEPT ![w] = 0]
    /\ result' = [result EXCEPT ![w] = None]

\* The response reaches the caller.
Reply(w) ==
    /\ pc[w] = "reply"
    /\ answered' = IF result[w] \in Success
                   THEN answered \cup {Log!LogicalOf(req[w])}
                   ELSE answered
    /\ Forget(w)
    /\ UNCHANGED <<defaultHead, branchVars>>

\* The process serving the attempt goes away.
Crash(w) ==
    /\ pc[w] # "idle"
    /\ Forget(w)
    /\ UNCHANGED <<defaultHead, branchVars, answered>>

-----------------------------------------------------------------------------

Step(w) ==
    \/ Anchor(w) \/ ReadBase(w) \/ ReadState(w) \/ CreateBranch(w)
    \/ AwaitBranch(w) \/ Decide(w) \/ CommitFiles(w) \/ PatchRef(w)
    \/ TransportFails(w) \/ Reply(w)

Next ==
    \/ PushDefault
    \/ \E w \in Worker :
        \/ \E p \in Project, k \in Key, c \in Command, head \in KnownHeads :
             Begin(w, [project |-> p, key |-> k, command |-> c,
                       expected |-> head])
        \/ Step(w)
        \/ Crash(w)

\* Every call of the transport ends by its deadline, so a worker that is not
\* cut short takes its next step.
Fairness == \A w \in Worker : WF_vars(Step(w))

Spec == Init /\ [][Next]_vars
FairSpec == Spec /\ Fairness

-----------------------------------------------------------------------------
(* Properties *)

TypeOK ==
    /\ defaultHead \in Base
    /\ Log!TypeOK
    /\ tags \subseteq Project \X Node
    /\ pc \in [Worker -> Phase]
    /\ req \in [Worker -> Request \cup {None}]
    /\ baseRead \in [Worker -> Base]
    /\ snap \in [Worker -> Nat]
    /\ tries \in [Worker -> 0..VisibilityReads]
    /\ result \in [Worker -> Success \cup Refusal \cup {"transport", None}]

\* Whatever attempts do to each other, the branch is an idempotent log: a
\* batch is decided on the very state it is appended to, a key is used once,
\* and what a caller was told stays recorded.
ImplementsEventLog == Log!Spec

\* However many copies of a command are in work, each with its own snapshot, a
\* Project records it once (the key is looked up three calls before the ref
\* moves; only the fast-forward rule makes the look-up stand).
AppliedOnce == Log!AppliedOnce

\* Whatever moved the branch between an attempt's read and its update, the
\* batch was accepted on exactly the Project that precedes it in the log and
\* names that head as its previous state: replay cannot be refused.
EveryBatchAccepted == Log!EveryBatchAccepted

\* Every Node the log registers has its anchor, at every moment, crashes
\* included: reconstruction never meets a missing ref (#verifyNodeAnchors).
NodesAnchored ==
    \A i \in 1..Len(log) :
        NodeOf[log[i].command] # None =>
            <<log[i].project, NodeOf[log[i].command]>> \in tags

\* A command that is recorded in the state an attempt read is never refused:
\* its idempotency key is looked up before its confirmed head, so that the
\* retry after a lost response is answered.  A lagging read may miss it.
RecordedIsNotRefused ==
    \A w \in Worker : result[w] \in Refusal =>
        \A i \in 1..snap[w] : Log!LogicalOf(log[i]) # Log!LogicalOf(req[w])

\* tests/github-store.test.ts: "stale bootstrap CAS does not create the Hunsu
\* state branch".  The branch is created at the head its creator confirmed, and
\* every batch went on exactly the head its caller confirmed, although the
\* branch may move between the check and the update.
ConfirmedHead ==
    [][/\ base = None /\ base' # None =>
            \E w \in Worker : pc[w] = "create_branch"
                              /\ req[w].expected = <<base', 0>>
       /\ log' # log =>
            \E w \in Worker : /\ pc[w] = "patch"
                              /\ req[w].expected = <<base, Len(log)>>]_vars

\* No attempt hangs: whatever fails, the caller gets an answer or the process
\* is gone.
AttemptsEnd == \A w \in Worker : pc[w] # "idle" ~> pc[w] = "idle"
=============================================================================
