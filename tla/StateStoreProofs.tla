-------------------------- MODULE StateStoreProofs --------------------------
(***************************************************************************)
(* The write path implements the event log, proved for any number of       *)
(* workers, Projects, keys and commands, any lag of reads and any number   *)
(* of pushes to the default branch.                                        *)
(*                                                                         *)
(* The invariant says what each phase of an attempt may rely on although   *)
(* other workers act between any two of its calls.  It survives their      *)
(* steps because every step of any worker only lets the branch and its     *)
(* anchors grow (Grows); a worker's own step establishes the assertion of  *)
(* the phase it enters.                                                    *)
(***************************************************************************)
EXTENDS StateStore, TLAPS

\* The batch of w's request is in the log.
Recorded(w) ==
    \E i \in 1..Len(log) : Log!LogicalOf(log[i]) = Log!LogicalOf(req[w])

\* The snapshot allows w's request: the key is new, the caller confirmed the
\* snapshot's head and the domain accepts the command.
Allowed(w) ==
    /\ \A i \in 1..snap[w] : ~Log!UsedAt(log, req[w].project, req[w].key, i)
    /\ Accepts(Log!View(log, req[w].project, snap[w]), req[w].command)
    /\ req[w].expected = <<base, snap[w]>>

Anchored(w) ==
    NodeOf[req[w].command] # None =>
        <<req[w].project, NodeOf[req[w].command]>> \in tags

\* What each phase relies on.
PhaseInv(w) ==
    /\ pc[w] # "idle" => req[w] \in Request
    /\ pc[w] = "anchor" => NodeOf[req[w].command] # None
    /\ pc[w] = "create_branch" => req[w].expected = <<baseRead[w], 0>>
    /\ pc[w] = "await_branch" => base # None /\ tries[w] < VisibilityReads
    /\ pc[w] \in {"decide", "commit", "patch"} =>
         base # None /\ snap[w] \in 0..Len(log)
    /\ pc[w] \in {"commit", "patch"} => Allowed(w)
    /\ pc[w] \notin {"idle", "anchor", "reply"} => Anchored(w)
    /\ pc[w] = "reply" /\ result[w] \in Success => Recorded(w)

StoreInv ==
    /\ TypeOK
    /\ base = None => Len(log) = 0
    /\ \A w \in Worker : PhaseInv(w)
    /\ NodesAnchored

\* Storage only grows.
Grows ==
    /\ base # None => base' = base
    /\ Len(log') \in Nat /\ Len(log) <= Len(log')
    /\ \A i \in 1..Len(log) : log'[i] = log[i]
    /\ tags \subseteq tags'

\* Worker u does nothing in this step.
Rests(u) ==
    /\ pc'[u] = pc[u] /\ req'[u] = req[u] /\ baseRead'[u] = baseRead[u]
    /\ snap'[u] = snap[u] /\ tries'[u] = tries[u] /\ result'[u] = result[u]

-----------------------------------------------------------------------------
(* Growth keeps what other workers rely on *)

LEMMA ViewKept ==
    ASSUME Grows, NEW p, NEW v \in 0..Len(log), Len(log) \in Nat
    PROVE  Log!View(log', p, v) = Log!View(log, p, v)
  <1>1. \A j \in 1..v : log'[j] = log[j]
    BY DEF Grows
  <1>2. {j \in 1..v : log'[j].project = p} = {j \in 1..v : log[j].project = p}
    BY <1>1
  <1> QED
    BY <1>1, <1>2 DEF Log!View

LEMMA RecordedKept ==
    ASSUME Grows, Len(log) \in Nat, NEW u, Recorded(u), req'[u] = req[u]
    PROVE  Recorded(u)'
  <1>1. PICK i \in 1..Len(log) : Log!LogicalOf(log[i]) = Log!LogicalOf(req[u])
    BY DEF Recorded
  <1>2. i \in 1..Len(log') /\ log'[i] = log[i]
    BY DEF Grows
  <1> QED
    BY <1>1, <1>2 DEF Recorded, Log!LogicalOf

LEMMA AllowedKept ==
    ASSUME Grows, Len(log) \in Nat, NEW u, base # None,
           snap[u] \in 0..Len(log), Allowed(u),
           req'[u] = req[u], snap'[u] = snap[u]
    PROVE  Allowed(u)'
  <1>1. \A i \in 1..snap[u] : log'[i] = log[i]
    BY DEF Grows
  <1>2. Log!View(log', req[u].project, snap[u])
          = Log!View(log, req[u].project, snap[u])
    BY ViewKept
  <1>3. base' = base
    BY DEF Grows
  <1> QED
    BY <1>1, <1>2, <1>3 DEF Allowed, Log!UsedAt

LEMMA OthersKept ==
    ASSUME StoreInv, Grows, NEW u \in Worker, Rests(u)
    PROVE  PhaseInv(u)'
  <1>1. PhaseInv(u) /\ Len(log) \in Nat
    BY DEF StoreInv, TypeOK, Log!TypeOK
  <1>2. pc[u] = "reply" /\ result[u] \in Success => Recorded(u)'
    BY <1>1, RecordedKept DEF Rests, PhaseInv
  <1>3. pc[u] \in {"commit", "patch"} => Allowed(u)'
    BY <1>1, AllowedKept DEF Rests, PhaseInv
  <1>4. Anchored(u) => Anchored(u)'
    BY DEF Anchored, Grows, Rests
  <1>5. base # None => base' = base
    BY DEF Grows
  <1>6. \A v \in 0..Len(log) : v \in 0..Len(log')
    BY <1>1 DEF Grows
  <1> QED
    BY <1>1, <1>2, <1>3, <1>4, <1>5, <1>6 DEF PhaseInv, Rests

\* What remains to prove of an action of worker w.
LEMMA OneWorkerMoves ==
    ASSUME StoreInv, Grows, NEW w \in Worker,
           \A u \in Worker \ {w} : Rests(u),
           TypeOK', PhaseInv(w)', base' = None => Len(log') = 0,
           NodesAnchored'
    PROVE  StoreInv'
  BY OthersKept DEF StoreInv

\* Where storage does not change, it grows trivially.
LEMMA StorageKept ==
    ASSUME StoreInv, UNCHANGED branchVars
    PROVE  Grows /\ NodesAnchored' /\ (base' = None => Len(log') = 0)
  BY DEF StoreInv, TypeOK, Log!TypeOK, branchVars, Grows, NodesAnchored

-----------------------------------------------------------------------------
(* One lemma per action *)

LEMMA PushDefaultKeeps ==
    ASSUME StoreInv, PushDefault
    PROVE  StoreInv'
  <1>1. Grows /\ NodesAnchored' /\ (base' = None => Len(log') = 0)
    BY StorageKept DEF PushDefault
  <1>2. \A u \in Worker : Rests(u)
    BY DEF PushDefault, workerVars, Rests
  <1>3. TypeOK'
    <2>1. defaultHead' \in Base
      BY BoundsType DEF StoreInv, TypeOK, PushDefault, Base
    <2> QED
      BY <2>1 DEF StoreInv, TypeOK, PushDefault, Log!TypeOK, branchVars,
                  workerVars
  <1> QED
    BY <1>1, <1>2, <1>3, OthersKept DEF StoreInv

\* The head that a caller confirms is a commit of one of the two branches.
LEMMA KnownHeadsAreCommits ==
    ASSUME StoreInv
    PROVE  KnownHeads \subseteq Log!Commit
  <1>1. defaultHead \in 0..MaxPush /\ Len(log) \in Nat
    BY DEF StoreInv, TypeOK, Log!TypeOK, Base
  <1>2. (0..defaultHead) \X {0} \subseteq Base \X Nat
    BY <1>1, BoundsType DEF Base
  <1>3. base # None => {base} \X (0..Len(log)) \subseteq Base \X Nat
    BY <1>1 DEF StoreInv, TypeOK, Log!TypeOK
  <1> QED
    BY <1>2, <1>3 DEF KnownHeads, Log!Commit

LEMMA BeginKeeps ==
    ASSUME StoreInv, NEW w \in Worker, NEW p \in Project, NEW k \in Key,
           NEW c \in Command, NEW head \in KnownHeads,
           Begin(w, [project |-> p, key |-> k, command |-> c,
                     expected |-> head])
    PROVE  StoreInv'
  <1> DEFINE r == [project |-> p, key |-> k, command |-> c,
                   expected |-> head]
  <1>1. r \in Request /\ r.command = c /\ r.project = p
    BY KnownHeadsAreCommits DEF Request
  <1>2. Begin(w, r)
    OBVIOUS
  <1> HIDE DEF r
  <1>3. Grows /\ NodesAnchored' /\ (base' = None => Len(log') = 0)
    BY <1>2, StorageKept DEF Begin
  <1>4. \A u \in Worker \ {w} : Rests(u)
    BY <1>2 DEF Begin, Rests, StoreInv, TypeOK
  <1>5. TypeOK'
    <2>2. pc' \in [Worker -> Phase]
      BY <1>2 DEF Begin, StoreInv, TypeOK, Phase
    <2>3. req' \in [Worker -> Request \cup {None}]
      BY <1>1, <1>2 DEF Begin, StoreInv, TypeOK
    <2> QED
      BY <1>2, <2>2, <2>3 DEF Begin, StoreInv, TypeOK, Log!TypeOK,
                               branchVars
  <1>6. PhaseInv(w)'
    <2>1. req'[w] = r
      BY <1>2 DEF Begin, StoreInv, TypeOK
    <2>2. pc'[w] = IF NodeOf[c] = None THEN "read_base" ELSE "anchor"
      BY <1>1, <1>2 DEF Begin, StoreInv, TypeOK
    <2>3. pc'[w] # "anchor" => Anchored(w)'
      BY <1>1, <2>1, <2>2 DEF Anchored
    <2> QED
      BY <1>1, <2>1, <2>2, <2>3 DEF PhaseInv
  <1> QED
    BY <1>3, <1>4, <1>5, <1>6, OneWorkerMoves

LEMMA GotoMoves ==
    ASSUME TypeOK, NEW w \in Worker, NEW phase \in Phase, Goto(w, phase)
    PROVE  /\ pc' \in [Worker -> Phase] /\ result' = result
           /\ pc'[w] = phase
           /\ \A u \in Worker \ {w} : pc'[u] = pc[u]
  BY DEF Goto, TypeOK

LEMMA FinishMoves ==
    ASSUME TypeOK, NEW w \in Worker,
           NEW x \in Success \cup Refusal \cup {"transport"}, Finish(w, x)
    PROVE  /\ pc' \in [Worker -> Phase]
           /\ result' \in [Worker -> Success \cup Refusal \cup
                                     {"transport", None}]
           /\ pc'[w] = "reply" /\ result'[w] = x
           /\ \A u \in Worker \ {w} : pc'[u] = pc[u] /\ result'[u] = result[u]
  BY DEF Finish, TypeOK, Phase

\* What w kept of its own in a step that only moved it to another phase.
OwnStep(w) ==
    /\ UNCHANGED <<defaultHead, branchVars, answered, req, baseRead>>
    /\ snap' \in [Worker -> Nat]
    /\ tries' \in [Worker -> 0..VisibilityReads]
    /\ \A u \in Worker \ {w} : snap'[u] = snap[u] /\ tries'[u] = tries[u]

\* A step to another phase has to establish what that phase relies on.
LEMMA GotoKeeps ==
    ASSUME StoreInv, NEW w \in Worker, NEW phase \in Phase, Goto(w, phase),
           OwnStep(w), PhaseInv(w)'
    PROVE  StoreInv'
  <1>1. /\ pc' \in [Worker -> Phase] /\ result' = result
        /\ \A u \in Worker \ {w} : pc'[u] = pc[u]
    BY GotoMoves DEF StoreInv
  <1>2. Grows /\ NodesAnchored' /\ (base' = None => Len(log') = 0)
    BY StorageKept DEF OwnStep
  <1>3. \A u \in Worker \ {w} : Rests(u)
    BY <1>1 DEF OwnStep, Rests
  <1>4. TypeOK'
    BY <1>1 DEF StoreInv, TypeOK, Log!TypeOK, OwnStep, branchVars
  <1> QED
    BY <1>2, <1>3, <1>4, OneWorkerMoves

\* An attempt that ends relies on nothing, unless it ends with success.
LEMMA FinishKeeps ==
    ASSUME StoreInv, NEW w \in Worker, pc[w] # "idle",
           NEW x \in Success \cup Refusal \cup {"transport"}, Finish(w, x),
           OwnStep(w), x \in Success => Recorded(w)
    PROVE  StoreInv'
  <1>1. /\ pc' \in [Worker -> Phase]
        /\ result' \in [Worker -> Success \cup Refusal \cup
                                  {"transport", None}]
        /\ pc'[w] = "reply" /\ result'[w] = x
        /\ \A u \in Worker \ {w} : pc'[u] = pc[u] /\ result'[u] = result[u]
    BY FinishMoves DEF StoreInv
  <1>2. Grows /\ NodesAnchored' /\ (base' = None => Len(log') = 0)
    BY StorageKept DEF OwnStep
  <1>3. \A u \in Worker \ {w} : Rests(u)
    BY <1>1 DEF OwnStep, Rests
  <1>4. TypeOK'
    BY <1>1 DEF StoreInv, TypeOK, Log!TypeOK, OwnStep, branchVars
  <1>5. PhaseInv(w)'
    <2>1. x \in Success => Recorded(w)'
      BY DEF Recorded, OwnStep, branchVars
    <2> QED
      BY <1>1, <2>1 DEF StoreInv, PhaseInv, OwnStep
  <1> QED
    BY <1>2, <1>3, <1>4, <1>5, OneWorkerMoves

LEMMA AnchorKeeps ==
    ASSUME StoreInv, NEW w \in Worker, Anchor(w)
    PROVE  StoreInv'
  <1>1. req[w] \in Request /\ NodeOf[req[w].command] # None
    BY DEF Anchor, StoreInv, PhaseInv
  <1>2. Grows
    BY DEF Grows, Anchor, StoreInv, TypeOK, Log!TypeOK
  <1>3. /\ pc' \in [Worker -> Phase] /\ result' = result
        /\ pc'[w] = "read_base"
        /\ \A u \in Worker \ {w} : pc'[u] = pc[u]
    BY GotoMoves DEF Anchor, StoreInv, Phase
  <1>4. \A u \in Worker \ {w} : Rests(u)
    BY <1>3 DEF Anchor, Rests
  <1>5. NodesAnchored' /\ (base' = None => Len(log') = 0)
    BY DEF NodesAnchored, StoreInv, Anchor
  <1>6. tags' \subseteq Project \X Node
    BY <1>1, NodeOfType DEF StoreInv, TypeOK, Request, Anchor
  <1>7. TypeOK'
    BY <1>3, <1>6 DEF StoreInv, TypeOK, Log!TypeOK, Anchor
  <1>8. PhaseInv(w)'
    <2>1. Anchored(w)'
      BY DEF Anchored, Anchor
    <2> QED
      BY <1>1, <1>3, <2>1 DEF PhaseInv, Anchor
  <1> QED
    BY <1>2, <1>4, <1>5, <1>7, <1>8, OneWorkerMoves

LEMMA ReadBaseKeeps ==
    ASSUME StoreInv, NEW w \in Worker, ReadBase(w)
    PROVE  StoreInv'
  <1>1. req[w] \in Request /\ Anchored(w)
    BY DEF ReadBase, StoreInv, PhaseInv
  <1>2. Grows /\ NodesAnchored' /\ (base' = None => Len(log') = 0)
    BY StorageKept DEF ReadBase
  <1>3. /\ pc' \in [Worker -> Phase] /\ result' = result
        /\ pc'[w] = "read_state"
        /\ \A u \in Worker \ {w} : pc'[u] = pc[u]
    BY GotoMoves DEF ReadBase, StoreInv, Phase
  <1>4. \A u \in Worker \ {w} : Rests(u)
    BY <1>3 DEF ReadBase, Rests, StoreInv, TypeOK
  <1>5. TypeOK'
    <2>1. baseRead' \in [Worker -> Base]
      BY DEF ReadBase, StoreInv, TypeOK
    <2> QED
      BY <1>3, <2>1 DEF StoreInv, TypeOK, Log!TypeOK, ReadBase, branchVars
  <1>6. PhaseInv(w)'
    <2>1. Anchored(w)'
      BY <1>1 DEF Anchored, ReadBase, branchVars
    <2> QED
      BY <1>1, <1>3, <2>1 DEF PhaseInv, ReadBase
  <1> QED
    BY <1>2, <1>4, <1>5, <1>6, OneWorkerMoves

\* A read of the branch returns a version of it.
LEMMA SeenMoves ==
    ASSUME StoreInv, NEW w \in Worker, NEW v \in 0..Len(log), Seen(v),
           snap' = [snap EXCEPT ![w] = v]
    PROVE  /\ base # None
           /\ snap' \in [Worker -> Nat] /\ snap'[w] \in 0..Len(log)
           /\ \A u \in Worker \ {w} : snap'[u] = snap[u]
  BY DEF Seen, StoreInv, TypeOK, Log!TypeOK

LEMMA ReadStateKeeps ==
    ASSUME StoreInv, NEW w \in Worker, ReadState(w)
    PROVE  StoreInv'
  <1>1. /\ req[w] \in Request /\ Anchored(w) /\ pc[w] # "idle" /\ TypeOK
    BY DEF ReadState, StoreInv, PhaseInv
  <1>2. Anchored(w)'
    BY <1>1 DEF Anchored, ReadState, branchVars
  <1>3. CASE (\E v \in 0..Len(log) : Seen(v) /\ snap' = [snap EXCEPT ![w] = v])
             /\ Goto(w, "decide")
    <2>1. /\ base # None
          /\ snap' \in [Worker -> Nat] /\ snap'[w] \in 0..Len(log)
          /\ \A u \in Worker \ {w} : snap'[u] = snap[u]
      BY <1>3, SeenMoves
    <2>2. OwnStep(w)
      BY <1>1, <2>1 DEF ReadState, OwnStep, TypeOK
    <2>3. pc'[w] = "decide" /\ result' = result
      BY <1>1, <1>3, GotoMoves DEF Phase
    <2>4. PhaseInv(w)'
      BY <1>1, <1>2, <2>1, <2>3 DEF PhaseInv, ReadState, branchVars
    <2> QED
      BY <1>3, <2>2, <2>4, GotoKeeps DEF Phase
  <1>4. CASE /\ req[w].expected = <<baseRead[w], 0>>
             /\ Goto(w, "create_branch") /\ UNCHANGED snap
    <2>1. OwnStep(w)
      BY <1>1, <1>4 DEF ReadState, OwnStep, TypeOK
    <2>2. pc'[w] = "create_branch" /\ result' = result
      BY <1>1, <1>4, GotoMoves DEF Phase
    <2>3. PhaseInv(w)'
      BY <1>1, <1>2, <1>4, <2>2 DEF PhaseInv, ReadState
    <2> QED
      BY <1>4, <2>1, <2>3, GotoKeeps DEF Phase
  <1>5. CASE Finish(w, "stale_state") /\ UNCHANGED snap
    <2>1. OwnStep(w)
      BY <1>1, <1>5 DEF ReadState, OwnStep, TypeOK
    <2> QED
      BY <1>1, <1>5, <2>1, FinishKeeps DEF Refusal, Success
  <1> QED
    BY <1>3, <1>4, <1>5 DEF ReadState

LEMMA CreateBranchKeeps ==
    ASSUME StoreInv, NEW w \in Worker, CreateBranch(w)
    PROVE  StoreInv'
  <1>1. /\ req[w] \in Request /\ Anchored(w) /\ pc[w] # "idle" /\ TypeOK
    BY DEF CreateBranch, StoreInv, PhaseInv
  <1>2. Anchored(w)'
    BY <1>1 DEF Anchored, CreateBranch
  <1>3. CASE /\ base # None
             /\ tries' = [tries EXCEPT ![w] = 0]
             /\ Goto(w, "await_branch")
             /\ UNCHANGED <<base, snap>>
    <2>1. OwnStep(w) /\ tries'[w] < VisibilityReads
      BY <1>1, <1>3 DEF CreateBranch, OwnStep, TypeOK, branchVars,
                        VisibilityReads
    <2>2. pc'[w] = "await_branch" /\ result' = result
      BY <1>1, <1>3, GotoMoves DEF Phase
    <2>3. PhaseInv(w)'
      BY <1>1, <1>2, <1>3, <2>1, <2>2 DEF PhaseInv, CreateBranch
    <2> QED
      BY <1>3, <2>1, <2>3, GotoKeeps DEF Phase
  <1>4. CASE /\ base = None
             /\ base' = baseRead[w]
             /\ snap' = [snap EXCEPT ![w] = 0]
             /\ Goto(w, "decide") \/ Finish(w, "transport")
             /\ UNCHANGED tries
    <2>1. /\ base' \in Base /\ base' # None
          /\ log' = log /\ log \in Seq(Log!Batch) /\ Len(log) = 0
      BY <1>1, <1>4, BoundsType, NoneIsFresh
         DEF CreateBranch, StoreInv, TypeOK, Log!TypeOK, Base
    <2>2. Grows /\ NodesAnchored'
      BY <1>4, <2>1 DEF Grows, NodesAnchored, StoreInv, CreateBranch
    <2>3. /\ pc' \in [Worker -> Phase]
          /\ result' \in [Worker -> Success \cup Refusal \cup
                                    {"transport", None}]
          /\ \/ pc'[w] = "decide" /\ result' = result
             \/ pc'[w] = "reply" /\ result'[w] = "transport"
          /\ \A u \in Worker \ {w} : pc'[u] = pc[u] /\ result'[u] = result[u]
      <3>1. CASE Goto(w, "decide")
        BY <1>1, <3>1, GotoMoves DEF Phase, TypeOK
      <3>2. CASE Finish(w, "transport")
        BY <1>1, <3>2, FinishMoves
      <3> QED
        BY <1>4, <3>1, <3>2
    <2>4. /\ snap' \in [Worker -> Nat] /\ snap'[w] = 0
          /\ \A u \in Worker \ {w} : snap'[u] = snap[u]
      BY <1>1, <1>4 DEF TypeOK
    <2>5. \A u \in Worker \ {w} : Rests(u)
      BY <1>4, <2>3, <2>4 DEF CreateBranch, Rests
    <2>6. TypeOK'
      BY <1>1, <1>4, <2>1, <2>3, <2>4 DEF TypeOK, Log!TypeOK, CreateBranch
    <2>7. PhaseInv(w)'
      BY <1>1, <1>2, <2>1, <2>3, <2>4 DEF PhaseInv, CreateBranch, Success
    <2> QED
      BY <2>1, <2>2, <2>5, <2>6, <2>7, OneWorkerMoves
  <1> QED
    BY <1>3, <1>4 DEF CreateBranch

LEMMA AwaitBranchKeeps ==
    ASSUME StoreInv, NEW w \in Worker, AwaitBranch(w)
    PROVE  StoreInv'
  <1>1. /\ req[w] \in Request /\ Anchored(w) /\ pc[w] # "idle" /\ TypeOK
        /\ base # None /\ tries[w] < VisibilityReads
    BY DEF AwaitBranch, StoreInv, PhaseInv
  <1>2. Anchored(w)'
    BY <1>1 DEF Anchored, AwaitBranch, branchVars
  <1>3. /\ tries' \in [Worker -> 0..VisibilityReads]
        /\ tries'[w] = tries[w] + 1
        /\ \A u \in Worker \ {w} : tries'[u] = tries[u]
    BY <1>1 DEF AwaitBranch, TypeOK, VisibilityReads
  <1>4. CASE (\E v \in 0..Len(log) : Seen(v) /\ snap' = [snap EXCEPT ![w] = v])
             /\ Goto(w, "decide")
    <2>1. /\ snap' \in [Worker -> Nat] /\ snap'[w] \in 0..Len(log)
          /\ \A u \in Worker \ {w} : snap'[u] = snap[u]
      BY <1>4, SeenMoves
    <2>2. OwnStep(w)
      BY <1>3, <2>1 DEF AwaitBranch, OwnStep
    <2>3. pc'[w] = "decide" /\ result' = result
      BY <1>1, <1>4, GotoMoves DEF Phase
    <2>4. PhaseInv(w)'
      BY <1>1, <1>2, <2>1, <2>3 DEF PhaseInv, AwaitBranch, branchVars
    <2> QED
      BY <1>4, <2>2, <2>4, GotoKeeps DEF Phase
  <1>5. CASE /\ tries[w] + 1 # VisibilityReads
             /\ Goto(w, "await_branch") /\ UNCHANGED snap
    <2>1. OwnStep(w)
      BY <1>1, <1>3, <1>5 DEF AwaitBranch, OwnStep, TypeOK
    <2>2. pc'[w] = "await_branch" /\ result' = result
      BY <1>1, <1>5, GotoMoves DEF Phase
    <2>3. tries'[w] < VisibilityReads
      BY <1>1, <1>3, <1>5 DEF TypeOK, VisibilityReads
    <2>4. PhaseInv(w)'
      BY <1>1, <1>2, <2>2, <2>3 DEF PhaseInv, AwaitBranch, branchVars
    <2> QED
      BY <1>5, <2>1, <2>4, GotoKeeps DEF Phase
  <1>6. CASE Finish(w, "transport") /\ UNCHANGED snap
    <2>1. OwnStep(w)
      BY <1>1, <1>3, <1>6 DEF AwaitBranch, OwnStep, TypeOK
    <2> QED
      BY <1>1, <1>6, <2>1, FinishKeeps DEF Success
  <1> QED
    BY <1>4, <1>5, <1>6 DEF AwaitBranch

LEMMA DecideKeeps ==
    ASSUME StoreInv, NEW w \in Worker, Decide(w)
    PROVE  StoreInv'
  <1>1. /\ req[w] \in Request /\ Anchored(w) /\ pc[w] # "idle" /\ TypeOK
        /\ base # None /\ snap[w] \in 0..Len(log)
    BY DEF Decide, StoreInv, PhaseInv
  <1>2. OwnStep(w)
    BY <1>1 DEF Decide, OwnStep, TypeOK
  <1>3. ASSUME NEW i \in 1..snap[w], Replayed(w, i),
               Finish(w, IF log[i].command = req[w].command THEN "replayed"
                         ELSE "idempotency_conflict")
        PROVE  StoreInv'
    <2>1. i \in 1..Len(log)
      BY <1>1 DEF TypeOK, Log!TypeOK
    <2>2. CASE log[i].command = req[w].command
      <3>1. Recorded(w)
        BY <1>3, <2>1, <2>2 DEF Recorded, Replayed, Log!UsedAt, Log!LogicalOf
      <3> QED
        BY <1>1, <1>2, <1>3, <2>2, <3>1, FinishKeeps DEF Success
    <2>3. CASE log[i].command # req[w].command
      BY <1>1, <1>2, <1>3, <2>3, FinishKeeps DEF Refusal, Success
    <2> QED
      BY <2>2, <2>3
  <1>4. CASE /\ \A i \in 1..snap[w] : ~Replayed(w, i)
             /\ req[w].expected = <<base, snap[w]>>
             /\ Accepts(Log!View(log, req[w].project, snap[w]), req[w].command)
             /\ Goto(w, "commit")
    <2>1. Allowed(w)
      BY <1>4 DEF Allowed, Replayed
    <2>2. Allowed(w)' /\ Anchored(w)'
      BY <1>1, <2>1 DEF Allowed, Anchored, Decide, branchVars
    <2>3. pc'[w] = "commit" /\ result' = result
      BY <1>1, <1>4, GotoMoves DEF Phase
    <2>4. PhaseInv(w)'
      BY <1>1, <2>2, <2>3 DEF PhaseInv, Decide, branchVars
    <2> QED
      BY <1>2, <1>4, <2>4, GotoKeeps DEF Phase
  <1>5. CASE Finish(w, "stale_state") \/ Finish(w, "rejected")
    BY <1>1, <1>2, <1>5, FinishKeeps DEF Refusal, Success
  <1> QED
    BY <1>3, <1>4, <1>5 DEF Decide

LEMMA CommitFilesKeeps ==
    ASSUME StoreInv, NEW w \in Worker, CommitFiles(w)
    PROVE  StoreInv'
  <1>1. /\ req[w] \in Request /\ Anchored(w) /\ pc[w] # "idle" /\ TypeOK
        /\ base # None /\ snap[w] \in 0..Len(log) /\ Allowed(w)
    BY DEF CommitFiles, StoreInv, PhaseInv
  <1>2. OwnStep(w)
    BY <1>1 DEF CommitFiles, OwnStep, TypeOK
  <1>3. CASE Goto(w, "patch")
    <2>1. Allowed(w)' /\ Anchored(w)'
      BY <1>1 DEF Allowed, Anchored, CommitFiles, branchVars
    <2>2. pc'[w] = "patch" /\ result' = result
      BY <1>1, <1>3, GotoMoves DEF Phase
    <2>3. PhaseInv(w)'
      BY <1>1, <2>1, <2>2 DEF PhaseInv, CommitFiles, branchVars
    <2> QED
      BY <1>2, <1>3, <2>3, GotoKeeps DEF Phase
  <1>4. CASE Finish(w, "stale_state")
    BY <1>1, <1>2, <1>4, FinishKeeps DEF Refusal, Success
  <1> QED
    BY <1>3, <1>4 DEF CommitFiles

\* The batch that w's commit holds.
Stored(w) == [project |-> req[w].project, key |-> req[w].key,
              command |-> req[w].command, previous |-> <<base, snap[w]>>]

LEMMA StoredType ==
    ASSUME StoreInv, NEW w \in Worker, pc[w] = "patch"
    PROVE  /\ Stored(w) \in Log!Batch
           /\ Stored(w).command = req[w].command
           /\ Stored(w).project = req[w].project
           /\ Log!LogicalOf(Stored(w)) = Log!LogicalOf(req[w])
  <1>1. req[w] \in Request /\ base \in Base /\ snap[w] \in Nat
    BY DEF StoreInv, PhaseInv, TypeOK, Log!TypeOK
  <1> QED
    BY <1>1 DEF Stored, Log!Batch, Log!Commit, Request, Log!LogicalOf

\* The update that wins: the batch goes on the head it was decided on.
LEMMA PatchAppends ==
    ASSUME StoreInv, NEW w \in Worker, pc[w] = "patch",
           log' = Append(log, Stored(w)), base' = base, tags' = tags
    PROVE  /\ Grows /\ NodesAnchored'
           /\ log' \in Seq(Log!Batch) /\ Len(log') = Len(log) + 1
           /\ log'[Len(log')] = Stored(w)
  <1>1. Stored(w) \in Log!Batch /\ log \in Seq(Log!Batch)
    BY StoredType DEF StoreInv, TypeOK, Log!TypeOK
  <1>2. /\ log' \in Seq(Log!Batch) /\ Len(log') = Len(log) + 1
        /\ Len(log) \in Nat
        /\ log'[Len(log) + 1] = Stored(w)
        /\ \A i \in 1..Len(log) : log'[i] = log[i]
    <2> HIDE DEF Stored
    <2> QED
      BY <1>1
  <1>3. NodesAnchored'
    <2> SUFFICES ASSUME NEW i \in 1..Len(log'), NodeOf[log'[i].command] # None
                 PROVE  <<log'[i].project, NodeOf[log'[i].command]>> \in tags
      BY DEF NodesAnchored
    <2>0. i \in 1..Len(log) \/ i = Len(log) + 1
      BY <1>2
    <2>1. CASE i \in 1..Len(log)
      BY <1>2, <2>1 DEF StoreInv, NodesAnchored
    <2>2. CASE i = Len(log) + 1
      <3>1. Anchored(w)
        BY DEF StoreInv, PhaseInv
      <3>2. log'[i].command = req[w].command /\ log'[i].project = req[w].project
        BY <1>2, <2>2, StoredType
      <3> QED
        BY <3>1, <3>2 DEF Anchored
    <2> QED
      BY <2>0, <2>1, <2>2
  <1> QED
    BY <1>2, <1>3 DEF Grows

LEMMA PatchRefKeeps ==
    ASSUME StoreInv, NEW w \in Worker, PatchRef(w)
    PROVE  StoreInv'
  <1>1. /\ req[w] \in Request /\ pc[w] = "patch" /\ TypeOK /\ base # None
    BY DEF PatchRef, StoreInv, PhaseInv
  <1>2. CASE log' = log /\ Finish(w, "stale_state")
    <2>1. OwnStep(w)
      BY <1>1, <1>2 DEF PatchRef, OwnStep, TypeOK, branchVars
    <2> QED
      BY <1>1, <1>2, <2>1, FinishKeeps DEF Refusal, Success
  <1>3. CASE /\ log' = Append(log, Stored(w))
             /\ Finish(w, "applied") \/ Finish(w, "transport")
    <2>1. /\ Grows /\ NodesAnchored'
          /\ log' \in Seq(Log!Batch) /\ Len(log') = Len(log) + 1
          /\ log'[Len(log')] = Stored(w)
      BY <1>1, <1>3, PatchAppends DEF PatchRef
    <2>2. /\ pc' \in [Worker -> Phase]
          /\ result' \in [Worker -> Success \cup Refusal \cup
                                    {"transport", None}]
          /\ pc'[w] = "reply"
          /\ \A u \in Worker \ {w} : pc'[u] = pc[u] /\ result'[u] = result[u]
      <3>1. CASE Finish(w, "applied")
        BY <1>1, <3>1, FinishMoves DEF Success
      <3>2. CASE Finish(w, "transport")
        BY <1>1, <3>2, FinishMoves
      <3> QED
        BY <1>3, <3>1, <3>2
    <2>3. \A u \in Worker \ {w} : Rests(u)
      BY <2>2 DEF PatchRef, Rests
    <2>4. TypeOK'
      BY <1>1, <2>1, <2>2 DEF TypeOK, Log!TypeOK, PatchRef
    <2>5. Recorded(w)'
      <3>1. Len(log') \in 1..Len(log')
        BY <1>1, <2>1 DEF TypeOK, Log!TypeOK
      <3>2. Log!LogicalOf(log'[Len(log')]) = Log!LogicalOf(req'[w])
        BY <1>1, <2>1, StoredType DEF PatchRef
      <3> QED
        BY <3>1, <3>2 DEF Recorded
    <2>6. PhaseInv(w)'
      BY <1>1, <2>2, <2>5 DEF PhaseInv, PatchRef
    <2>7. base' # None
      BY <1>1 DEF PatchRef
    <2> QED
      BY <2>1, <2>3, <2>4, <2>6, <2>7, OneWorkerMoves
  <1> QED
    BY <1>2, <1>3 DEF PatchRef, Stored

LEMMA TransportFailsKeeps ==
    ASSUME StoreInv, NEW w \in Worker, TransportFails(w)
    PROVE  StoreInv'
  <1>1. OwnStep(w)
    BY DEF TransportFails, OwnStep, StoreInv, TypeOK
  <1>2. pc[w] # "idle"
    BY DEF TransportFails, Calling
  <1> QED
    BY <1>1, <1>2, FinishKeeps DEF TransportFails, Success

\* A worker that keeps nothing relies on nothing.
LEMMA ForgetKeeps ==
    ASSUME StoreInv, NEW w \in Worker, Forget(w),
           UNCHANGED <<defaultHead, branchVars>>,
           answered' \subseteq Log!Answered
    PROVE  StoreInv'
  <1>1. Grows /\ NodesAnchored' /\ (base' = None => Len(log') = 0)
    BY StorageKept
  <1>2. \A u \in Worker \ {w} : Rests(u)
    BY DEF Forget, Rests, StoreInv, TypeOK
  <1>3. 0 \in Base /\ 0 \in 0..VisibilityReads
    BY BoundsType DEF Base, VisibilityReads
  <1>4. TypeOK'
    BY <1>3 DEF Forget, StoreInv, TypeOK, Log!TypeOK, branchVars, Phase
  <1>5. PhaseInv(w)'
    <2>1. pc'[w] = "idle"
      BY DEF Forget, StoreInv, TypeOK
    <2> QED
      BY <2>1 DEF PhaseInv
  <1> QED
    BY <1>1, <1>2, <1>4, <1>5, OneWorkerMoves

\* A caller is told of success only for a recorded batch.
LEMMA SuccessIsRecorded ==
    ASSUME StoreInv, NEW w \in Worker, pc[w] = "reply",
           result[w] \in Success
    PROVE  \E i \in 1..Len(log) :
             Log!LogicalOf(log[i]) = Log!LogicalOf(req[w])
  BY DEF StoreInv, PhaseInv, Recorded

LEMMA ReplyKeeps ==
    ASSUME StoreInv, NEW w \in Worker, Reply(w)
    PROVE  StoreInv'
  <1>1. Log!LogicalOf(req[w]) \in Log!Answered
    BY DEF Reply, StoreInv, PhaseInv, Request, Log!Answered, Log!LogicalOf
  <1>2. answered' \subseteq Log!Answered
    BY <1>1 DEF Reply, StoreInv, TypeOK, Log!TypeOK
  <1> QED
    BY <1>2, ForgetKeeps DEF Reply

LEMMA CrashKeeps ==
    ASSUME StoreInv, NEW w \in Worker, Crash(w)
    PROVE  StoreInv'
  <1>1. answered' \subseteq Log!Answered
    BY DEF Crash, StoreInv, TypeOK, Log!TypeOK
  <1> QED
    BY <1>1, ForgetKeeps DEF Crash

-----------------------------------------------------------------------------
(* The invariant *)

LEMMA StoreInvInit == Init => StoreInv
  <1> SUFFICES ASSUME Init PROVE StoreInv
    OBVIOUS
  <1>1. TypeOK
    BY BoundsType DEF Init, TypeOK, Log!TypeOK, Base, Phase, VisibilityReads
  <1>2. \A w \in Worker : PhaseInv(w)
    BY DEF Init, PhaseInv
  <1> QED
    BY <1>1, <1>2 DEF Init, StoreInv, NodesAnchored

LEMMA StoreInvInductive == StoreInv /\ [Next]_vars => StoreInv'
  <1> SUFFICES ASSUME StoreInv, [Next]_vars PROVE StoreInv'
    OBVIOUS
  <1>1. CASE PushDefault
    BY <1>1, PushDefaultKeeps
  <1>2. ASSUME NEW w \in Worker, NEW p \in Project, NEW k \in Key,
               NEW c \in Command, NEW head \in KnownHeads,
               Begin(w, [project |-> p, key |-> k, command |-> c,
                         expected |-> head])
        PROVE  StoreInv'
    BY <1>2, BeginKeeps
  <1>3. ASSUME NEW w \in Worker, Step(w) PROVE StoreInv'
    BY <1>3, AnchorKeeps, ReadBaseKeeps, ReadStateKeeps, CreateBranchKeeps,
       AwaitBranchKeeps, DecideKeeps, CommitFilesKeeps, PatchRefKeeps,
       TransportFailsKeeps, ReplyKeeps
       DEF Step
  <1>4. ASSUME NEW w \in Worker, Crash(w) PROVE StoreInv'
    BY <1>4, CrashKeeps
  <1>5. CASE UNCHANGED vars
    <2>1. Grows /\ NodesAnchored' /\ (base' = None => Len(log') = 0)
      BY <1>5, StorageKept DEF vars
    <2>2. \A u \in Worker : Rests(u)
      BY <1>5 DEF vars, workerVars, Rests
    <2>3. TypeOK'
      BY <1>5 DEF vars, branchVars, workerVars, StoreInv, TypeOK, Log!TypeOK
    <2> QED
      BY <2>1, <2>2, <2>3, OthersKept DEF StoreInv
  <1> QED
    BY <1>1, <1>2, <1>3, <1>4, <1>5 DEF Next

-----------------------------------------------------------------------------
(* Every step of the write path is a step of the log, or none *)

LEMMA StorageStutters ==
    ASSUME UNCHANGED branchVars, answered' = answered
    PROVE  UNCHANGED Log!vars
  BY DEF branchVars, Log!vars

LEMMA CreateBranchOpens ==
    ASSUME StoreInv, NEW w \in Worker, CreateBranch(w)
    PROVE  [Log!Next]_(Log!vars)
  <1>1. CASE base = None /\ base' = baseRead[w]
    <2>1. baseRead[w] \in Base
      BY DEF StoreInv, TypeOK
    <2>2. Log!Open(baseRead[w])
      BY <1>1 DEF CreateBranch, Log!Open
    <2> QED
      BY <2>1, <2>2 DEF Log!Next
  <1>2. CASE base' = base
    BY <1>2 DEF CreateBranch, Log!vars
  <1> QED
    BY <1>1, <1>2 DEF CreateBranch

LEMMA PatchRefRecords ==
    ASSUME StoreInv, NEW w \in Worker, PatchRef(w)
    PROVE  [Log!Next]_(Log!vars)
  <1>1. CASE log' = log
    BY <1>1 DEF PatchRef, Log!vars
  <1>2. CASE Len(log) = snap[w] /\ log' = Append(log, Stored(w))
    <2>1. /\ req[w] \in Request /\ Allowed(w) /\ base # None
      BY DEF PatchRef, StoreInv, PhaseInv
    <2>2. Log!Record(req[w].project, req[w].key, req[w].command)
      BY <1>2, <2>1 DEF PatchRef, Log!Record, Allowed, Stored
    <2>3. /\ req[w].project \in Project /\ req[w].key \in Key
          /\ req[w].command \in Command
      BY <2>1 DEF Request
    <2> QED
      BY <2>2, <2>3 DEF Log!Next
  <1> QED
    BY <1>1, <1>2 DEF PatchRef, Stored

LEMMA ReplyAnswers ==
    ASSUME StoreInv, NEW w \in Worker, Reply(w)
    PROVE  [Log!Next]_(Log!vars)
  <1>1. CASE result[w] \in Success
    <2>1. PICK i \in 1..Len(log) :
            Log!LogicalOf(log[i]) = Log!LogicalOf(req[w])
      BY <1>1, SuccessIsRecorded DEF Reply
    <2>2. Log!Answer(i)
      BY <1>1, <2>1 DEF Reply, Log!Answer, branchVars
    <2> QED
      BY <2>2 DEF Log!Next
  <1>2. CASE result[w] \notin Success
    BY <1>2, StorageStutters DEF Reply
  <1> QED
    BY <1>1, <1>2

LEMMA StepsRefine ==
    ASSUME StoreInv, [Next]_vars
    PROVE  [Log!Next]_(Log!vars)
  <1>1. ASSUME NEW w \in Worker, Anchor(w) PROVE UNCHANGED Log!vars
    BY <1>1 DEF Anchor, Log!vars
  <1>2. ASSUME NEW w \in Worker,
               ReadBase(w) \/ ReadState(w) \/ AwaitBranch(w) \/ Decide(w)
                 \/ CommitFiles(w) \/ TransportFails(w) \/ Crash(w)
        PROVE  UNCHANGED Log!vars
    BY <1>2, StorageStutters DEF ReadBase, ReadState, AwaitBranch, Decide,
                                 CommitFiles, TransportFails, Crash
  <1>3. ASSUME NEW w \in Worker, NEW r, Begin(w, r)
        PROVE  UNCHANGED Log!vars
    BY <1>3, StorageStutters DEF Begin
  <1>4. CASE PushDefault
    BY <1>4, StorageStutters DEF PushDefault
  <1>5. CASE UNCHANGED vars
    BY <1>5, StorageStutters DEF vars
  <1> QED
    BY <1>1, <1>2, <1>3, <1>4, <1>5, CreateBranchOpens, PatchRefRecords,
       ReplyAnswers
       DEF Next, Step

-----------------------------------------------------------------------------
(* Theorems *)

\* What every phase of every attempt may rely on, at every moment.
THEOREM StoreInvariant == Spec => []StoreInv
  BY StoreInvInit, StoreInvInductive, PTL DEF Spec

\* The variables of the write path keep their shapes.
THEOREM StoreTypes == Spec => []TypeOK
  <1>1. StoreInv => TypeOK
    BY DEF StoreInv
  <1> QED
    BY <1>1, StoreInvariant, PTL

\* However attempts interleave, crash, lose responses or read old heads, the
\* state branch is an idempotent, append-only log of accepted batches.
THEOREM StoreImplementsLog == Spec => ImplementsEventLog
  <1>1. Init => Log!Init
    BY DEF Init, Log!Init
  <1>2. StoreInv /\ [Next]_vars => [Log!Next]_(Log!vars)
    BY StepsRefine
  <1> QED
    BY <1>1, <1>2, StoreInvariant, PTL DEF Spec, ImplementsEventLog, Log!Spec

\* A registered Node always has its anchor.
THEOREM RegisteredNodesAreAnchored == Spec => []NodesAnchored
  <1>1. StoreInv => NodesAnchored
    BY DEF StoreInv
  <1> QED
    BY <1>1, StoreInvariant, PTL

\* Only the steps named here touch the branch.
LEMMA BranchChanges ==
    ASSUME [Next]_vars
    PROVE  /\ log' # log => \E w \in Worker : PatchRef(w)
           /\ base' # base => \E w \in Worker : CreateBranch(w)
  <1>1. ASSUME NEW w \in Worker, Anchor(w) PROVE log' = log /\ base' = base
    BY <1>1 DEF Anchor
  <1>2. ASSUME NEW w \in Worker,
               ReadBase(w) \/ ReadState(w) \/ AwaitBranch(w) \/ Decide(w)
                 \/ CommitFiles(w) \/ TransportFails(w) \/ Crash(w) \/ Reply(w)
        PROVE  log' = log /\ base' = base
    BY <1>2 DEF ReadBase, ReadState, AwaitBranch, Decide, CommitFiles,
                TransportFails, Crash, Reply, branchVars
  <1>3. ASSUME NEW w \in Worker, NEW r, Begin(w, r)
        PROVE  log' = log /\ base' = base
    BY <1>3 DEF Begin, branchVars
  <1>4. CASE PushDefault
    BY <1>4 DEF PushDefault, branchVars
  <1>5. CASE UNCHANGED vars
    BY <1>5 DEF vars, branchVars
  <1>6. ASSUME NEW w \in Worker, PatchRef(w) PROVE base' = base
    BY <1>6 DEF PatchRef
  <1>7. ASSUME NEW w \in Worker, CreateBranch(w) PROVE log' = log
    BY <1>7 DEF CreateBranch
  <1> QED
    BY <1>1, <1>2, <1>3, <1>4, <1>5, <1>6, <1>7 DEF Next, Step

\* Whoever creates the branch has confirmed the head it is created at.
LEMMA BootstrapStep ==
    ASSUME StoreInv, [Next]_vars, base = None, base' # None
    PROVE  \E w \in Worker : pc[w] = "create_branch"
                             /\ req[w].expected = <<base', 0>>
  <1>1. PICK w \in Worker : CreateBranch(w)
    BY BranchChanges
  <1>2. pc[w] = "create_branch" /\ base' = baseRead[w]
    BY <1>1 DEF CreateBranch
  <1>3. req[w].expected = <<baseRead[w], 0>>
    BY <1>2 DEF StoreInv, PhaseInv
  <1> QED
    BY <1>2, <1>3

\* Whoever moves the branch has confirmed the head it moves from.
LEMMA HeadStep ==
    ASSUME StoreInv, [Next]_vars, log' # log
    PROVE  \E w \in Worker : /\ pc[w] = "patch"
                             /\ req[w].expected = <<base, Len(log)>>
  <1>1. PICK w \in Worker : PatchRef(w)
    BY BranchChanges
  <1>2. pc[w] = "patch" /\ Len(log) = snap[w]
    BY <1>1 DEF PatchRef
  <1>3. req[w].expected = <<base, snap[w]>>
    BY <1>2 DEF StoreInv, PhaseInv, Allowed
  <1> QED
    BY <1>2, <1>3

\* The state branch is created at the head that its creator confirmed, and a
\* batch goes on exactly the head that its caller confirmed.
THEOREM BatchesGoOnConfirmedHead == Spec => ConfirmedHead
  <1> DEFINE Confirmed ==
        /\ base = None /\ base' # None =>
             \E w \in Worker : pc[w] = "create_branch"
                               /\ req[w].expected = <<base', 0>>
        /\ log' # log =>
             \E w \in Worker : /\ pc[w] = "patch"
                               /\ req[w].expected = <<base, Len(log)>>
  <1>1. StoreInv /\ [Next]_vars => [Confirmed]_vars
    BY BootstrapStep, HeadStep
  <1> QED
    BY <1>1, StoreInvariant, PTL DEF Spec, ConfirmedHead

-----------------------------------------------------------------------------
(* A refusal is sound for what was read: an attempt that ends with one has *)
(* looked through its snapshot for its key, or has never read the branch.  *)

NotInSnapshot(w) ==
    \A i \in 1..snap[w] : Log!LogicalOf(log[i]) # Log!LogicalOf(req[w])

RefusalInv(w) ==
    /\ snap[w] \in 0..Len(log)
    /\ pc[w] \in {"idle", "anchor", "read_base", "read_state"} => snap[w] = 0
    /\ pc[w] # "reply" => result[w] = None
    /\ result[w] \in Refusal => NotInSnapshot(w)

SnapshotInv == AppliedOnce /\ \A w \in Worker : RefusalInv(w)

\* The log only grows, by one batch with a fresh key.
LEMMA LogOfStep ==
    ASSUME StoreInv, SnapshotInv, [Next]_vars
    PROVE  /\ Len(log) \in Nat /\ Len(log') \in Nat /\ Len(log) <= Len(log')
           /\ \A i \in 1..Len(log) : log'[i] = log[i]
           /\ AppliedOnce'
  <1>0. Len(log) \in Nat /\ log \in Seq(Log!Batch)
    BY DEF StoreInv, TypeOK, Log!TypeOK
  <1>1. CASE log' = log
    BY <1>0, <1>1 DEF SnapshotInv, AppliedOnce, Log!AppliedOnce
  <1>2. CASE log' # log
    <2>1. PICK w \in Worker : PatchRef(w)
      BY <1>2, BranchChanges
    <2>2. Len(log) = snap[w] /\ log' = Append(log, Stored(w))
      BY <1>2, <2>1 DEF PatchRef, Stored
    <2>3. \A i \in 1..Len(log) :
             ~(log[i].project = req[w].project /\ log[i].key = req[w].key)
      BY <2>1, <2>2 DEF PatchRef, StoreInv, PhaseInv, Allowed, Log!UsedAt
    <2>4. Stored(w).project = req[w].project /\ Stored(w).key = req[w].key
      BY DEF Stored
    <2>5. /\ Len(log') = Len(log) + 1 /\ log'[Len(log) + 1] = Stored(w)
          /\ \A i \in 1..Len(log) : log'[i] = log[i]
      BY <1>0, <2>2
    <2>6. AppliedOnce'
      BY <1>0, <2>3, <2>4, <2>5
         DEF SnapshotInv, AppliedOnce, Log!AppliedOnce
    <2> QED
      BY <1>0, <2>5, <2>6
  <1> QED
    BY <1>1, <1>2

\* An attempt that does nothing keeps its snapshot.
LEMMA RestKeepsSnapshot ==
    ASSUME StoreInv, SnapshotInv, [Next]_vars, NEW u \in Worker, Rests(u)
    PROVE  RefusalInv(u)'
  <1>1. RefusalInv(u)
    BY DEF SnapshotInv
  <1>2. /\ Len(log) \in Nat /\ Len(log') \in Nat /\ Len(log) <= Len(log')
        /\ \A i \in 1..Len(log) : log'[i] = log[i]
    BY LogOfStep
  <1>3. snap'[u] \in 0..Len(log')
    BY <1>1, <1>2 DEF RefusalInv, Rests
  <1>4. NotInSnapshot(u) => NotInSnapshot(u)'
    BY <1>1, <1>2 DEF RefusalInv, NotInSnapshot, Rests, Log!LogicalOf
  <1> QED
    BY <1>1, <1>3, <1>4 DEF RefusalInv, Rests

\* An attempt that forgets keeps no snapshot.
LEMMA ForgetKeepsSnapshot ==
    ASSUME StoreInv, NEW w \in Worker, Forget(w), Len(log') \in Nat
    PROVE  RefusalInv(w)'
  BY NoneIsNoRefusal DEF StoreInv, TypeOK, Forget, RefusalInv

\* An attempt that goes on to another phase.
LEMMA GotoKeepsSnapshot ==
    ASSUME StoreInv, NEW w \in Worker, NEW phase, Goto(w, phase),
           pc[w] # "reply", phase # "reply",
           snap'[w] \in 0..Len(log'),
           phase \in {"idle", "anchor", "read_base", "read_state"}
             => snap'[w] = 0,
           RefusalInv(w)
    PROVE  RefusalInv(w)'
  <1>1. result'[w] = None
    BY DEF Goto, RefusalInv
  <1>2. pc'[w] = phase
    BY DEF Goto, StoreInv, TypeOK
  <1> QED
    BY <1>1, <1>2, NoneIsNoRefusal DEF RefusalInv

\* An attempt that ends, refused only if its snapshot lacks the request.
LEMMA FinishKeepsSnapshot ==
    ASSUME StoreInv, NEW w \in Worker, NEW x, Finish(w, x),
           snap'[w] \in 0..Len(log'), x \in Refusal => NotInSnapshot(w)'
    PROVE  RefusalInv(w)'
  <1>1. pc'[w] = "reply" /\ result'[w] = x
    BY DEF Finish, StoreInv, TypeOK
  <1> QED
    BY <1>1 DEF RefusalInv

\* What is allowed is not in the snapshot.
LEMMA AllowedIsNew ==
    ASSUME NEW w, Allowed(w)
    PROVE  NotInSnapshot(w)
  <1>1. \A b, r : Log!LogicalOf(b) = Log!LogicalOf(r)
                  => b.project = r.project /\ b.key = r.key
    BY DEF Log!LogicalOf
  <1> QED
    BY <1>1 DEF Allowed, NotInSnapshot, Log!UsedAt

LEMMA DecideKeepsSnapshot ==
    ASSUME StoreInv, SnapshotInv, NEW w \in Worker, Decide(w)
    PROVE  RefusalInv(w)'
  <1>1. /\ pc[w] = "decide" /\ snap[w] \in 0..Len(log)
        /\ UNCHANGED <<log, req, snap>> /\ RefusalInv(w)
    BY DEF Decide, StoreInv, PhaseInv, SnapshotInv, branchVars
  <1>2. NotInSnapshot(w) => NotInSnapshot(w)'
    BY <1>1 DEF NotInSnapshot
  <1>3. \A b, r : Log!LogicalOf(b) = Log!LogicalOf(r)
                  => /\ b.project = r.project /\ b.key = r.key
                     /\ b.command = r.command
    BY DEF Log!LogicalOf
  <1>4. ASSUME NEW i \in 1..snap[w], Replayed(w, i),
               Finish(w, IF log[i].command = req[w].command THEN "replayed"
                         ELSE "idempotency_conflict")
        PROVE  RefusalInv(w)'
    <2>1. CASE log[i].command = req[w].command
      BY <1>1, <1>4, <2>1, FinishKeepsSnapshot DEF Refusal
    <2>2. CASE log[i].command # req[w].command
      <3>1. \A j \in 1..snap[w] :
               log[j].project = req[w].project /\ log[j].key = req[w].key
               => j = i
        BY <1>1, <1>4 DEF Replayed, Log!UsedAt, SnapshotInv, AppliedOnce,
                          Log!AppliedOnce
      <3>2. NotInSnapshot(w)
        BY <1>3, <2>2, <3>1 DEF NotInSnapshot
      <3> QED
        BY <1>1, <1>2, <1>4, <2>2, <3>2, FinishKeepsSnapshot
    <2> QED
      BY <2>1, <2>2
  <1>5. CASE \A i \in 1..snap[w] : ~Replayed(w, i)
    <2>1. NotInSnapshot(w)'
      BY <1>2, <1>3, <1>5 DEF NotInSnapshot, Replayed, Log!UsedAt
    <2>2. CASE \E x : Finish(w, x)
      BY <1>1, <2>1, <2>2, FinishKeepsSnapshot
    <2>3. CASE Goto(w, "commit")
      BY <1>1, <2>3, GotoKeepsSnapshot
    <2> QED
      BY <1>4, <1>5, <2>2, <2>3 DEF Decide
  <1> QED
    BY <1>4, <1>5 DEF Decide

\* A read of the branch fixes the snapshot.
LEMMA ReadKeepsSnapshot ==
    ASSUME StoreInv, SnapshotInv, NEW w \in Worker,
           ReadState(w) \/ AwaitBranch(w)
    PROVE  RefusalInv(w)'
  <1>1. RefusalInv(w) /\ UNCHANGED log /\ pc[w] # "reply" /\ Len(log) \in Nat
    BY DEF ReadState, AwaitBranch, SnapshotInv, branchVars, StoreInv, TypeOK,
           Log!TypeOK
  <1>2. CASE /\ \E v \in 0..Len(log) : Seen(v) /\ snap' = [snap EXCEPT ![w] = v]
             /\ Goto(w, "decide")
    <2>1. snap'[w] \in 0..Len(log')
      BY <1>1, <1>2 DEF StoreInv, TypeOK
    <2> QED
      BY <1>1, <1>2, <2>1, GotoKeepsSnapshot
  <1>3. CASE UNCHANGED snap /\ (Goto(w, "create_branch")
                                \/ Goto(w, "await_branch"))
    BY <1>1, <1>3, GotoKeepsSnapshot DEF RefusalInv
  <1>4. CASE UNCHANGED snap /\ pc[w] = "read_state" /\ Finish(w, "stale_state")
    <2>1. snap'[w] = 0
      BY <1>1, <1>4 DEF RefusalInv
    <2>2. NotInSnapshot(w)'
      BY <2>1 DEF NotInSnapshot
    <2> QED
      BY <1>1, <1>4, <2>1, <2>2, FinishKeepsSnapshot
  <1>5. CASE UNCHANGED snap /\ Finish(w, "transport")
    BY <1>1, <1>5, FinishKeepsSnapshot DEF Refusal, RefusalInv
  <1> QED
    BY <1>2, <1>3, <1>4, <1>5 DEF ReadState, AwaitBranch

LEMMA OtherStepsKeepSnapshot ==
    ASSUME StoreInv, SnapshotInv, [Next]_vars, NEW w \in Worker,
           \/ Anchor(w) \/ ReadBase(w) \/ CreateBranch(w) \/ CommitFiles(w)
           \/ PatchRef(w) \/ TransportFails(w)
    PROVE  RefusalInv(w)'
  <1>1. RefusalInv(w)
    BY DEF SnapshotInv
  <1>2. /\ Len(log) \in Nat /\ Len(log') \in Nat /\ Len(log) <= Len(log')
        /\ \A i \in 1..Len(log) : log'[i] = log[i]
    BY LogOfStep
  <1>3. snap[w] \in 0..Len(log')
    BY <1>1, <1>2 DEF RefusalInv
  <1>4. NotInSnapshot(w) /\ UNCHANGED <<req, snap>> => NotInSnapshot(w)'
    BY <1>1, <1>2 DEF RefusalInv, NotInSnapshot, Log!LogicalOf
  <1>5. CASE Anchor(w)
    BY <1>1, <1>3, <1>5, GotoKeepsSnapshot DEF Anchor, RefusalInv
  <1>6. CASE ReadBase(w)
    BY <1>1, <1>3, <1>6, GotoKeepsSnapshot DEF ReadBase, RefusalInv
  <1>7. CASE CreateBranch(w)
    <2>1. snap'[w] \in 0..Len(log')
      BY <1>2, <1>3, <1>7 DEF CreateBranch, StoreInv, TypeOK
    <2>2. pc[w] # "reply"
      BY <1>7 DEF CreateBranch
    <2>3. CASE Goto(w, "decide") \/ Goto(w, "await_branch")
      BY <1>1, <2>1, <2>2, <2>3, GotoKeepsSnapshot
    <2>4. CASE Finish(w, "transport")
      BY <2>1, <2>4, FinishKeepsSnapshot DEF Refusal
    <2> QED
      BY <1>7, <2>3, <2>4 DEF CreateBranch
  <1>8. CASE CommitFiles(w) \/ PatchRef(w)
    <2>1. UNCHANGED <<req, snap>> /\ pc[w] \in {"commit", "patch"}
      BY <1>8 DEF CommitFiles, PatchRef
    <2>2. NotInSnapshot(w)'
      BY <1>4, <2>1, AllowedIsNew DEF StoreInv, PhaseInv
    <2>3. CASE Goto(w, "patch")
      BY <1>1, <1>3, <2>1, <2>3, GotoKeepsSnapshot
    <2>4. CASE \E x : Finish(w, x)
      BY <1>3, <2>1, <2>2, <2>4, FinishKeepsSnapshot
    <2> QED
      BY <1>8, <2>3, <2>4 DEF CommitFiles, PatchRef
  <1>9. CASE TransportFails(w)
    BY <1>3, <1>9, FinishKeepsSnapshot DEF TransportFails, Refusal
  <1> QED
    BY <1>5, <1>6, <1>7, <1>8, <1>9

LEMMA BeginKeepsSnapshot ==
    ASSUME StoreInv, SnapshotInv, NEW w \in Worker, NEW r, Begin(w, r)
    PROVE  RefusalInv(w)'
  <1>1. RefusalInv(w) /\ pc[w] = "idle" /\ UNCHANGED <<log, snap, result>>
    BY DEF SnapshotInv, Begin, branchVars
  <1>2. pc'[w] # "reply"
    BY DEF Begin, StoreInv, TypeOK
  <1> QED
    BY <1>1, <1>2, NoneIsNoRefusal DEF RefusalInv

\* A step is that of one worker.
LEMMA OneActs ==
    ASSUME StoreInv, NEW w \in Worker, Step(w) \/ Crash(w)
    PROVE  \A u \in Worker \ {w} : Rests(u)
  <1>1. CASE Anchor(w) \/ ReadBase(w) \/ ReadState(w)
    BY <1>1 DEF Anchor, ReadBase, ReadState, Goto, Finish, Rests, StoreInv,
                TypeOK
  <1>2. CASE CreateBranch(w) \/ AwaitBranch(w) \/ Decide(w)
    BY <1>2 DEF CreateBranch, AwaitBranch, Decide, Goto, Finish, Rests,
                StoreInv, TypeOK
  <1>3. CASE CommitFiles(w) \/ PatchRef(w) \/ TransportFails(w)
    BY <1>3 DEF CommitFiles, PatchRef, TransportFails, Goto, Finish, Rests,
                StoreInv, TypeOK
  <1>4. CASE Reply(w) \/ Crash(w)
    BY <1>4 DEF Reply, Crash, Forget, Rests, StoreInv, TypeOK
  <1> QED
    BY <1>1, <1>2, <1>3, <1>4 DEF Step

LEMMA SnapshotInvStep == StoreInv /\ SnapshotInv /\ [Next]_vars => SnapshotInv'
  <1> SUFFICES ASSUME StoreInv, SnapshotInv, [Next]_vars PROVE SnapshotInv'
    OBVIOUS
  <1>1. AppliedOnce' /\ Len(log') \in Nat
    BY LogOfStep
  <1>2. ASSUME NEW w \in Worker, \A u \in Worker \ {w} : Rests(u),
               RefusalInv(w)'
        PROVE  SnapshotInv'
    BY <1>1, <1>2, RestKeepsSnapshot DEF SnapshotInv
  <1>3. CASE PushDefault \/ UNCHANGED vars
    <2>1. \A u \in Worker : Rests(u)
      BY <1>3 DEF PushDefault, vars, workerVars, Rests
    <2> QED
      BY <1>1, <2>1, RestKeepsSnapshot DEF SnapshotInv
  <1>4. ASSUME NEW w \in Worker, NEW r, Begin(w, r) PROVE SnapshotInv'
    <2>1. \A u \in Worker \ {w} : Rests(u)
      BY <1>4 DEF Begin, Rests, StoreInv, TypeOK
    <2> QED
      BY <1>2, <1>4, <2>1, BeginKeepsSnapshot
  <1>5. ASSUME NEW w \in Worker, Step(w) \/ Crash(w) PROVE SnapshotInv'
    <2>1. CASE Reply(w) \/ Crash(w)
      BY <1>1, <1>2, <1>5, <2>1, OneActs, ForgetKeepsSnapshot DEF Reply, Crash
    <2>2. CASE Decide(w)
      BY <1>2, <1>5, <2>2, OneActs, DecideKeepsSnapshot
    <2>3. CASE ReadState(w) \/ AwaitBranch(w)
      BY <1>2, <1>5, <2>3, OneActs, ReadKeepsSnapshot
    <2>4. CASE \/ Anchor(w) \/ ReadBase(w) \/ CreateBranch(w)
               \/ CommitFiles(w) \/ PatchRef(w) \/ TransportFails(w)
      BY <1>2, <1>5, <2>4, OneActs, OtherStepsKeepSnapshot
    <2> QED
      BY <1>5, <2>1, <2>2, <2>3, <2>4 DEF Step
  <1> QED
    BY <1>3, <1>4, <1>5 DEF Next

\* An attempt is never refused for a request that is recorded in the state it
\* read; of a batch that a lagging read missed it may be told "stale_state".
THEOREM RetriesAreFound == Spec => []RecordedIsNotRefused
  <1>1. Init => SnapshotInv
    BY NoneIsNoRefusal
       DEF Init, SnapshotInv, AppliedOnce, Log!AppliedOnce, RefusalInv
  <1>2. StoreInv /\ SnapshotInv /\ [Next]_vars => SnapshotInv'
    BY SnapshotInvStep
  <1>3. SnapshotInv => RecordedIsNotRefused
    BY DEF SnapshotInv, RefusalInv, NotInSnapshot, RecordedIsNotRefused
  <1> QED
    BY <1>1, <1>2, <1>3, StoreInvariant, PTL DEF Spec

-----------------------------------------------------------------------------
(* What the log is for its readers *)

\* However many copies of a command are in work and whatever their reads miss,
\* a Project records it once.
THEOREM KeysAreUsedOnce == Spec => []AppliedOnce
  <1>1. Init => SnapshotInv
    BY NoneIsNoRefusal
       DEF Init, SnapshotInv, AppliedOnce, Log!AppliedOnce, RefusalInv
  <1>2. StoreInv /\ SnapshotInv /\ [Next]_vars => SnapshotInv'
    BY SnapshotInvStep
  <1>3. SnapshotInv => AppliedOnce
    BY DEF SnapshotInv
  <1> QED
    BY <1>1, <1>2, <1>3, StoreInvariant, PTL DEF Spec

\* The decision that a batch rests on was taken on a snapshot read three calls
\* earlier, which is the state that precedes the batch: no earlier batch moves,
\* and the branch is at the snapshot when the batch is added.
LEMMA AcceptedStep ==
    ASSUME StoreInv, EveryBatchAccepted, [Next]_vars
    PROVE  EveryBatchAccepted'
  <1>0. Len(log) \in Nat /\ log \in Seq(Log!Batch)
    BY DEF StoreInv, TypeOK, Log!TypeOK
  <1>1. CASE log' = log
    <2>1. CASE base' = base
      BY <1>1, <2>1 DEF EveryBatchAccepted, Log!EveryBatchAccepted
    <2>2. CASE base' # base
      <3>1. PICK w \in Worker : CreateBranch(w)
        BY <2>2, BranchChanges
      <3>2. base = None
        BY <2>2, <3>1 DEF CreateBranch
      <3>3. Len(log) = 0
        BY <3>2 DEF StoreInv
      <3> QED
        BY <1>1, <3>3 DEF EveryBatchAccepted, Log!EveryBatchAccepted
    <2> QED
      BY <2>1, <2>2
  <1>2. CASE log' # log
    <2>1. PICK w \in Worker : PatchRef(w)
      BY <1>2, BranchChanges
    <2>2. /\ pc[w] = "patch" /\ Len(log) = snap[w] /\ base' = base
          /\ log' = Append(log, Stored(w))
      BY <1>2, <2>1 DEF PatchRef, Stored
    <2>3. Accepts(Log!View(log, req[w].project, Len(log)), req[w].command)
      BY <2>2 DEF StoreInv, PhaseInv, Allowed
    <2>4. /\ Stored(w).project = req[w].project
          /\ Stored(w).command = req[w].command
          /\ Stored(w).previous = <<base, Len(log)>>
      BY <2>2 DEF Stored
    <2>5. /\ Len(log') = Len(log) + 1 /\ log'[Len(log) + 1] = Stored(w)
          /\ \A i \in 1..Len(log) : log'[i] = log[i]
      BY <1>0, <2>2
    <2>6. ASSUME NEW p, NEW v \in 0..Len(log)
          PROVE  Log!View(log', p, v) = Log!View(log, p, v)
      <3>1. \A j \in 1..v : log'[j] = log[j]
        BY <1>0, <2>5
      <3>2. {j \in 1..v : log'[j].project = p}
              = {j \in 1..v : log[j].project = p}
        BY <3>1
      <3> QED
        BY <3>1, <3>2 DEF Log!View
    <2> SUFFICES ASSUME NEW i \in 1..Len(log')
                 PROVE  /\ Accepts(Log!View(log', log'[i].project, i - 1),
                                   log'[i].command)
                        /\ log'[i].previous = <<base', i - 1>>
      BY DEF EveryBatchAccepted, Log!EveryBatchAccepted
    <2>7. i - 1 \in 0..Len(log)
      BY <1>0, <2>5
    <2>8. CASE i \in 1..Len(log)
      BY <2>2, <2>5, <2>6, <2>7, <2>8
         DEF EveryBatchAccepted, Log!EveryBatchAccepted
    <2>9. CASE i = Len(log) + 1
      <3>1. i - 1 = Len(log) /\ log'[i] = Stored(w)
        BY <1>0, <2>5, <2>9
      <3> QED
        BY <2>2, <2>3, <2>4, <2>6, <2>7, <3>1
    <2> QED
      BY <1>0, <2>5, <2>8, <2>9
  <1> QED
    BY <1>1, <1>2

\* Every batch on the branch was accepted on exactly the Project that precedes
\* it, so replay from the start of the branch is never refused.
THEOREM LogReplays == Spec => []EveryBatchAccepted
  <1>1. Init => EveryBatchAccepted
    BY DEF Init, EveryBatchAccepted, Log!EveryBatchAccepted
  <1>2. StoreInv /\ EveryBatchAccepted /\ [Next]_vars => EveryBatchAccepted'
    BY AcceptedStep
  <1> QED
    BY <1>1, <1>2, StoreInvariant, PTL DEF Spec
=============================================================================
