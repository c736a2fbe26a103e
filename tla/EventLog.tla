------------------------------ MODULE EventLog ------------------------------
(***************************************************************************)
(* What packages/github-store promises of the branch hunsu/state: one log  *)
(* of command batches for all the Projects of a repository.  A batch is    *)
(* recorded at once, if no batch of the same Project has used its          *)
(* idempotency key and the Project as it then stands accepts the command.  *)
(* A caller is only ever told of a batch that is in the log.               *)
(*                                                                         *)
(* A commit of the branch is <<b, v>>: the v-th commit after base b of the *)
(* default branch.  Commits are content addressed and the branch only      *)
(* moves forward, so these pairs tell heads apart as their SHAs do.        *)
(***************************************************************************)
EXTENDS Integers, Sequences

CONSTANTS
    Project, Key, Command,
    Base,           \* commits of the default branch, by number
    Accepts(_, _),  \* Accepts(view, command): the decision of packages/core
    None

ASSUME NoneIsNoBase == None \notin Base

VARIABLES
    base,       \* default-branch commit the state branch starts at, or None
    log,        \* the command batches on the state branch, oldest first
    answered    \* the batches that callers have been told are recorded

vars == <<base, log, answered>>

Commit == Base \X Nat

\* A stored batch: previous is the envelopes' previousStateSha.
Batch == [project : Project, key : Key, command : Command, previous : Commit]

\* What a caller is told about, and retries with: its logical command.
Answered == [project : Project, key : Key, command : Command]

LogicalOf(b) == [project |-> b.project, key |-> b.key, command |-> b.command]

\* The events of Project p among the first v batches, in order: all that
\* replay, and so a decision, depends on.
View(l, p, v) ==
    [i \in {j \in 1..v : l[j].project = p} |-> l[i].command]

\* The batch of Project p that used key k is the i-th of l.
UsedAt(l, p, k, i) == l[i].project = p /\ l[i].key = k

Open(b) ==
    /\ base = None
    /\ base' = b
    /\ UNCHANGED <<log, answered>>

Record(p, k, c) ==
    /\ base # None
    /\ \A i \in 1..Len(log) : ~UsedAt(log, p, k, i)
    /\ Accepts(View(log, p, Len(log)), c)
    /\ log' = Append(log, [project |-> p, key |-> k, command |-> c,
                           previous |-> <<base, Len(log)>>])
    /\ UNCHANGED <<base, answered>>

Answer(i) ==
    /\ answered' = answered \cup {LogicalOf(log[i])}
    /\ UNCHANGED <<base, log>>

Init == base = None /\ log = <<>> /\ answered = {}

Next ==
    \/ \E b \in Base : Open(b)
    \/ \E p \in Project, k \in Key, c \in Command : Record(p, k, c)
    \/ \E i \in 1..Len(log) : Answer(i)

Spec == Init /\ [][Next]_vars

-----------------------------------------------------------------------------
(* Properties *)

TypeOK ==
    /\ base \in Base \cup {None}
    /\ log \in Seq(Batch)
    /\ answered \subseteq Answered

\* However often a command is sent, its Project records it once: no two
\* batches of a Project share an idempotency key (validateCommandBatches).
AppliedOnce ==
    \A i, j \in 1..Len(log) :
        log[i].project = log[j].project /\ log[i].key = log[j].key => i = j

\* Every batch was accepted on exactly the Project that precedes it in the
\* log, and names that head as its previous state: replay cannot be refused.
EveryBatchAccepted ==
    \A i \in 1..Len(log) :
        /\ Accepts(View(log, log[i].project, i - 1), log[i].command)
        /\ log[i].previous = <<base, i - 1>>

\* The log is append-only, and the branch never moves to another base.
AppendOnly ==
    [][/\ Len(log) <= Len(log')
       /\ \A i \in 1..Len(log) : log'[i] = log[i]
       /\ base # None => base' = base]_vars
=============================================================================
