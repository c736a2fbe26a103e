---------------------------- MODULE RunRequests -----------------------------
(***************************************************************************)
(* A Run's requests, end to end: the Node inspector of a browser tab       *)
(* starts Runs and retries them, the worker of a Run pushes results and    *)
(* reports them, and the handlers of the application service (#startRun,   *)
(* #completeRun, #terminalRun, #rebuildMaterializations) touch Git before  *)
(* they append to the state branch.  Handlers run at the same time, any of *)
(* them may fail between two calls to GitHub, and a tab may stop waiting   *)
(* for a handler that is still at work.                                    *)
(*                                                                         *)
(* The state branch is EventLog, that StateStore implements: one append is *)
(* one step.  One Project; head number v is its v-th batch.                *)
(***************************************************************************)
EXTENDS EventLog, FiniteSets

CONSTANTS
    Node, GoalsOf,  \* registered Nodes and the next Goals of each
    RunId, Result,  \* ids a tab draws at random, and commits workers make
    Handler         \* requests the server can work on at a time

VARIABLES
    handlers,   \* Handler -> the request it serves, or None
    tab,        \* the inspector: selected Node, pending key, mutation
    sent,       \* history: every [key, command] a client has sent
    conflicts,  \* history: those answered that they are in conflict (409)
    branches,   \* Run branches, <<source, run>>
    pushed,     \* commits on them, <<branch, result>>
    anchors     \* results that a managed tag anchors

gitVars == <<branches, pushed, anchors>>
allVars == <<vars, handlers, tab, sent, conflicts, gitVars>>

StartRun(n, g, r) ==
    [type |-> "StartRun", node |-> n, goal |-> g, run |-> r]
CompleteRun(r, s) == [type |-> "CompleteRun", run |-> r, result |-> s]
FailRun(r) == [type |-> "FailRun", run |-> r]
Rebuild == [type |-> "RebuildProjectMaterializations"]

RunCommands ==
    {Rebuild} \cup {FailRun(r) : r \in RunId}
    \cup {CompleteRun(r, s) : r \in RunId, s \in Result}
    \cup {StartRun(n, g, r) : n \in Node, g \in UNION {GoalsOf[n] : n \in Node},
                              r \in RunId}

ASSUME CommandsOfRuns == Command = RunCommands
ASSUME ThereIsAProject == Project # {}
ASSUME NoneIsNoHandler == None \notin Handler

-----------------------------------------------------------------------------
(* What packages/core decides on the commands that went before.            *)

Past(view) == {view[i] : i \in DOMAIN view}

Starts(past, r) == {c \in past : c.type = "StartRun" /\ c.run = r}
CompletedWith(past, r, s) == CompleteRun(r, s) \in past
Running(past, r) ==
    /\ Starts(past, r) # {} /\ FailRun(r) \notin past
    /\ \A s \in Result : ~CompletedWith(past, r, s)

Decides(view, c) ==
    LET past == Past(view) IN
    CASE c.type = "StartRun" ->
           c.goal \in GoalsOf[c.node] /\ Starts(past, c.run) = {}
      [] c.type = "CompleteRun" ->
           /\ Running(past, c.run)
           /\ \A r \in RunId : ~CompletedWith(past, r, c.result)
      [] c.type = "FailRun" -> Running(past, c.run)
      [] OTHER -> TRUE

\* The commands of the first v batches: what a read of the state branch shows
\* that answers with its v-th head, the last one or an older one.
PastTo(v) == {log[i].command : i \in 1..v}
LogPast == PastTo(Len(log))

\* INVALID_TRANSITION and DUPLICATE_ID, the reasons that domainFailure answers
\* as a conflict; a missing Run is not_found, a missing Goal invalid_request.
Contradicted(past, c) ==
    CASE c.type = "StartRun" -> Starts(past, c.run) # {}
      [] c.type = "CompleteRun" ->
           /\ Starts(past, c.run) # {}
           /\ \/ ~Running(past, c.run)
              \/ \E r \in RunId : CompletedWith(past, r, c.result)
      [] c.type = "FailRun" ->
           Starts(past, c.run) # {} /\ ~Running(past, c.run)
      [] OTHER -> FALSE

\* What a client is told of a command that was not decided.
Refusal(past, c) == IF Contradicted(past, c) THEN "conflict" ELSE "failed"

TheProject == CHOOSE p \in Project : TRUE
UsedKeys == {x.key : x \in sent}
FreshKey == CHOOSE k \in Key \ UsedKeys : TRUE

-----------------------------------------------------------------------------
(* Clients *)

Send(h, k, c, seen) ==
    /\ handlers[h] = None
    /\ handlers' = [handlers EXCEPT ![h] =
         [key |-> k, command |-> c, expected |-> seen, stage |-> "sent"]]
    /\ sent' = sent \cup {[key |-> k, command |-> c]}
    /\ UNCHANGED <<vars, conflicts, gitVars>>

\* Mutant of KeyFor: the key is kept for a Goal and a run id, on any Node.
KeyForVariables(c) ==
    IF /\ tab.pending # None
       /\ tab.pending.command.goal = c.goal /\ tab.pending.command.run = c.run
    THEN tab.pending.key ELSE FreshKey

\* keyFor: the pending key if the payload is the one it was made for.
KeyFor(c) ==
    IF tab.pending # None /\ tab.pending.command = c
    THEN tab.pending.key ELSE FreshKey

\* startMutation.mutate: the payload names the Node selected now, and the head
\* is the one of the Node detail on the screen, fetched at any time.
Submit(h, g, r) ==
    LET c == StartRun(tab.node, g, r) IN
    /\ \/ tab.pending # None /\ tab.pending.command = c
       \/ Key \ UsedKeys # {}
    /\ \E seen \in 0..Len(log) : Send(h, KeyFor(c), c, seen)
    /\ tab' = [tab EXCEPT !.pending = [key |-> KeyFor(c), command |-> c],
                          !.variables = [goal |-> g, run |-> r],
                          !.status = "pending", !.awaits = h]

\* The Run button, disabled while a start is pending, draws a new run id.
Click(h, g, r) ==
    /\ tab.status # "pending" /\ g \in GoalsOf[tab.node]
    /\ \A x \in sent : x.command.type = "StartRun" => x.command.run # r
    /\ Submit(h, g, r)

\* "Retry same request", shown while the last start is in error.
Retry(h) ==
    /\ tab.status = "error"
    /\ Submit(h, tab.variables.goal, tab.variables.run)

\* Selecting another Node keeps the inspector mounted, with its mutation.
Select(n) ==
    /\ n # tab.node
    /\ tab' = [tab EXCEPT !.node = n]
    /\ UNCHANGED <<vars, handlers, sent, conflicts, gitVars>>

\* The connection breaks; the handler, if it has the request, goes on.
LoseConnection ==
    /\ tab.status = "pending"
    /\ tab' = [tab EXCEPT !.status = "error", !.awaits = None]
    /\ UNCHANGED <<vars, handlers, sent, conflicts, gitVars>>

ClosedTab(n) == [node |-> n, pending |-> None, variables |-> None,
                 status |-> "idle", awaits |-> None]

\* Closing the inspector forgets the pending key and the mutation.
Close ==
    /\ tab # ClosedTab(tab.node)
    /\ tab' = ClosedTab(tab.node)
    /\ UNCHANGED <<vars, handlers, sent, conflicts, gitVars>>

\* A worker commits a result on the branch of its Run.
Push(b, s) ==
    /\ b \in branches
    /\ pushed' = pushed \cup {<<b, s>>}
    /\ UNCHANGED <<vars, handlers, tab, sent, conflicts,
                   branches, anchors>>

\* A worker, or an operator, sends a command and sends it again with its key.
Report(h, c) ==
    /\ c.type # "StartRun"
    /\ c.type # "RebuildProjectMaterializations" => Starts(LogPast, c.run) # {}
    /\ \E seen \in 0..Len(log) :
         \/ \E x \in sent : x.command = c /\ Send(h, x.key, c, seen)
         \/ /\ \A x \in sent : x.command # c
            /\ Key \ UsedKeys # {} /\ Send(h, FreshKey, c, seen)
    /\ UNCHANGED tab

-----------------------------------------------------------------------------
(* Handlers *)

Advance(h, stage) ==
    /\ handlers' = [handlers EXCEPT ![h].stage = stage]
    /\ UNCHANGED <<tab, sent, conflicts>>

\* Answer the request and, if its tab still waits, the tab: a success releases
\* the pending key.  A failure that is no conflict says nothing of the command:
\* stale_state, transport and rate limits invite a retry, and not_found,
\* forbidden and integrity_error do not, but all of them can meet a request
\* that another copy has recorded, on an old snapshot or after a lost answer.
Respond(h, verdict) ==
    /\ handlers' = [handlers EXCEPT ![h] = None]
    /\ tab' = IF tab.awaits # h THEN tab
              ELSE IF verdict = "ok"
              THEN [tab EXCEPT !.status = "success", !.awaits = None,
                               !.pending = None]
              ELSE [tab EXCEPT !.status = "error", !.awaits = None]
    /\ conflicts' = IF verdict # "conflict" THEN conflicts
                    ELSE conflicts \cup {[key |-> handlers[h].key,
                                          command |-> handlers[h].command]}
    /\ UNCHANGED sent

\* applyProjectCommand on the snapshot at head v, with the command's own
\* metadata: decideRetry lets a command through that is recorded there.
Preflight(r, v) ==
    LET used == {i \in 1..v : log[i].key = r.key} IN
    IF \E i \in used : log[i].command = r.command THEN "branch"
    ELSE IF used # {} THEN "conflict"
    ELSE IF Decides(View(log, TheProject, v), r.command) THEN "branch"
    ELSE Refusal(PastTo(v), r.command)

\* Mutants of AfterLoad: a completed Run is a conflict for everyone; the Run
\* branch is left to the worker.
AfterLoadAnyTerminal(r, v) ==
    IF r.command.type = "StartRun" THEN Preflight(r, v)
    ELSE IF Starts(PastTo(v), r.command.run) = {} THEN "failed"
    ELSE IF Running(PastTo(v), r.command.run) THEN "verify" ELSE "conflict"

AfterLoadNoBranch(r, v) ==
    IF r.command.type = "StartRun"
    THEN IF Preflight(r, v) = "branch" THEN "append" ELSE Preflight(r, v)
    ELSE IF Running(PastTo(v), r.command.run) THEN "verify"
    ELSE IF CompletedWith(PastTo(v), r.command.run, r.command.result)
    THEN "replay" ELSE "conflict"

\* Where #startRun and #completeRun go from the Project they load at head v:
\* to their next stage, or to an answer.
AfterLoad(r, v) ==
    IF r.command.type = "StartRun" THEN Preflight(r, v)
    ELSE IF Starts(PastTo(v), r.command.run) = {} THEN "failed"
    ELSE IF Running(PastTo(v), r.command.run) THEN "verify"
    ELSE IF CompletedWith(PastTo(v), r.command.run, r.command.result)
    THEN "replay" ELSE "conflict"

\* The head that is read may be an older one.
Load(h) ==
    LET r == handlers[h] IN
    /\ r # None /\ r.stage = "sent"
    /\ r.command.type \in {"StartRun", "CompleteRun"}
    /\ \E v \in 0..Len(log) :
         IF AfterLoad(r, v) \in {"failed", "conflict"}
         THEN Respond(h, AfterLoad(r, v)) ELSE Advance(h, AfterLoad(r, v))
    /\ UNCHANGED <<vars, gitVars>>

\* createRunBranch: an existing branch of this name is as good as a new one.
CreateRunBranch(h) ==
    LET r == handlers[h] IN
    /\ r # None /\ r.stage = "branch"
    /\ branches' = branches \cup {<<r.command.node, r.command.run>>}
    /\ Advance(h, "append")
    /\ UNCHANGED <<vars, pushed, anchors>>

\* verifyRunResult; a result that is not on the branch yet may be soon.
VerifyRunResult(h) ==
    LET r == handlers[h] IN
    /\ r # None /\ r.stage = "verify"
    /\ IF \E c \in Starts(LogPast, r.command.run) :
            <<<<c.node, c.run>>, r.command.result>> \in pushed
       THEN Advance(h, "anchor")
       ELSE Respond(h, "failed")
    /\ UNCHANGED <<vars, gitVars>>

AnchorNode(h) ==
    LET r == handlers[h] IN
    /\ r # None /\ r.stage = "anchor"
    /\ anchors' = anchors \cup {r.command.result}
    /\ Advance(h, "append")
    /\ UNCHANGED <<vars, branches, pushed>>

\* The command whose decision #mutate asks for: #mutateReplay, which expects
\* the store to find the key, passes a placeholder.
Decided(r) ==
    IF r.stage = "replay" THEN FailRun(r.command.run) ELSE r.command

\* append, with its answer, on the snapshot at head v: a key that is known
\* there is replayed, then the head must be the expected one, then the decision
\* is asked for, and the branch moves if v still is its head.
AppendBatch(h) ==
    LET r == handlers[h] IN
    /\ r # None
    /\ \/ r.stage \in {"append", "replay"}
       \/ /\ r.stage = "sent"
          /\ r.command.type \notin {"StartRun", "CompleteRun"}
    /\ \E v \in 0..Len(log) :
         LET used == {i \in 1..v : UsedAt(log, TheProject, r.key, i)}
             accepted == Accepts(View(log, TheProject, v), Decided(r))
         IN
         \/ \E i \in used :
              /\ UNCHANGED vars
              /\ Respond(h, IF log[i].command = r.command
                            THEN "ok" ELSE "conflict")
         \/ /\ used = {}
            /\ r.expected # v \/ (accepted /\ v # Len(log))
            /\ UNCHANGED vars /\ Respond(h, "failed")
         \/ /\ used = {} /\ r.expected = v /\ ~accepted
            /\ UNCHANGED vars /\ Respond(h, Refusal(PastTo(v), Decided(r)))
         \/ /\ r.expected = v /\ v = Len(log)
            /\ Record(TheProject, r.key, Decided(r)) /\ Advance(h, "append")
    /\ UNCHANGED gitVars

\* A call to GitHub fails, is refused, or shows state that cannot be decoded,
\* or the process stops.
Fail(h) ==
    /\ handlers[h] # None
    /\ Respond(h, "failed")
    /\ UNCHANGED <<vars, gitVars>>

-----------------------------------------------------------------------------

RunInit ==
    /\ base \in Base /\ log = <<>> /\ answered = {}
    /\ handlers = [h \in Handler |-> None]
    /\ tab \in {ClosedTab(n) : n \in Node}
    /\ sent = {} /\ conflicts = {}
    /\ branches = {} /\ pushed = {} /\ anchors = {}

RunNext ==
    \/ \E h \in Handler :
         \/ \E g \in GoalsOf[tab.node], r \in RunId : Click(h, g, r)
         \/ Retry(h)
         \/ \E c \in Command : Report(h, c)
         \/ Load(h) \/ CreateRunBranch(h) \/ VerifyRunResult(h)
         \/ AnchorNode(h) \/ AppendBatch(h) \/ Fail(h)
    \/ \E n \in Node : Select(n)
    \/ LoseConnection \/ Close
    \/ \E b \in branches, s \in Result : Push(b, s)

RunSpec == RunInit /\ [][RunNext]_allVars

-----------------------------------------------------------------------------
(* Properties *)

\* A client that is answered with a conflict is told the truth: the command it
\* sent with that key is not on the state branch, and never gets there through
\* another copy of the request, however old the snapshots are that it is told
\* from (#startRun's preflight and #completeRun's status check against copies
\* of the same submission).  Of any other failure the client learns nothing.
ConflictsAreTrue ==
    \A x \in conflicts, i \in 1..Len(log) :
        log[i].key = x.key => log[i].command # x.command

\* A key stands for one command, whatever is selected, retried and lost in
\* between, so the store never has to refuse a tab for its key (keyFor).
KeysNameOneCommand ==
    \A x, y \in sent : x.key = y.key => x.command = y.command

\* The log never runs ahead of Git: a started Run has its branch, and a
\* completed one has its result on that branch and anchored, although each is
\* written by a call of its own that may fail, and copies of a request race.
GitPrecedesLog ==
    \A c \in LogPast :
        /\ c.type = "StartRun" => <<c.node, c.run>> \in branches
        /\ c.type = "CompleteRun" =>
             /\ c.result \in anchors
             /\ \E b \in Starts(LogPast, c.run) :
                  <<<<b.node, b.run>>, c.result>> \in pushed

\* logicalSubmissionKey.ts: "a retry of the same JSON payload reaches the
\* server with the original key".
RetriesKeepTheirKey ==
    \A x, y \in sent :
        x.command = y.command => x.key = y.key
=============================================================================
