------------------------- MODULE RunRequestsProofs --------------------------
(***************************************************************************)
(* What Git holds and what clients are told, for any number of Nodes,      *)
(* Runs, keys and requests at work at the same time.                       *)
(*                                                                         *)
(* A handler loads the state once and appends several calls later, while   *)
(* the log grows.  HandlerInv says what it may still rely on: all of it    *)
(* survives the growth of the log, of the branches and of the tags, so a   *)
(* step disturbs the handler that takes it and no other.  The same is why  *)
(* a conflict stands, told from whatever snapshot: a command is Closed by  *)
(* what was in the log, and nothing after that records it.                 *)
(***************************************************************************)
EXTENDS RunRequests, TLAPS

-----------------------------------------------------------------------------
(***************************************************************************)
(* The log's promises, proved for all Projects, keys, commands and bases.  *)
(*                                                                         *)
(* Everything follows from one invariant: the types, that a key is used    *)
(* once, and that every batch was accepted on the prefix before it.  The   *)
(* last part also says that a log with a batch has a base, because the     *)
(* batch names it: this is why opening the branch disturbs no batch.       *)
(***************************************************************************)

LogInv == TypeOK /\ AppliedOnce /\ EveryBatchAccepted

-----------------------------------------------------------------------------
(* Lemmas about appending to a log *)

\* A batch recorded on an open branch is well formed.
LEMMA RecordedType ==
    ASSUME TypeOK, base # None,
           NEW p \in Project, NEW k \in Key, NEW c \in Command
    PROVE  [project |-> p, key |-> k, command |-> c,
            previous |-> <<base, Len(log)>>] \in Batch
  BY DEF TypeOK, Batch, Commit

\* Appending adds one batch and leaves the others where they are.
LEMMA AppendShape ==
    ASSUME NEW l \in Seq(Batch), NEW b \in Batch
    PROVE  /\ Append(l, b) \in Seq(Batch)
           /\ Len(Append(l, b)) = Len(l) + 1
           /\ Append(l, b)[Len(l) + 1] = b
           /\ \A i \in 1..Len(l) : Append(l, b)[i] = l[i]
  OBVIOUS

\* What a decision at version v depends on does not change when batches are
\* appended: append-only storage makes decisions repeatable.
LEMMA ViewStable ==
    ASSUME NEW l, NEW m, NEW p, NEW v \in Nat,
           \A i \in 1..v : m[i] = l[i]
    PROVE  View(m, p, v) = View(l, p, v)
  <1>1. {j \in 1..v : m[j].project = p} = {j \in 1..v : l[j].project = p}
    OBVIOUS
  <1> QED
    BY <1>1 DEF View

-----------------------------------------------------------------------------
(* The log as it is opened, extended and reported *)

LEMMA OpenKeepsInv ==
    ASSUME LogInv, NEW b \in Base, Open(b)
    PROVE  LogInv'
  <1>1. Len(log) = 0
    <2>1. SUFFICES ASSUME 1 \in 1..Len(log)
                   PROVE  FALSE
      BY DEF LogInv, TypeOK
    <2>2. log[1] \in Batch /\ log[1].previous = <<base, 0>>
      BY <2>1 DEF LogInv, TypeOK, EveryBatchAccepted
    <2> QED
      BY <2>2, NoneIsNoBase DEF Open, Batch, Commit
  <1>2. TypeOK'
    BY DEF LogInv, TypeOK, Open
  <1>3. AppliedOnce' /\ EveryBatchAccepted'
    BY <1>1 DEF Open, AppliedOnce, EveryBatchAccepted
  <1> QED
    BY <1>2, <1>3 DEF LogInv

LEMMA RecordKeepsInv ==
    ASSUME LogInv, NEW p \in Project, NEW k \in Key, NEW c \in Command,
           Record(p, k, c)
    PROVE  LogInv'
  <1> DEFINE b == [project |-> p, key |-> k, command |-> c,
                   previous |-> <<base, Len(log)>>]
  <1>1. b \in Batch /\ log \in Seq(Batch)
    BY RecordedType DEF LogInv, TypeOK, Record
  <1>2. log' = Append(log, b)
    BY DEF Record
  <1> HIDE DEF b
  <1>3. /\ log' \in Seq(Batch)
        /\ Len(log') = Len(log) + 1 /\ Len(log) \in Nat
        /\ log'[Len(log) + 1] = b
        /\ \A i \in 1..Len(log) : log'[i] = log[i]
    BY <1>1, <1>2, AppendShape
  <1>4. TypeOK'
    BY <1>3 DEF LogInv, TypeOK, Record
  <1>5. AppliedOnce'
    <2>1. \A i \in 1..Len(log) : ~(log[i].project = p /\ log[i].key = k)
      BY DEF Record, UsedAt
    <2>2. b.project = p /\ b.key = k
      BY DEF b
    <2> QED
      BY <1>3, <2>1, <2>2 DEF LogInv, AppliedOnce
  <1>6. EveryBatchAccepted'
    <2> SUFFICES ASSUME NEW i \in 1..Len(log')
                 PROVE  /\ Accepts(View(log', log'[i].project, i - 1),
                                   log'[i].command)
                        /\ log'[i].previous = <<base', i - 1>>
      BY DEF EveryBatchAccepted
    <2>1. View(log', log'[i].project, i - 1) = View(log, log'[i].project, i - 1)
      BY <1>3, ViewStable
    <2>2. CASE i \in 1..Len(log)
      BY <1>3, <2>1, <2>2 DEF LogInv, EveryBatchAccepted, Record
    <2>3. CASE i = Len(log) + 1
      <3>1. log'[i] = b /\ i - 1 = Len(log)
        BY <1>3, <2>3
      <3>2. b.project = p /\ b.command = c /\ b.previous = <<base, Len(log)>>
        BY DEF b
      <3> QED
        BY <2>1, <3>1, <3>2 DEF Record
    <2> QED
      BY <1>3, <2>2, <2>3
  <1> QED
    BY <1>4, <1>5, <1>6 DEF LogInv

LEMMA AnswerKeepsInv ==
    ASSUME LogInv, NEW i \in 1..Len(log), Answer(i)
    PROVE  LogInv'
  <1>1. log[i] \in Batch
    BY DEF LogInv, TypeOK
  <1>2. TypeOK'
    BY <1>1 DEF LogInv, TypeOK, Answer, Answered, LogicalOf, Batch
  <1>3. AppliedOnce' /\ EveryBatchAccepted'
    BY DEF LogInv, Answer, AppliedOnce, EveryBatchAccepted
  <1> QED
    BY <1>2, <1>3 DEF LogInv

\* LogInv is inductive.
LEMMA LogInvInductive == LogInv /\ [Next]_vars => LogInv'
  <1> SUFFICES ASSUME LogInv, [Next]_vars PROVE LogInv'
    OBVIOUS
  <1>1. ASSUME NEW b \in Base, Open(b) PROVE LogInv'
    BY <1>1, OpenKeepsInv
  <1>2. ASSUME NEW p \in Project, NEW k \in Key, NEW c \in Command,
               Record(p, k, c)
        PROVE  LogInv'
    BY <1>2, RecordKeepsInv
  <1>3. ASSUME NEW i \in 1..Len(log), Answer(i) PROVE LogInv'
    BY <1>3, AnswerKeepsInv
  <1>4. CASE UNCHANGED vars
    BY <1>4 DEF vars, LogInv, TypeOK, AppliedOnce, EveryBatchAccepted
  <1> QED
    BY <1>1, <1>2, <1>3, <1>4 DEF Next

LEMMA LogInvInit == Init => LogInv
  BY DEF Init, LogInv, TypeOK, AppliedOnce, EveryBatchAccepted

-----------------------------------------------------------------------------
(* Theorems *)

\* The invariant from which the promises below are read off.
THEOREM LogInvariant == Spec => []LogInv
  BY LogInvInit, LogInvInductive, PTL DEF Spec

\* The log holds batches, and callers are told of logical commands.
THEOREM LogTypes == Spec => []TypeOK
  <1>1. LogInv => TypeOK
    BY DEF LogInv
  <1> QED
    BY <1>1, LogInvariant, PTL

\* No step rewrites or drops a batch or moves the branch to another base.
THEOREM LogIsAppendOnly == Spec => AppendOnly
  <1> DEFINE Kept == /\ Len(log) <= Len(log')
                     /\ \A i \in 1..Len(log) : log'[i] = log[i]
                     /\ base # None => base' = base
  <1>1. LogInv /\ [Next]_vars => [Kept]_vars
    <2> SUFFICES ASSUME LogInv, Next PROVE Kept
      OBVIOUS
    <2>0. log \in Seq(Batch)
      BY DEF LogInv, TypeOK
    <2>1. ASSUME NEW b \in Base, Open(b) PROVE Kept
      BY <2>0, <2>1 DEF Open
    <2>2. ASSUME NEW p \in Project, NEW k \in Key, NEW c \in Command,
                 Record(p, k, c)
          PROVE  Kept
      BY <2>0, <2>2, RecordedType, AppendShape DEF LogInv, Record
    <2>3. ASSUME NEW i \in 1..Len(log), Answer(i) PROVE Kept
      BY <2>0, <2>3 DEF Answer
    <2> QED
      BY <2>1, <2>2, <2>3 DEF Next
  <1> QED
    BY <1>1, LogInvariant, PTL DEF Spec, AppendOnly

-----------------------------------------------------------------------------
(* The requests *)

Stage == {"sent", "branch", "verify", "anchor", "append", "replay"}
Goals == UNION {GoalsOf[n] : n \in Node}

Request == [key : Key, command : Command]
Work == [key : Key, command : Command, expected : Nat, stage : Stage]
Variables == [goal : Goals, run : RunId]

\* The tab's mutation has variables once it was started.
TabType ==
    /\ tab \in [node : Node, pending : {None} \cup Request,
                variables : {None} \cup Variables,
                status : {"idle", "pending", "error", "success"},
                awaits : {None} \cup Handler]
    /\ tab.status # "idle" => tab.variables \in Variables
    /\ tab.awaits # None => tab.status # "idle"

RequestsType ==
    /\ sent \subseteq Request /\ conflicts \subseteq Request
    /\ handlers \in [Handler -> {None} \cup Work]
    /\ TabType

\* A result is on the branch of its Run.
OnBranch(past, P, c) ==
    \E b \in Starts(past, c.run) : <<<<b.node, b.run>>, c.result>> \in P

\* What a request in work has behind it at each stage.
Prepared(w, past, B, P, A) ==
    LET c == w.command IN
    /\ w.stage = "branch" => c.type = "StartRun"
    /\ w.stage = "verify" => c.type = "CompleteRun"
    /\ w.stage = "replay" => c.type = "CompleteRun" /\ c \in past
    /\ w.stage = "anchor" =>
         c.type = "CompleteRun" /\ OnBranch(past, P, c)
    /\ w.stage = "append" =>
         /\ c.type = "StartRun" => <<c.node, c.run>> \in B
         /\ c.type = "CompleteRun" => OnBranch(past, P, c) /\ c.result \in A

HandlerInv(h) ==
    handlers[h] # None =>
        /\ [key |-> handlers[h].key, command |-> handlers[h].command] \in sent
        /\ Prepared(handlers[h], LogPast, branches, pushed, anchors)

\* What the tab may send again, it has sent.
PendingWasSent == tab.pending # None => tab.pending \in sent

LogIsOfProject == \A i \in 1..Len(log) : log[i].project = TheProject

RequestInv ==
    /\ LogInv /\ LogIsOfProject
    /\ RequestsType /\ PendingWasSent /\ KeysNameOneCommand
    /\ \A h \in Handler : HandlerInv(h)
    /\ GitPrecedesLog

\* The engine is what the log asks for its decisions.
EngineDecides == \A view, c : Accepts(view, c) <=> Decides(view, c)

\* No decision on the command will ever be made again.
Closed(past, c) ==
    CASE c.type = "StartRun" ->
           c.goal \notin GoalsOf[c.node] \/ Starts(past, c.run) # {}
      [] c.type = "CompleteRun" ->
           \/ Starts(past, c.run) # {} /\ ~Running(past, c.run)
           \/ \E r \in RunId : CompletedWith(past, r, c.result)
      [] c.type = "FailRun" ->
           Starts(past, c.run) # {} /\ ~Running(past, c.run)
      [] OTHER -> FALSE

ClosedOrUsed ==
    \A x \in conflicts :
        \/ Closed(LogPast, x.command)
        \/ \E i \in 1..Len(log) : log[i].key = x.key

ConflictInv == ClosedOrUsed /\ ConflictsAreTrue

-----------------------------------------------------------------------------
(* Lemmas about commands and the log *)

\* A command is determined by its type and the fields of that type.
LEMMA CommandShape ==
    ASSUME NEW c \in Command
    PROVE  \/ /\ c.type = "StartRun" /\ c = StartRun(c.node, c.goal, c.run)
              /\ c.node \in Node /\ c.goal \in Goals /\ c.run \in RunId
           \/ /\ c.type = "CompleteRun" /\ c = CompleteRun(c.run, c.result)
              /\ c.run \in RunId /\ c.result \in Result
           \/ c.type = "FailRun" /\ c = FailRun(c.run) /\ c.run \in RunId
           \/ c.type = "RebuildProjectMaterializations"
  BY CommandsOfRuns
     DEF RunCommands, Goals, StartRun, CompleteRun, FailRun, Rebuild

\* The commands of the tab and the placeholder of a replay are commands.
LEMMA CommandsMade ==
    /\ \A n \in Node, g \in Goals, r \in RunId : StartRun(n, g, r) \in Command
    /\ \A r \in RunId : FailRun(r) \in Command
  <1>1. ASSUME NEW n \in Node, NEW g \in Goals, NEW r \in RunId
        PROVE  StartRun(n, g, r) \in RunCommands
    BY DEF RunCommands, Goals
  <1>2. ASSUME NEW r \in RunId PROVE FailRun(r) \in RunCommands
    BY DEF RunCommands
  <1> QED
    BY <1>1, <1>2, CommandsOfRuns

LEMMA ProjectOfLog == TheProject \in Project
  BY ThereIsAProject DEF TheProject

\* In a log of one Project its view holds all that is in the log.
LEMMA ViewIsPast ==
    ASSUME LogIsOfProject, Len(log) \in Nat, NEW v \in 0..Len(log)
    PROVE  Past(View(log, TheProject, v)) = PastTo(v)
  <1>1. \A i \in 1..v : log[i].project = TheProject
    BY DEF LogIsOfProject
  <1> QED
    BY <1>1 DEF Past, View, PastTo

LEMMA PastGrows ==
    ASSUME LogInv, NEW v \in 0..Len(log), NEW w \in v..Len(log)
    PROVE  PastTo(v) \subseteq PastTo(w) /\ PastTo(w) \subseteq LogPast
  BY DEF PastTo, LogPast, LogInv, TypeOK

\* A batch adds its command, and nothing else changes the past.
LEMMA RecordGrowsPast ==
    ASSUME LogInv, LogIsOfProject, NEW k \in Key, NEW c \in Command,
           Record(TheProject, k, c)
    PROVE  /\ LogPast' = LogPast \cup {c} /\ LogIsOfProject'
           /\ Len(log) \in Nat /\ Len(log') = Len(log) + 1
           /\ \A i \in 1..Len(log) : log'[i] = log[i]
           /\ log'[Len(log) + 1].key = k /\ log'[Len(log) + 1].command = c
  <1> DEFINE b == [project |-> TheProject, key |-> k, command |-> c,
                   previous |-> <<base, Len(log)>>]
  <1>1. b \in Batch /\ log \in Seq(Batch) /\ log' = Append(log, b)
    BY RecordedType, ProjectOfLog DEF LogInv, TypeOK, Record
  <1>2. b.project = TheProject /\ b.command = c /\ b.key = k
    OBVIOUS
  <1> HIDE DEF b
  <1>3. /\ Len(log') = Len(log) + 1 /\ Len(log) \in Nat
        /\ log'[Len(log) + 1] = b
        /\ \A i \in 1..Len(log) : log'[i] = log[i]
    BY <1>1, AppendShape
  <1>4. LogPast' = LogPast \cup {c}
    BY <1>2, <1>3 DEF LogPast, PastTo
  <1>5. LogIsOfProject'
    BY <1>2, <1>3 DEF LogIsOfProject
  <1> QED
    BY <1>2, <1>3, <1>4, <1>5

LEMMA SamePast ==
    ASSUME UNCHANGED log
    PROVE  LogPast' = LogPast /\ (LogIsOfProject => LogIsOfProject')
  BY DEF LogPast, PastTo, LogIsOfProject

\* What is prepared stays so while the log and Git grow.
LEMMA PreparedStays ==
    ASSUME NEW w, NEW past, NEW B, NEW P, NEW A,
           NEW past2, NEW B2, NEW P2, NEW A2,
           past \subseteq past2, B \subseteq B2, P \subseteq P2, A \subseteq A2,
           Prepared(w, past, B, P, A)
    PROVE  Prepared(w, past2, B2, P2, A2)
  BY DEF Prepared, OnBranch, Starts

LEMMA OnBranchStays ==
    ASSUME NEW c, NEW past, NEW P, NEW past2, NEW P2,
           past \subseteq past2, P \subseteq P2, OnBranch(past, P, c)
    PROVE  OnBranch(past2, P2, c)
  BY DEF OnBranch, Starts

\* A closed command stays closed: Runs are started, end and use up a result
\* once.
LEMMA ClosedStays ==
    ASSUME NEW c, NEW past, NEW past2, past \subseteq past2, Closed(past, c)
    PROVE  Closed(past2, c)
  <1>1. \A r : Starts(past, r) \subseteq Starts(past2, r)
    BY DEF Starts
  <1>2. \A r : Starts(past, r) # {} /\ ~Running(past, r)
               => Starts(past2, r) # {} /\ ~Running(past2, r)
    BY <1>1 DEF Running, CompletedWith
  <1> QED
    BY <1>1, <1>2 DEF Closed, CompletedWith

\* What is closed is not decided again.
LEMMA ClosedIsUndecided ==
    ASSUME LogInv, LogIsOfProject, NEW v \in 0..Len(log), NEW c \in Command,
           Decides(View(log, TheProject, v), c)
    PROVE  ~Closed(PastTo(v), c)
  <1>1. Past(View(log, TheProject, v)) = PastTo(v)
    BY ViewIsPast DEF LogInv, TypeOK
  <1> QED
    BY <1>1, CommandShape DEF Decides, Closed, CompletedWith

\* What a snapshot contradicts, it closes.
LEMMA ContradictedIsClosed ==
    ASSUME NEW past, NEW c \in Command, Contradicted(past, c)
    PROVE  Closed(past, c)
  BY CommandShape DEF Contradicted, Closed

\* What the first v batches close, no later one records.
LEMMA ClosedIsNotRecorded ==
    ASSUME EngineDecides, LogInv, LogIsOfProject,
           NEW v \in 0..Len(log), NEW c \in Command, Closed(PastTo(v), c)
    PROVE  /\ Closed(LogPast, c)
           /\ \A i \in (v + 1)..Len(log) : log[i].command # c
  <1>0. Len(log) \in Nat
    BY DEF LogInv, TypeOK
  <1>1. Closed(LogPast, c)
    <2>1. PastTo(v) \subseteq LogPast
      BY <1>0, PastGrows
    <2> QED
      BY <2>1, ClosedStays
  <1>2. ASSUME NEW i \in (v + 1)..Len(log), log[i].command = c
        PROVE  FALSE
    <2>1. i \in 1..Len(log) /\ i - 1 \in 0..Len(log) /\ i - 1 \in v..Len(log)
      BY <1>0
    <2>2. log[i].project = TheProject
      BY <2>1 DEF LogIsOfProject
    <2>3. Accepts(View(log, TheProject, i - 1), c)
      BY <1>2, <2>1, <2>2 DEF LogInv, EveryBatchAccepted
    <2>4. ~Closed(PastTo(i - 1), c)
      BY <2>1, <2>3, ClosedIsUndecided DEF EngineDecides
    <2>5. PastTo(v) \subseteq PastTo(i - 1)
      BY <2>1, PastGrows
    <2> QED
      BY <2>4, <2>5, ClosedStays
  <1> QED
    BY <1>1, <1>2
-----------------------------------------------------------------------------
(* What the steps have in common *)

\* Nothing is taken away, and no other handler is touched.
Quiet(h) ==
    /\ branches \subseteq branches' /\ pushed \subseteq pushed'
    /\ anchors \subseteq anchors' /\ sent \subseteq sent'
    /\ \A g \in Handler \ {h} : handlers'[g] = handlers[g]

LEMMA OthersKept ==
    ASSUME RequestInv, NEW h, Quiet(h), LogPast \subseteq LogPast'
    PROVE  \A g \in Handler \ {h} : HandlerInv(g)'
  <1> SUFFICES ASSUME NEW g \in Handler, g # h, handlers[g] # None
               PROVE  HandlerInv(g)'
    BY DEF Quiet, HandlerInv
  <1>1. handlers'[g] = handlers[g]
    BY DEF Quiet
  <1>2. /\ [key |-> handlers[g].key, command |-> handlers[g].command] \in sent
        /\ Prepared(handlers[g], LogPast, branches, pushed, anchors)
    BY DEF RequestInv, HandlerInv
  <1>3. Prepared(handlers[g], LogPast', branches', pushed', anchors')
    BY <1>2, PreparedStays DEF Quiet
  <1> QED
    BY <1>1, <1>2, <1>3 DEF HandlerInv, Quiet

LEMMA GitKept ==
    ASSUME GitPrecedesLog, NEW h, Quiet(h), LogPast' = LogPast
    PROVE  GitPrecedesLog'
  BY DEF GitPrecedesLog, Quiet, Starts

LEMMA LogKept ==
    ASSUME LogInv, UNCHANGED vars
    PROVE  LogInv' /\ UNCHANGED log
  BY DEF vars, LogInv, TypeOK, AppliedOnce, EveryBatchAccepted

\* A step that leaves the log alone and serves one handler.
LEMMA QuietStep ==
    ASSUME RequestInv, LogInv', UNCHANGED log, NEW h, Quiet(h),
           RequestsType', PendingWasSent', KeysNameOneCommand',
           h \in Handler => HandlerInv(h)'
    PROVE  RequestInv'
  <1>1. LogPast' = LogPast /\ LogIsOfProject'
    BY SamePast DEF RequestInv
  <1>2. \A g \in Handler \ {h} : HandlerInv(g)'
    BY <1>1, OthersKept
  <1>3. GitPrecedesLog'
    BY <1>1, GitKept DEF RequestInv
  <1> QED
    BY <1>1, <1>2, <1>3 DEF RequestInv

\* Answering a request ends its work.
LEMMA RespondKeeps ==
    ASSUME RequestsType, PendingWasSent, KeysNameOneCommand,
           NEW h \in Handler, NEW verdict, handlers[h] # None,
           Respond(h, verdict)
    PROVE  /\ RequestsType' /\ PendingWasSent' /\ KeysNameOneCommand'
           /\ HandlerInv(h)' /\ sent' = sent
           /\ \A g \in Handler \ {h} : handlers'[g] = handlers[g]
  <1>1. sent' = sent /\ KeysNameOneCommand'
    BY DEF Respond, KeysNameOneCommand
  <1>2. /\ handlers' \in [Handler -> {None} \cup Work]
        /\ handlers'[h] = None
        /\ \A g \in Handler \ {h} : handlers'[g] = handlers[g]
    BY DEF Respond, RequestsType
  <1>3. conflicts' \subseteq Request
    <2>1. handlers[h] \in Work
      BY DEF RequestsType
    <2>2. [key |-> handlers[h].key, command |-> handlers[h].command] \in Request
      BY <2>1 DEF Work, Request
    <2> QED
      BY <2>2 DEF Respond, RequestsType
  <1>4. TabType' /\ PendingWasSent'
    <2>1. CASE tab.awaits # h
      BY <1>1, <2>1 DEF Respond, RequestsType, TabType, PendingWasSent
    <2>2. CASE tab.awaits = h
      <3>1. tab.variables \in Variables
        BY <2>2, NoneIsNoHandler DEF RequestsType, TabType
      <3>2. CASE verdict = "ok"
        <4>1. tab' = [tab EXCEPT !.status = "success", !.awaits = None,
                                 !.pending = None]
          BY <2>2, <3>2 DEF Respond
        <4>2. tab'.pending = None /\ tab'.awaits = None
              /\ tab'.variables = tab.variables
          BY <4>1 DEF RequestsType, TabType
        <4> QED
          BY <3>1, <4>1, <4>2 DEF RequestsType, TabType, PendingWasSent
      <3>3. CASE verdict # "ok"
        <4>1. tab' = [tab EXCEPT !.status = "error", !.awaits = None]
          BY <2>2, <3>3 DEF Respond
        <4>2. tab'.pending = tab.pending /\ tab'.awaits = None
              /\ tab'.variables = tab.variables
          BY <4>1 DEF RequestsType, TabType
        <4> QED
          BY <1>1, <3>1, <4>1, <4>2 DEF RequestsType, TabType, PendingWasSent
      <3> QED
        BY <3>2, <3>3
    <2> QED
      BY <2>1, <2>2
  <1> QED
    BY <1>1, <1>2, <1>3, <1>4 DEF RequestsType, HandlerInv

\* Going on to the next stage changes nothing else.
LEMMA AdvanceKeeps ==
    ASSUME RequestsType, PendingWasSent, KeysNameOneCommand,
           NEW h \in Handler, NEW stage \in Stage, handlers[h] # None,
           Advance(h, stage)
    PROVE  /\ RequestsType' /\ PendingWasSent' /\ KeysNameOneCommand'
           /\ sent' = sent /\ conflicts' = conflicts
           /\ \A g \in Handler \ {h} : handlers'[g] = handlers[g]
           /\ handlers'[h].command = handlers[h].command
           /\ handlers'[h].key = handlers[h].key
           /\ handlers'[h].stage = stage
  <1>1. handlers[h] \in Work
    BY DEF RequestsType
  <1>2. /\ handlers' =
             [handlers EXCEPT ![h] = [handlers[h] EXCEPT !.stage = stage]]
        /\ UNCHANGED <<tab, sent, conflicts>>
    BY DEF Advance
  <1>3. [handlers[h] EXCEPT !.stage = stage] \in Work
    BY <1>1 DEF Work
  <1>4. handlers'[h] = [handlers[h] EXCEPT !.stage = stage]
        /\ handlers' \in [Handler -> {None} \cup Work]
        /\ \A g \in Handler \ {h} : handlers'[g] = handlers[g]
    BY <1>2, <1>3 DEF RequestsType
  <1>5. /\ handlers'[h].command = handlers[h].command
        /\ handlers'[h].key = handlers[h].key
        /\ handlers'[h].stage = stage
    BY <1>1, <1>4 DEF Work
  <1>6. RequestsType' /\ PendingWasSent' /\ KeysNameOneCommand'
    BY <1>2, <1>4 DEF RequestsType, TabType, PendingWasSent, KeysNameOneCommand
  <1> QED
    BY <1>2, <1>4, <1>5, <1>6

LEMMA FreshKeyIsFresh ==
    ASSUME Key \ UsedKeys # {}
    PROVE  FreshKey \in Key /\ \A x \in sent : x.key # FreshKey
  BY DEF FreshKey, UsedKeys

\* Sending a request, again or with a fresh key.
LEMMA SendKeeps ==
    ASSUME RequestInv, NEW h \in Handler, NEW k \in Key, NEW c \in Command,
           NEW seen \in Nat, Send(h, k, c, seen),
           \/ [key |-> k, command |-> c] \in sent
           \/ \A x \in sent : x.key # k
    PROVE  /\ handlers' \in [Handler -> {None} \cup Work]
           /\ sent' \subseteq Request /\ KeysNameOneCommand'
           /\ [key |-> k, command |-> c] \in sent'
           /\ Quiet(h) /\ HandlerInv(h)' /\ UNCHANGED <<vars, conflicts>>
  <1> DEFINE w == [key |-> k, command |-> c, expected |-> seen,
                   stage |-> "sent"]
             x == [key |-> k, command |-> c]
  <1>1. /\ handlers' = [handlers EXCEPT ![h] = w] /\ sent' = sent \cup {x}
        /\ UNCHANGED <<vars, conflicts, branches, pushed, anchors>>
    BY DEF Send, gitVars
  <1>2. w \in Work /\ x \in Request
    BY DEF Work, Request, Stage
  <1>3. w.key = k /\ w.command = c /\ w.stage = "sent" /\ x.key = k
        /\ x.command = c
    OBVIOUS
  <1> HIDE DEF w, x
  <1>4. handlers' \in [Handler -> {None} \cup Work] /\ handlers'[h] = w
        /\ \A g \in Handler \ {h} : handlers'[g] = handlers[g]
    BY <1>1, <1>2 DEF RequestInv, RequestsType
  <1>5. sent' \subseteq Request
    BY <1>1, <1>2 DEF RequestInv, RequestsType
  <1>6. KeysNameOneCommand'
    <2>1. x \in sent \/ \A y \in sent : y.key # k
      BY DEF x
    <2>2. \A y \in sent : y.key = k => y.command = c
      BY <1>3, <2>1 DEF RequestInv, KeysNameOneCommand
    <2> QED
      BY <1>1, <1>3, <2>2 DEF RequestInv, KeysNameOneCommand
  <1>7. Quiet(h)
    BY <1>1, <1>4 DEF Quiet
  <1>8. HandlerInv(h)'
    <2>1. Prepared(w, LogPast', branches', pushed', anchors')
      BY <1>3 DEF Prepared
    <2>2. [key |-> w.key, command |-> w.command] \in sent'
      BY <1>1, <1>3 DEF x
    <2> QED
      BY <1>4, <2>1, <2>2 DEF HandlerInv
  <1>9. [key |-> k, command |-> c] \in sent'
    BY <1>1 DEF x
  <1> QED
    BY <1>1, <1>4, <1>5, <1>6, <1>7, <1>8, <1>9
-----------------------------------------------------------------------------
(* Clients *)

LEMMA SubmitKeepsInv ==
    ASSUME RequestInv, NEW h \in Handler, NEW g \in Goals, NEW r \in RunId,
           Submit(h, g, r)
    PROVE  RequestInv'
  <1> DEFINE c == StartRun(tab.node, g, r)
             k == KeyFor(c)
  <1>0. TabType /\ PendingWasSent /\ sent \subseteq Request
    BY DEF RequestInv, RequestsType
  <1>1. c \in Command
    BY <1>0, CommandsMade DEF TabType
  <1>2. /\ k \in Key
        /\ [key |-> k, command |-> c] \in sent \/ \A x \in sent : x.key # k
    <2>1. CASE tab.pending # None /\ tab.pending.command = c
      <3>1. tab.pending \in Request /\ tab.pending \in sent
        BY <1>0, <2>1 DEF TabType, PendingWasSent
      <3>2. [key |-> tab.pending.key, command |-> c] = tab.pending
        BY <2>1, <3>1 DEF Request
      <3> QED
        BY <2>1, <3>1, <3>2 DEF KeyFor, Request
    <2>2. CASE ~(tab.pending # None /\ tab.pending.command = c)
      BY <2>2, FreshKeyIsFresh DEF Submit, KeyFor
    <2> QED
      BY <2>1, <2>2
  <1>3. PICK seen \in 0..Len(log) : Send(h, k, c, seen)
    BY DEF Submit
  <1>4. tab' = [tab EXCEPT !.pending = [key |-> k, command |-> c],
                           !.variables = [goal |-> g, run |-> r],
                           !.status = "pending", !.awaits = h]
    BY DEF Submit
  <1> HIDE DEF c, k
  <1>5. seen \in Nat
    BY <1>3 DEF RequestInv, LogInv, TypeOK
  <1>6. /\ handlers' \in [Handler -> {None} \cup Work]
        /\ sent' \subseteq Request /\ KeysNameOneCommand'
        /\ [key |-> k, command |-> c] \in sent'
        /\ Quiet(h) /\ HandlerInv(h)' /\ UNCHANGED <<vars, conflicts>>
    BY <1>1, <1>2, <1>3, <1>5, SendKeeps
  <1>7. TabType' /\ PendingWasSent'
    <2>1. /\ [key |-> k, command |-> c] \in Request
          /\ [goal |-> g, run |-> r] \in Variables
      BY <1>1, <1>2 DEF Request, Variables
    <2>2. /\ tab'.pending = [key |-> k, command |-> c]
          /\ tab'.variables = [goal |-> g, run |-> r]
          /\ tab'.status = "pending"
      BY <1>0, <1>4 DEF TabType
    <2> QED
      BY <1>0, <1>4, <1>6, <2>1, <2>2 DEF TabType, PendingWasSent
  <1>8. RequestsType'
    BY <1>6, <1>7 DEF RequestInv, RequestsType
  <1>9. LogInv' /\ UNCHANGED log
    BY <1>6, LogKept DEF RequestInv
  <1> QED
    BY <1>6, <1>7, <1>8, <1>9, QuietStep

LEMMA ReportKeepsInv ==
    ASSUME RequestInv, NEW h \in Handler, NEW c \in Command, Report(h, c)
    PROVE  RequestInv'
  <1>1. PICK seen \in 0..Len(log) :
          \/ \E x \in sent : x.command = c /\ Send(h, x.key, c, seen)
          \/ /\ \A x \in sent : x.command # c
             /\ Key \ UsedKeys # {} /\ Send(h, FreshKey, c, seen)
    BY DEF Report
  <1>2. seen \in Nat
    BY <1>1 DEF RequestInv, LogInv, TypeOK
  <1>3. PICK k \in Key :
          /\ Send(h, k, c, seen)
          /\ [key |-> k, command |-> c] \in sent \/ \A x \in sent : x.key # k
    <2>1. CASE \E x \in sent : x.command = c /\ Send(h, x.key, c, seen)
      <3>1. PICK x \in sent : x.command = c /\ Send(h, x.key, c, seen)
        BY <2>1
      <3>2. x \in Request
        BY DEF RequestInv, RequestsType
      <3>3. x.key \in Key /\ [key |-> x.key, command |-> c] = x
        BY <3>1, <3>2 DEF Request
      <3> QED
        BY <3>1, <3>3
    <2>2. CASE Key \ UsedKeys # {} /\ Send(h, FreshKey, c, seen)
      BY <2>2, FreshKeyIsFresh
    <2> QED
      BY <1>1, <2>1, <2>2
  <1>4. /\ handlers' \in [Handler -> {None} \cup Work]
        /\ sent' \subseteq Request /\ KeysNameOneCommand'
        /\ Quiet(h) /\ HandlerInv(h)' /\ UNCHANGED <<vars, conflicts>>
    BY <1>2, <1>3, SendKeeps
  <1>5. UNCHANGED tab
    BY DEF Report
  <1>6. RequestsType' /\ PendingWasSent'
    BY <1>4, <1>5
       DEF RequestInv, RequestsType, TabType, PendingWasSent, Quiet
  <1>7. LogInv' /\ UNCHANGED log
    BY <1>4, LogKept DEF RequestInv
  <1> QED
    BY <1>4, <1>6, <1>7, QuietStep

\* What the tab does on its own, and what workers do in Git.
LEMMA TabKeepsInv ==
    ASSUME RequestInv, UNCHANGED <<vars, handlers, sent, conflicts, gitVars>>,
           TabType', tab'.pending \in {None, tab.pending}
    PROVE  RequestInv'
  <1>1. LogInv' /\ UNCHANGED log
    BY LogKept DEF RequestInv
  <1>2. RequestsType' /\ PendingWasSent' /\ KeysNameOneCommand'
    BY DEF RequestInv, RequestsType, PendingWasSent, KeysNameOneCommand
  <1>3. Quiet(None)
    BY DEF Quiet, gitVars
  <1> QED
    BY <1>1, <1>2, <1>3, NoneIsNoHandler, QuietStep

LEMMA SelectKeepsInv ==
    ASSUME RequestInv, NEW n \in Node, Select(n)
    PROVE  RequestInv'
  <1>1. TabType' /\ tab'.pending = tab.pending
    BY DEF RequestInv, RequestsType, TabType, Select
  <1> QED
    BY <1>1, TabKeepsInv DEF Select

LEMMA LoseConnectionKeepsInv ==
    ASSUME RequestInv, LoseConnection
    PROVE  RequestInv'
  <1>1. /\ TabType
        /\ tab' = [tab EXCEPT !.status = "error", !.awaits = None]
        /\ tab.status = "pending"
    BY DEF RequestInv, RequestsType, LoseConnection
  <1>2. /\ tab'.pending = tab.pending /\ tab'.variables = tab.variables
        /\ tab'.awaits = None
    BY <1>1 DEF TabType
  <1>3. TabType'
    BY <1>1, <1>2 DEF TabType
  <1> QED
    BY <1>2, <1>3, TabKeepsInv DEF LoseConnection

LEMMA CloseKeepsInv ==
    ASSUME RequestInv, Close
    PROVE  RequestInv'
  <1>1. TabType' /\ tab'.pending = None
    BY DEF RequestInv, RequestsType, TabType, Close, ClosedTab
  <1> QED
    BY <1>1, TabKeepsInv DEF Close

LEMMA PushKeepsInv ==
    ASSUME RequestInv, NEW b \in branches, NEW s \in Result, Push(b, s)
    PROVE  RequestInv'
  <1>1. LogInv' /\ UNCHANGED log
    BY LogKept DEF RequestInv, Push
  <1>2. RequestsType' /\ PendingWasSent' /\ KeysNameOneCommand'
    BY DEF RequestInv, RequestsType, TabType, PendingWasSent,
           KeysNameOneCommand, Push
  <1>3. Quiet(None)
    BY DEF Quiet, Push
  <1> QED
    BY <1>1, <1>2, <1>3, NoneIsNoHandler, QuietStep

-----------------------------------------------------------------------------
(* Handlers *)

\* A request that is answered, its handler done.
LEMMA RespondKeepsInv ==
    ASSUME RequestInv, LogInv', UNCHANGED log, UNCHANGED gitVars,
           NEW h \in Handler, handlers[h] # None, NEW verdict,
           Respond(h, verdict)
    PROVE  RequestInv'
  <1>1. /\ RequestsType' /\ PendingWasSent' /\ KeysNameOneCommand'
        /\ HandlerInv(h)' /\ sent' = sent
        /\ \A g \in Handler \ {h} : handlers'[g] = handlers[g]
    BY RespondKeeps DEF RequestInv
  <1>2. Quiet(h)
    BY <1>1 DEF Quiet, gitVars
  <1> QED
    BY <1>1, <1>2, QuietStep

\* A request that goes on, prepared for its next stage.
LEMMA AdvanceKeepsInv ==
    ASSUME RequestInv, UNCHANGED vars,
           branches \subseteq branches', pushed \subseteq pushed',
           anchors \subseteq anchors',
           NEW h \in Handler, handlers[h] # None, NEW stage \in Stage,
           Advance(h, stage),
           Prepared(handlers'[h], LogPast', branches', pushed', anchors')
    PROVE  RequestInv'
  <1>1. LogInv' /\ UNCHANGED log
    BY LogKept DEF RequestInv
  <1>2. /\ RequestsType' /\ PendingWasSent' /\ KeysNameOneCommand'
        /\ sent' = sent
        /\ \A g \in Handler \ {h} : handlers'[g] = handlers[g]
        /\ handlers'[h].command = handlers[h].command
        /\ handlers'[h].key = handlers[h].key
    BY AdvanceKeeps DEF RequestInv
  <1>3. [key |-> handlers[h].key, command |-> handlers[h].command] \in sent
    BY DEF RequestInv, HandlerInv
  <1>4. Quiet(h) /\ HandlerInv(h)'
    BY <1>2, <1>3 DEF Quiet, HandlerInv
  <1> QED
    BY <1>1, <1>2, <1>4, QuietStep

LEMMA LoadKeepsInv ==
    ASSUME RequestInv, NEW h \in Handler, Load(h)
    PROVE  RequestInv'
  <1> DEFINE r == handlers[h]
  <1>1. /\ r # None /\ r.command.type \in {"StartRun", "CompleteRun"}
        /\ UNCHANGED <<vars, gitVars>>
    BY DEF Load
  <1>2. LogInv' /\ UNCHANGED log /\ LogPast' = LogPast
    BY <1>1, LogKept, SamePast DEF RequestInv
  <1>3. PICK v \in 0..Len(log) :
          IF AfterLoad(r, v) \in {"failed", "conflict"}
          THEN Respond(h, AfterLoad(r, v)) ELSE Advance(h, AfterLoad(r, v))
    BY DEF Load
  <1> DEFINE stage == AfterLoad(r, v)
  <1>4. CASE stage \in {"failed", "conflict"}
    BY <1>1, <1>2, <1>3, <1>4, RespondKeepsInv
  <1>5. CASE stage \notin {"failed", "conflict"}
    <2>1. Advance(h, stage)
      BY <1>3, <1>5
    <2>2. r.command \in Command
      BY <1>1 DEF RequestInv, RequestsType, Work
    <2>3. /\ stage \in {"branch", "verify", "replay"}
          /\ stage = "branch" => r.command.type = "StartRun"
          /\ stage \in {"verify", "replay"} => r.command.type = "CompleteRun"
          /\ stage = "replay" => r.command \in PastTo(v)
      BY <1>1, <1>5, <2>2, CommandShape
         DEF AfterLoad, Preflight, Refusal, CompletedWith
    <2>4. PastTo(v) \subseteq LogPast
      <3>1. Len(log) \in Nat
        BY DEF RequestInv, LogInv, TypeOK
      <3> QED
        BY <3>1, PastGrows DEF RequestInv
    <2> HIDE DEF stage
    <2>5. stage \in Stage
      BY <2>3 DEF Stage
    <2>6. handlers'[h].command = r.command /\ handlers'[h].stage = stage
      BY <1>1, <2>1, <2>5, AdvanceKeeps DEF RequestInv
    <2>7. Prepared(handlers'[h], LogPast', branches', pushed', anchors')
      BY <1>2, <2>3, <2>4, <2>6 DEF Prepared
    <2> QED
      BY <1>1, <2>1, <2>5, <2>7, AdvanceKeepsInv DEF gitVars
  <1> QED
    BY <1>4, <1>5

LEMMA CreateRunBranchKeepsInv ==
    ASSUME RequestInv, NEW h \in Handler, CreateRunBranch(h)
    PROVE  RequestInv'
  <1> DEFINE c == handlers[h].command
  <1>1. /\ handlers[h] # None /\ handlers[h].stage = "branch"
        /\ branches' = branches \cup {<<c.node, c.run>>}
        /\ Advance(h, "append") /\ UNCHANGED <<vars, pushed, anchors>>
    BY DEF CreateRunBranch
  <1>2. c.type = "StartRun"
    BY <1>1 DEF RequestInv, HandlerInv, Prepared
  <1>3. "append" \in Stage
    BY DEF Stage
  <1>4. handlers'[h].command = c /\ handlers'[h].stage = "append"
    BY <1>1, <1>3, AdvanceKeeps DEF RequestInv
  <1>5. Prepared(handlers'[h], LogPast', branches', pushed', anchors')
    BY <1>1, <1>2, <1>4 DEF Prepared
  <1> QED
    BY <1>1, <1>3, <1>5, AdvanceKeepsInv

LEMMA VerifyRunResultKeepsInv ==
    ASSUME RequestInv, NEW h \in Handler, VerifyRunResult(h)
    PROVE  RequestInv'
  <1> DEFINE c == handlers[h].command
  <1>1. /\ handlers[h] # None /\ handlers[h].stage = "verify"
        /\ UNCHANGED <<vars, gitVars>>
    BY DEF VerifyRunResult
  <1>2. c.type = "CompleteRun"
    BY <1>1 DEF RequestInv, HandlerInv, Prepared
  <1>3. LogInv' /\ UNCHANGED log /\ LogPast' = LogPast
    BY <1>1, LogKept, SamePast DEF RequestInv
  <1>4. CASE OnBranch(LogPast, pushed, c)
    <2>1. Advance(h, "anchor")
      BY <1>4 DEF VerifyRunResult, OnBranch
    <2>2. "anchor" \in Stage
      BY DEF Stage
    <2>3. handlers'[h].command = c /\ handlers'[h].stage = "anchor"
      BY <1>1, <2>1, <2>2, AdvanceKeeps DEF RequestInv
    <2>4. OnBranch(LogPast', pushed', c)
      BY <1>1, <1>3, <1>4 DEF gitVars
    <2>5. Prepared(handlers'[h], LogPast', branches', pushed', anchors')
      BY <1>2, <2>3, <2>4 DEF Prepared
    <2> QED
      BY <1>1, <2>1, <2>2, <2>5, AdvanceKeepsInv DEF gitVars
  <1>5. CASE ~OnBranch(LogPast, pushed, c)
    <2>1. Respond(h, "failed")
      BY <1>5 DEF VerifyRunResult, OnBranch
    <2> QED
      BY <1>1, <1>3, <2>1, RespondKeepsInv
  <1> QED
    BY <1>4, <1>5

LEMMA AnchorNodeKeepsInv ==
    ASSUME RequestInv, NEW h \in Handler, AnchorNode(h)
    PROVE  RequestInv'
  <1> DEFINE c == handlers[h].command
  <1>1. /\ handlers[h] # None /\ handlers[h].stage = "anchor"
        /\ anchors' = anchors \cup {c.result}
        /\ Advance(h, "append") /\ UNCHANGED <<vars, branches, pushed>>
    BY DEF AnchorNode
  <1>2. c.type = "CompleteRun" /\ OnBranch(LogPast, pushed, c)
    BY <1>1 DEF RequestInv, HandlerInv, Prepared
  <1>3. "append" \in Stage
    BY DEF Stage
  <1>4. handlers'[h].command = c /\ handlers'[h].stage = "append"
    BY <1>1, <1>3, AdvanceKeeps DEF RequestInv
  <1>5. LogPast' = LogPast
    BY <1>1, SamePast DEF vars
  <1>6. Prepared(handlers'[h], LogPast', branches', pushed', anchors')
    BY <1>1, <1>2, <1>4, <1>5 DEF Prepared
  <1> QED
    BY <1>1, <1>3, <1>6, AdvanceKeepsInv

LEMMA FailKeepsInv ==
    ASSUME RequestInv, NEW h \in Handler, Fail(h)
    PROVE  RequestInv'
  <1>1. LogInv' /\ UNCHANGED log
    BY LogKept DEF RequestInv, Fail
  <1> QED
    BY <1>1, RespondKeepsInv DEF Fail

\* The batch of a request in work, or of the placeholder, goes on a log that
\* Git is prepared for.
LEMMA RecordKeepsRequests ==
    ASSUME RequestInv, NEW h \in Handler, handlers[h] # None,
           \/ handlers[h].stage \in {"append", "replay"}
           \/ /\ handlers[h].stage = "sent"
              /\ handlers[h].command.type \notin {"StartRun", "CompleteRun"},
           Record(TheProject, handlers[h].key, Decided(handlers[h])),
           Advance(h, "append"), UNCHANGED gitVars
    PROVE  /\ RequestInv' /\ Decided(handlers[h]) \in Command
  <1> DEFINE r == handlers[h]
             c == r.command
             d == Decided(r)
  <1>1. r \in Work /\ c \in Command /\ r.key \in Key
    BY DEF RequestInv, RequestsType, Work
  <1>2. Prepared(r, LogPast, branches, pushed, anchors)
    BY DEF RequestInv, HandlerInv
  <1>3. /\ r.stage = "replay" => c.type = "CompleteRun" /\ d = FailRun(c.run)
        /\ r.stage # "replay" => d = c
    BY <1>2 DEF Prepared, Decided
  <1>4. d \in Command
    BY <1>1, <1>3, CommandShape, CommandsMade DEF CompleteRun
  <1>5. c.type \in {"StartRun", "CompleteRun"}
        => r.stage \in {"append", "replay"}
    OBVIOUS
  <1>6. Record(TheProject, r.key, d)
    OBVIOUS
  <1> HIDE DEF d
  <1>7. LogInv'
    BY <1>1, <1>4, <1>6, ProjectOfLog, RecordKeepsInv DEF RequestInv
  <1>8. LogPast' = LogPast \cup {d} /\ LogIsOfProject'
    BY <1>1, <1>4, <1>6, RecordGrowsPast DEF RequestInv
  <1>9. "append" \in Stage
    BY DEF Stage
  <1>10. /\ RequestsType' /\ PendingWasSent' /\ KeysNameOneCommand'
         /\ sent' = sent
         /\ \A g \in Handler \ {h} : handlers'[g] = handlers[g]
         /\ handlers'[h].command = c /\ handlers'[h].key = r.key
         /\ handlers'[h].stage = "append"
    BY <1>9, AdvanceKeeps DEF RequestInv
  <1>11. branches' = branches /\ pushed' = pushed /\ anchors' = anchors
    BY DEF gitVars
  <1>12. Quiet(h)
    BY <1>10, <1>11 DEF Quiet
  <1>13. \A g \in Handler \ {h} : HandlerInv(g)'
    BY <1>8, <1>12, OthersKept
  <1>14. /\ c.type = "StartRun" => <<c.node, c.run>> \in branches
         /\ c.type = "CompleteRun" =>
              OnBranch(LogPast, pushed, c) /\ c.result \in anchors
    <2>1. CASE r.stage = "append"
      BY <1>2, <2>1 DEF Prepared
    <2>2. CASE r.stage = "replay"
      <3>1. c \in LogPast /\ c.type = "CompleteRun"
        BY <1>2, <2>2 DEF Prepared
      <3> QED
        BY <3>1 DEF RequestInv, GitPrecedesLog, OnBranch
    <2> QED
      BY <1>5, <2>1, <2>2
  <1>15. HandlerInv(h)'
    <2>1. [key |-> r.key, command |-> c] \in sent
      BY DEF RequestInv, HandlerInv
    <2>2. c.type = "CompleteRun" => OnBranch(LogPast', pushed', c)
      BY <1>8, <1>11, <1>14, OnBranchStays
    <2>3. Prepared(handlers'[h], LogPast', branches', pushed', anchors')
      BY <1>10, <1>11, <1>14, <2>2 DEF Prepared
    <2> QED
      BY <1>10, <2>1, <2>3 DEF HandlerInv
  <1>16. GitPrecedesLog'
    <2> SUFFICES ASSUME NEW x \in LogPast \cup {d}
                 PROVE  /\ x.type = "StartRun" => <<x.node, x.run>> \in branches
                        /\ x.type = "CompleteRun" =>
                             /\ x.result \in anchors
                             /\ OnBranch(LogPast \cup {d}, pushed, x)
      BY <1>8, <1>11 DEF GitPrecedesLog, OnBranch
    <2>1. CASE x \in LogPast
      BY <2>1 DEF RequestInv, GitPrecedesLog, OnBranch, Starts
    <2>2. CASE x = d
      <3>1. CASE r.stage = "replay"
        BY <1>3, <2>2, <3>1 DEF FailRun
      <3>2. CASE r.stage # "replay"
        <4>1. x = c
          BY <1>3, <2>2, <3>2
        <4>2. c.type = "CompleteRun" => OnBranch(LogPast \cup {d}, pushed, c)
          BY <1>14, OnBranchStays
        <4> QED
          BY <1>14, <4>1, <4>2
      <3> QED
        BY <3>1, <3>2
    <2> QED
      BY <2>1, <2>2
  <1> QED
    BY <1>4, <1>7, <1>8, <1>10, <1>13, <1>15, <1>16 DEF RequestInv, d

\* The request may be appended.
Appends(r) ==
    \/ r.stage \in {"append", "replay"}
    \/ r.stage = "sent" /\ r.command.type \notin {"StartRun", "CompleteRun"}

\* The ways in which an append ends, on the snapshot at head v.
LEMMA AppendCases ==
    ASSUME RequestInv, NEW h \in Handler, AppendBatch(h)
    PROVE  /\ handlers[h] # None /\ UNCHANGED gitVars /\ Appends(handlers[h])
           /\ \/ /\ UNCHANGED vars
                 /\ (Respond(h, "ok") \/ Respond(h, "failed"))
              \/ /\ UNCHANGED vars /\ Respond(h, "conflict")
                 /\ \E i \in 1..Len(log) :
                       /\ log[i].key = handlers[h].key
                       /\ log[i].command # handlers[h].command
              \/ \E v \in 0..Len(log) :
                    /\ \A i \in 1..v : log[i].key # handlers[h].key
                    /\ UNCHANGED vars
                    /\ Respond(h, Refusal(PastTo(v), Decided(handlers[h])))
              \/ /\ Record(TheProject, handlers[h].key, Decided(handlers[h]))
                 /\ Advance(h, "append")
  <1> DEFINE r == handlers[h]
  <1>1. r # None /\ UNCHANGED gitVars /\ Appends(r)
    BY DEF AppendBatch, Appends
  <1>2. PICK v \in 0..Len(log) :
          LET used == {i \in 1..v : UsedAt(log, TheProject, r.key, i)}
              accepted == Accepts(View(log, TheProject, v), Decided(r))
          IN
          \/ \E i \in used :
               /\ UNCHANGED vars
               /\ Respond(h, IF log[i].command = r.command
                             THEN "ok" ELSE "conflict")
          \/ /\ used = {}
             /\ r.expected # v \/ (accepted /\ v # Len(log))
             /\ UNCHANGED vars /\ Respond(h, "failed")
          \/ /\ used = {} /\ r.expected = v /\ ~accepted
             /\ UNCHANGED vars
             /\ Respond(h, Refusal(PastTo(v), Decided(r)))
          \/ /\ r.expected = v /\ v = Len(log)
             /\ Record(TheProject, r.key, Decided(r)) /\ Advance(h, "append")
    BY DEF AppendBatch
  <1>3. Len(log) \in Nat /\ \A i \in 1..Len(log) : log[i].project = TheProject
    BY DEF RequestInv, LogInv, TypeOK, LogIsOfProject
  <1> DEFINE used == {i \in 1..v : UsedAt(log, TheProject, r.key, i)}
  <1>4. used = {} => \A i \in 1..v : log[i].key # r.key
    BY <1>3 DEF UsedAt
  <1>5. \A i \in used : i \in 1..Len(log) /\ log[i].key = r.key
    BY <1>3 DEF UsedAt
  <1>6. \/ \E i \in used :
              /\ UNCHANGED vars
              /\ Respond(h, IF log[i].command = r.command
                            THEN "ok" ELSE "conflict")
        \/ UNCHANGED vars /\ Respond(h, "failed")
        \/ /\ used = {} /\ UNCHANGED vars
           /\ Respond(h, Refusal(PastTo(v), Decided(r)))
        \/ Record(TheProject, r.key, Decided(r)) /\ Advance(h, "append")
    BY <1>2
  <1> HIDE DEF used
  <1> QED
    BY <1>1, <1>4, <1>5, <1>6

LEMMA AppendBatchKeepsInv ==
    ASSUME RequestInv, NEW h \in Handler, AppendBatch(h)
    PROVE  RequestInv'
  <1>1. handlers[h] # None /\ UNCHANGED gitVars /\ Appends(handlers[h])
    BY AppendCases
  <1>2. ASSUME NEW verdict, UNCHANGED vars, Respond(h, verdict)
        PROVE  RequestInv'
    <2>1. LogInv' /\ UNCHANGED log
      BY <1>2, LogKept DEF RequestInv
    <2> QED
      BY <1>1, <1>2, <2>1, RespondKeepsInv
  <1>3. CASE /\ Record(TheProject, handlers[h].key, Decided(handlers[h]))
             /\ Advance(h, "append")
    BY <1>1, <1>3, RecordKeepsRequests DEF Appends
  <1> QED
    BY <1>2, <1>3, AppendCases

\* RequestInv is inductive.
LEMMA RequestInvInit == RunInit => RequestInv
  <1> SUFFICES ASSUME RunInit PROVE RequestInv
    OBVIOUS
  <1>1. LogInv /\ LogIsOfProject /\ LogPast = {}
    BY DEF RunInit, LogInv, TypeOK, AppliedOnce, EveryBatchAccepted,
           LogIsOfProject, LogPast, PastTo
  <1>2. RequestsType /\ PendingWasSent /\ KeysNameOneCommand
    BY DEF RunInit, RequestsType, TabType, ClosedTab, PendingWasSent,
           KeysNameOneCommand
  <1>3. (\A h \in Handler : HandlerInv(h)) /\ GitPrecedesLog
    BY <1>1 DEF RunInit, HandlerInv, GitPrecedesLog
  <1> QED
    BY <1>1, <1>2, <1>3 DEF RequestInv

LEMMA RequestInvStep == RequestInv /\ [RunNext]_allVars => RequestInv'
  <1> SUFFICES ASSUME RequestInv, [RunNext]_allVars PROVE RequestInv'
    OBVIOUS
  <1>1. ASSUME NEW h \in Handler, NEW g \in GoalsOf[tab.node],
               NEW r \in RunId, Click(h, g, r)
        PROVE  RequestInv'
    <2>1. g \in Goals
      BY DEF Goals, RequestInv, RequestsType, TabType
    <2> QED
      BY <1>1, <2>1, SubmitKeepsInv DEF Click
  <1>2. ASSUME NEW h \in Handler, Retry(h) PROVE RequestInv'
    <2>1. tab.variables \in Variables
      BY <1>2 DEF Retry, RequestInv, RequestsType, TabType
    <2> QED
      BY <1>2, <2>1, SubmitKeepsInv DEF Retry, Variables
  <1>3. ASSUME NEW h \in Handler, NEW c \in Command, Report(h, c)
        PROVE  RequestInv'
    BY <1>3, ReportKeepsInv
  <1>4. ASSUME NEW h \in Handler,
               \/ Load(h) \/ CreateRunBranch(h) \/ VerifyRunResult(h)
               \/ AnchorNode(h) \/ AppendBatch(h) \/ Fail(h)
        PROVE  RequestInv'
    BY <1>4, LoadKeepsInv, CreateRunBranchKeepsInv, VerifyRunResultKeepsInv,
       AnchorNodeKeepsInv, AppendBatchKeepsInv, FailKeepsInv
  <1>5. ASSUME NEW n \in Node, Select(n) PROVE RequestInv'
    BY <1>5, SelectKeepsInv
  <1>6. CASE LoseConnection \/ Close
    BY <1>6, LoseConnectionKeepsInv, CloseKeepsInv
  <1>7. ASSUME NEW b \in branches, NEW s \in Result, Push(b, s)
        PROVE  RequestInv'
    BY <1>7, PushKeepsInv
  <1>8. CASE UNCHANGED allVars
    <2>1. UNCHANGED <<vars, handlers, tab, sent, conflicts, gitVars>>
      BY <1>8 DEF allVars
    <2>2. TabType'
      BY <2>1 DEF RequestInv, RequestsType, TabType
    <2> QED
      BY <2>1, <2>2, TabKeepsInv
  <1> QED
    BY <1>1, <1>2, <1>3, <1>4, <1>5, <1>6, <1>7, <1>8 DEF RunNext

-----------------------------------------------------------------------------
(* Conflicts *)

LEMMA ConflictsKept ==
    ASSUME ConflictInv, UNCHANGED log, conflicts' = conflicts
    PROVE  ConflictInv'
  BY SamePast DEF ConflictInv, ClosedOrUsed, ConflictsAreTrue

\* A conflict is sound if the command is closed, or its key used for another
\* one, and is not recorded under its key.
LEMMA RespondKeepsConflicts ==
    ASSUME ConflictInv, UNCHANGED log, NEW h, NEW verdict, Respond(h, verdict),
           verdict = "conflict" =>
             /\ \/ Closed(LogPast, handlers[h].command)
                \/ \E i \in 1..Len(log) : log[i].key = handlers[h].key
             /\ \A i \in 1..Len(log) :
                   log[i].key = handlers[h].key
                   => log[i].command # handlers[h].command
    PROVE  ConflictInv'
  <1> DEFINE x == [key |-> handlers[h].key, command |-> handlers[h].command]
  <1>1. /\ LogPast' = LogPast
        /\ conflicts' = IF verdict # "conflict" THEN conflicts
                        ELSE conflicts \cup {x}
    BY SamePast DEF Respond
  <1>2. x.key = handlers[h].key /\ x.command = handlers[h].command
    OBVIOUS
  <1> HIDE DEF x
  <1> QED
    BY <1>1, <1>2 DEF ConflictInv, ClosedOrUsed, ConflictsAreTrue

\* What is in conflict is not recorded by another copy of the request.
LEMMA RecordKeepsConflicts ==
    ASSUME EngineDecides, RequestInv, ConflictInv,
           NEW k \in Key, NEW c \in Command, Record(TheProject, k, c),
           conflicts' = conflicts
    PROVE  ConflictInv'
  <1>1. /\ LogPast' = LogPast \cup {c}
        /\ Len(log) \in Nat /\ Len(log') = Len(log) + 1
        /\ \A i \in 1..Len(log) : log'[i] = log[i]
        /\ log'[Len(log) + 1].key = k /\ log'[Len(log) + 1].command = c
    BY RecordGrowsPast DEF RequestInv
  <1>2. ~Closed(LogPast, c)
    <2>1. Decides(View(log, TheProject, Len(log)), c)
      BY DEF Record, EngineDecides
    <2>2. Len(log) \in 0..Len(log)
      BY <1>1
    <2> QED
      BY <2>1, <2>2, ClosedIsUndecided DEF RequestInv, LogPast
  <1>3. \A i \in 1..Len(log) : log[i].key # k
    BY DEF Record, UsedAt, RequestInv, LogIsOfProject
  <1>4. ClosedOrUsed'
    <2> SUFFICES ASSUME NEW x \in conflicts
                 PROVE  \/ Closed(LogPast', x.command)
                        \/ \E i \in 1..Len(log') : log'[i].key = x.key
      BY DEF ClosedOrUsed
    <2>1. CASE Closed(LogPast, x.command)
      BY <1>1, <2>1, ClosedStays
    <2>2. CASE \E i \in 1..Len(log) : log[i].key = x.key
      BY <1>1, <2>2
    <2> QED
      BY <2>1, <2>2 DEF ConflictInv, ClosedOrUsed
  <1>5. ConflictsAreTrue'
    <2> SUFFICES ASSUME NEW x \in conflicts, NEW i \in 1..Len(log'),
                        log'[i].key = x.key, log'[i].command = x.command
                 PROVE  FALSE
      BY DEF ConflictsAreTrue
    <2>1. CASE i \in 1..Len(log)
      BY <1>1, <2>1 DEF ConflictInv, ConflictsAreTrue
    <2>2. CASE i = Len(log) + 1
      <3>1. x.key = k /\ x.command = c
        BY <1>1, <2>2
      <3> QED
        BY <1>2, <1>3, <3>1 DEF ConflictInv, ClosedOrUsed
    <2> QED
      BY <1>1, <2>1, <2>2
  <1> QED
    BY <1>4, <1>5 DEF ConflictInv

\* A conflict told from the first v batches: the key is used there for another
\* command, or is not used there and the command is closed.
LEMMA ConflictOfSnapshot ==
    ASSUME EngineDecides, RequestInv, NEW v \in 0..Len(log),
           NEW k, NEW c \in Command,
           \/ \E i \in 1..v : log[i].key = k /\ log[i].command # c
           \/ /\ Closed(PastTo(v), c)
              /\ \A i \in 1..v : log[i].key = k => log[i].command # c
    PROVE  /\ \/ Closed(LogPast, c)
              \/ \E i \in 1..Len(log) : log[i].key = k
           /\ \A i \in 1..Len(log) : log[i].key = k => log[i].command # c
  <1>0. Len(log) \in Nat /\ LogInv /\ LogIsOfProject
    BY DEF RequestInv, LogInv, TypeOK
  <1>1. CASE \E i \in 1..v : log[i].key = k /\ log[i].command # c
    <2>1. PICK i \in 1..v : log[i].key = k /\ log[i].command # c
      BY <1>1
    <2>2. i \in 1..Len(log)
      BY <1>0
    <2>3. \A j \in 1..Len(log) : log[j].key = k => j = i
      BY <1>0, <2>1, <2>2 DEF LogInv, AppliedOnce, LogIsOfProject
    <2> QED
      BY <2>1, <2>2, <2>3
  <1>2. CASE /\ Closed(PastTo(v), c)
             /\ \A i \in 1..v : log[i].key = k => log[i].command # c
    <2>1. /\ Closed(LogPast, c)
          /\ \A i \in (v + 1)..Len(log) : log[i].command # c
      BY <1>0, <1>2, ClosedIsNotRecorded
    <2>2. \A i \in 1..Len(log) : i \in 1..v \/ i \in (v + 1)..Len(log)
      BY <1>0
    <2> QED
      BY <1>2, <2>1, <2>2
  <1> QED
    BY <1>1, <1>2

\* When a load answers with a conflict, the snapshot tells it.
LEMMA LoadKeepsConflicts ==
    ASSUME EngineDecides, RequestInv, ConflictInv, NEW h \in Handler, Load(h)
    PROVE  ConflictInv'
  <1> DEFINE r == handlers[h]
             c == r.command
  <1>1. /\ r # None /\ c.type \in {"StartRun", "CompleteRun"}
        /\ UNCHANGED log
    BY DEF Load, vars
  <1>2. c \in Command
    BY <1>1 DEF RequestInv, RequestsType, Work
  <1>3. PICK v \in 0..Len(log) :
          IF AfterLoad(r, v) \in {"failed", "conflict"}
          THEN Respond(h, AfterLoad(r, v)) ELSE Advance(h, AfterLoad(r, v))
    BY DEF Load
  <1>4. CASE AfterLoad(r, v) \notin {"failed", "conflict"}
    <2>1. conflicts' = conflicts
      BY <1>3, <1>4 DEF Advance
    <2> QED
      BY <1>1, <2>1, ConflictsKept
  <1>5. CASE AfterLoad(r, v) = "failed"
    <2>1. Respond(h, "failed")
      BY <1>3, <1>5
    <2> QED
      BY <1>1, <2>1, RespondKeepsConflicts
  <1>6. CASE AfterLoad(r, v) = "conflict"
    <2>1. Respond(h, "conflict")
      BY <1>3, <1>6
    <2>2. \/ \E i \in 1..v : log[i].key = r.key /\ log[i].command # c
          \/ /\ Closed(PastTo(v), c)
             /\ \A i \in 1..v : log[i].key = r.key => log[i].command # c
      <3>1. CASE c.type = "StartRun"
        <4>1. Preflight(r, v) = "conflict"
          BY <1>6, <3>1 DEF AfterLoad
        <4>2. CASE \E i \in 1..v : log[i].key = r.key
          BY <4>1, <4>2 DEF Preflight
        <4>3. CASE \A i \in 1..v : log[i].key # r.key
          <5>1. Refusal(PastTo(v), c) = "conflict"
            BY <4>1, <4>3 DEF Preflight
          <5>2. Closed(PastTo(v), c)
            BY <1>2, <5>1, ContradictedIsClosed DEF Refusal
          <5> QED
            BY <4>3, <5>2
        <4> QED
          BY <4>2, <4>3
      <3>2. CASE c.type = "CompleteRun"
        <4>1. /\ Starts(PastTo(v), c.run) # {}
              /\ ~Running(PastTo(v), c.run)
              /\ ~CompletedWith(PastTo(v), c.run, c.result)
          BY <1>6, <3>2 DEF AfterLoad
        <4>2. Closed(PastTo(v), c)
          BY <3>2, <4>1 DEF Closed
        <4>3. c \notin PastTo(v)
          BY <1>2, <3>2, <4>1, CommandShape DEF CompletedWith
        <4> QED
          BY <4>2, <4>3 DEF PastTo
      <3> QED
        BY <1>1, <3>1, <3>2
    <2>3. /\ \/ Closed(LogPast, c)
             \/ \E i \in 1..Len(log) : log[i].key = r.key
          /\ \A i \in 1..Len(log) : log[i].key = r.key => log[i].command # c
      BY <1>2, <2>2, ConflictOfSnapshot
    <2> QED
      BY <1>1, <2>1, <2>3, RespondKeepsConflicts
  <1> QED
    BY <1>4, <1>5, <1>6

LEMMA AppendBatchKeepsConflicts ==
    ASSUME EngineDecides, RequestInv, ConflictInv,
           NEW h \in Handler, AppendBatch(h)
    PROVE  ConflictInv'
  <1> DEFINE r == handlers[h]
             c == r.command
  <1>1. r # None /\ r \in Work /\ c \in Command /\ Appends(r)
    BY AppendCases DEF RequestInv, RequestsType, Work
  <1>2. ASSUME UNCHANGED vars, NEW verdict, verdict # "conflict",
               Respond(h, verdict)
        PROVE  ConflictInv'
    <2>1. UNCHANGED log
      BY <1>2 DEF vars
    <2> QED
      BY <1>2, <2>1, RespondKeepsConflicts
  <1>3. ASSUME NEW v \in 0..Len(log), UNCHANGED vars, Respond(h, "conflict"),
               \/ \E i \in 1..v : log[i].key = r.key /\ log[i].command # c
               \/ /\ Closed(PastTo(v), c)
                  /\ \A i \in 1..v : log[i].key = r.key => log[i].command # c
        PROVE  ConflictInv'
    <2>1. UNCHANGED log
      BY <1>3 DEF vars
    <2>2. /\ \/ Closed(LogPast, c)
             \/ \E i \in 1..Len(log) : log[i].key = r.key
          /\ \A i \in 1..Len(log) : log[i].key = r.key => log[i].command # c
      BY <1>1, <1>3, ConflictOfSnapshot
    <2> QED
      BY <1>3, <2>1, <2>2, RespondKeepsConflicts
  <1>4. CASE /\ UNCHANGED vars /\ Respond(h, "conflict")
             /\ \E i \in 1..Len(log) : log[i].key = r.key /\ log[i].command # c
    <2>1. Len(log) \in 0..Len(log)
      BY DEF RequestInv, LogInv, TypeOK
    <2> QED
      BY <1>3, <1>4, <2>1
  <1>5. ASSUME NEW v \in 0..Len(log),
               \A i \in 1..v : log[i].key # r.key,
               UNCHANGED vars, Respond(h, Refusal(PastTo(v), Decided(r)))
        PROVE  ConflictInv'
    <2>1. CASE ~Contradicted(PastTo(v), Decided(r))
      BY <1>2, <1>5, <2>1 DEF Refusal
    <2>2. CASE Contradicted(PastTo(v), Decided(r))
      <3>1. Closed(PastTo(v), c)
        <4>1. CASE r.stage = "replay"
          <5>1. c.type = "CompleteRun" /\ Decided(r) = FailRun(c.run)
            BY <1>1, <4>1 DEF RequestInv, HandlerInv, Prepared, Decided
          <5>2. FailRun(c.run).type = "FailRun" /\ FailRun(c.run).run = c.run
            BY DEF FailRun
          <5>3. Starts(PastTo(v), c.run) # {} /\ ~Running(PastTo(v), c.run)
            BY <2>2, <5>1, <5>2 DEF Contradicted
          <5> QED
            BY <5>1, <5>3 DEF Closed
        <4>2. CASE r.stage # "replay"
          BY <1>1, <2>2, <4>2, ContradictedIsClosed DEF Decided
        <4> QED
          BY <4>1, <4>2
      <3>2. Respond(h, "conflict")
        BY <1>5, <2>2 DEF Refusal
      <3> QED
        BY <1>3, <1>5, <3>1, <3>2
    <2> QED
      BY <2>1, <2>2
  <1>6. CASE Record(TheProject, r.key, Decided(r)) /\ Advance(h, "append")
    <2>1. Decided(r) \in Command
      BY <1>1, <1>6, AppendCases, RecordKeepsRequests DEF Appends
    <2>2. r.key \in Key /\ conflicts' = conflicts
      BY <1>1, <1>6 DEF Work, Advance
    <2> QED
      BY <1>6, <2>1, <2>2, RecordKeepsConflicts
  <1>7. "ok" # "conflict" /\ "failed" # "conflict"
    OBVIOUS
  <1> QED
    BY <1>2, <1>4, <1>5, <1>6, <1>7, AppendCases

LEMMA ConflictInvInit == RunInit => ConflictInv
  BY DEF RunInit, ConflictInv, ClosedOrUsed, ConflictsAreTrue

LEMMA ConflictInvStep ==
    ASSUME EngineDecides
    PROVE  RequestInv /\ ConflictInv /\ [RunNext]_allVars => ConflictInv'
  <1> SUFFICES ASSUME RequestInv, ConflictInv, [RunNext]_allVars
               PROVE  ConflictInv'
    OBVIOUS
  <1>1. ASSUME NEW h \in Handler, NEW k, NEW c, NEW seen, Send(h, k, c, seen)
        PROVE  ConflictInv'
    BY <1>1, ConflictsKept DEF Send, vars
  <1>2. ASSUME NEW h \in Handler,
               \/ \E g, r : Submit(h, g, r)
               \/ \E c \in Command : Report(h, c)
        PROVE  ConflictInv'
    BY <1>1, <1>2 DEF Submit, Report
  <1>3. ASSUME NEW h \in Handler, Load(h) \/ AppendBatch(h)
        PROVE  ConflictInv'
    BY <1>3, LoadKeepsConflicts, AppendBatchKeepsConflicts
  <1>4. ASSUME NEW h \in Handler,
               CreateRunBranch(h) \/ AnchorNode(h) \/ VerifyRunResult(h)
               \/ Fail(h)
        PROVE  ConflictInv'
    <2>1. /\ UNCHANGED log
          /\ conflicts' = conflicts \/ Respond(h, "failed")
      BY <1>4 DEF CreateRunBranch, AnchorNode, VerifyRunResult, Fail,
                  Advance, vars
    <2> QED
      BY <2>1, ConflictsKept, RespondKeepsConflicts
  <1>5. CASE \/ \E n \in Node : Select(n)
             \/ LoseConnection \/ Close
             \/ \E b \in branches, s \in Result : Push(b, s)
             \/ UNCHANGED allVars
    <2>1. UNCHANGED log /\ conflicts' = conflicts
      BY <1>5 DEF Select, LoseConnection, Close, Push, allVars, vars
    <2> QED
      BY <2>1, ConflictsKept
  <1> QED
    BY <1>2, <1>3, <1>4, <1>5 DEF RunNext, Click, Retry

-----------------------------------------------------------------------------
(* Theorems *)

\* The invariant from which the promises below are read off.
THEOREM RequestInvariant == RunSpec => []RequestInv
  BY RequestInvInit, RequestInvStep, PTL DEF RunSpec

\* However a tab selects, retries and loses connections, no two commands are
\* sent under one key (logicalSubmissionKey.ts).
THEOREM KeysStandForCommands == RunSpec => []KeysNameOneCommand
  <1>1. RequestInv => KeysNameOneCommand
    BY DEF RequestInv
  <1> QED
    BY <1>1, RequestInvariant, PTL

\* A started Run has its branch, a completed one its result on that branch and
\* anchored, whatever fails between the calls of #startRun and #completeRun.
THEOREM GitIsAheadOfLog == RunSpec => []GitPrecedesLog
  <1>1. RequestInv => GitPrecedesLog
    BY DEF RequestInv
  <1> QED
    BY <1>1, RequestInvariant, PTL

\* If the log asks the engine, a request that was answered with a conflict is
\* not on the log and never will be, through no copy of it and however old the
\* snapshot was that the conflict was told from.
THEOREM ConflictsStand ==
    ASSUME EngineDecides
    PROVE  RunSpec => []ConflictsAreTrue
  <1>1. RequestInv /\ ConflictInv /\ [RunNext]_allVars => ConflictInv'
    BY ConflictInvStep
  <1>2. ConflictInv => ConflictsAreTrue
    BY DEF ConflictInv
  <1> QED
    BY <1>1, <1>2, ConflictInvInit, RequestInvariant, PTL DEF RunSpec
=============================================================================
