--------------------------- MODULE ProjectCommands --------------------------
(***************************************************************************)
(* The metadata of the commands of ProjectCore: what decideProjectCommand  *)
(* checks of it, and what the application service fills in (#mutate and    *)
(* commandMetadata).  The decider alone takes what replay refuses: a used  *)
(* event id under a fresh key, or a root Node with a registeredAt that is  *)
(* not the time of the command.  The service makes neither.                *)
(***************************************************************************)
EXTENDS ProjectCore, Sequences

CONSTANTS
    Key,            \* idempotency keys of requests
    Semantic,       \* what a request asks for
    Timestamp

VARIABLES
    processedCommands,  \* of ProjectState: key, fingerprint and event ids
    registrations       \* of each Node: its registeredAt, and the recordedAt
                        \* of the event that registered it

commandVars == <<vars, processedCommands, registrations>>

-----------------------------------------------------------------------------
(* The decider *)

IsProcessed(eventId) ==
    \E x \in processedCommands :
        \E j \in DOMAIN x.eventIds : x.eventIds[j] = eventId

\* decideRetry: a command whose key was processed is answered from the state, or
\* refused if it has another fingerprint; only a new one is decided.
NotProcessed(meta) ==
    \A x \in processedCommands : x.idempotencyKey # meta.idempotencyKey

Process(meta, eventIds) ==
    processedCommands' = processedCommands \cup
      {[idempotencyKey |-> meta.idempotencyKey,
        fingerprint |-> meta.fingerprint, eventIds |-> eventIds]}

\* What is accepted of a command that changes the state as it does.  Of the
\* three that register a Node (CreateProject, CompleteRun and
\* ConfirmCoachingProposal) the id of the second event is checked
\* (validateAdditionalEventId), and that the Node has the time of the command
\* (validateNodeContent): not of a root, which is compared with itself.
Accept(meta, nodeEventId, registeredAt) ==
    /\ NotProcessed(meta)
    /\ \/ /\ nodes' = nodes
          /\ Process(meta, <<meta.eventId>>)
          /\ UNCHANGED registrations
       \/ /\ nodes' # nodes
          /\ meta.eventId # nodeEventId /\ ~IsProcessed(nodeEventId)
          /\ \A n \in nodes' \ nodes :
               n.kind # "root" => registeredAt = meta.requestedAt
          /\ Process(meta, <<meta.eventId, nodeEventId>>)
          /\ registrations' = registrations \cup
               {[project |-> n.project, sha |-> n.sha,
                 registeredAt |-> registeredAt,
                 recordedAt |-> meta.requestedAt] : n \in nodes' \ nodes}

-----------------------------------------------------------------------------
(* The application service *)

\* Mutant of domainEventId: the key of the request is left out.
domainEventIdOfSemantic(k, m, i) == <<m, i>>

\* domainEventId: a hash of all three.
domainEventId(k, m, i) == <<k, m, i>>

\* commandMetadata, of the i-th command of a request.
commandMetadata(k, m, i, at) ==
    [eventId |-> domainEventId(k, m, i), idempotencyKey |-> <<k, i>>,
     fingerprint |-> <<m, i>>, requestedAt |-> at]

\* #mutate: a request is one command, but for a completion, which attaches its
\* evidence first, one command for each piece; their indexes count up.  The time
\* is read once, for the metadata and for the Node, whose event takes the index
\* after that of its command.  (A request appends all of its commands at once;
\* here others may come between them.)
Mutation(k, m, i, at) ==
    /\ i # 0 => \E x \in processedCommands :
                    /\ x.idempotencyKey = <<k, i - 1>>
                    /\ x.fingerprint = <<m, i - 1>>
                    /\ Len(x.eventIds) = 1
    /\ Accept(commandMetadata(k, m, i, at), domainEventId(k, m, i + 1), at)

\* Every command of ProjectCore, with the metadata of a request.
CommandNext ==
    /\ Next
    /\ \E k \in Key, m \in Semantic, i \in Nat, at \in Timestamp :
         Mutation(k, m, i, at)

CommandInit == Init /\ processedCommands = {} /\ registrations = {}

CommandSpec == CommandInit /\ [][CommandNext]_commandVars

-----------------------------------------------------------------------------
(* Properties *)

\* Whatever the decider accepts of a request, replaying the events accepts too,
\* each on the state that the events before it left: the records they add, their
\* ids, the key of their command, the completeness of their batch and the times
\* of their Nodes (applyDomainEvent, validateDomainEventBatches).  So the log it
\* writes can always be reconstructed.
Replay == INSTANCE EventReplay

EveryDecisionReplays == Replay!EventSpec
=============================================================================
