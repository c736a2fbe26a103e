----------------------------- MODULE EventReplay ----------------------------
(***************************************************************************)
(* What replaying a log accepts of the metadata of its events, beside what *)
(* ProjectReplay accepts of the records they add: that no event and no     *)
(* command is applied twice, that a batch is complete, and that a Node was *)
(* registered when its event says.                                         *)
(***************************************************************************)
EXTENDS ProjectReplay, Sequences

CONSTANT Timestamp

VARIABLES
    processedCommands,  \* per command its key, fingerprint and event ids
    registrations       \* of each Node: its registeredAt, and the recordedAt
                        \* of the event that registered it

IsProcessed(eventId) ==
    \E x \in processedCommands :
        \E j \in DOMAIN x.eventIds : x.eventIds[j] = eventId

\* validateDomainEventBatches and validateEventIdentity: the events of a command
\* are new, and so is its key, or it would be part of another batch.
CommandIsNew(x) ==
    /\ \A y \in processedCommands : y.idempotencyKey # x.idempotencyKey
    /\ \A i \in DOMAIN x.eventIds : ~IsProcessed(x.eventIds[i])
    /\ \A i, j \in DOMAIN x.eventIds : i # j => x.eventIds[i] # x.eventIds[j]

\* A batch has a second event exactly if it registers a Node, and the Node has
\* the time of its event (validateNodeContent).
BatchIsWhole(x) ==
    \/ /\ Len(x.eventIds) = 1
       /\ nodes' = nodes
       /\ UNCHANGED registrations
    \/ /\ Len(x.eventIds) = 2
       /\ nodes' # nodes
       /\ \E recordedAt \in Timestamp :
            registrations' = registrations \cup
              {[project |-> n.project, sha |-> n.sha,
                registeredAt |-> recordedAt, recordedAt |-> recordedAt] :
                 n \in nodes' \ nodes}

EventNext ==
    /\ Next
    /\ \E x \in processedCommands' \ processedCommands :
         /\ processedCommands' = processedCommands \cup {x}
         /\ CommandIsNew(x)
         /\ BatchIsWhole(x)

EventSpec ==
    /\ Init /\ processedCommands = {} /\ registrations = {}
    /\ [][EventNext]_<<vars, processedCommands, registrations>>
=============================================================================
