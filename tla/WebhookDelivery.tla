-------------------------- MODULE WebhookDelivery --------------------------
(***************************************************************************)
(* GitHubWebhookProcessor over an ephemeral store: a delivery is claimed   *)
(* with a lease, its invalidation is done, the lease is completed or given *)
(* back.  Deliveries come again at any time, handlers stop, calls of the   *)
(* Durable Object lose their answers, and a slow handler may find that its *)
(* lease has passed to another.                                            *)
(*                                                                         *)
(* The store is durable, one Durable Object per delivery, or a map in the  *)
(* process's memory, bounded, which never fails but is lost with it.       *)
(* A record keeps the seconds it has left instead of the second it expires *)
(* at, and so does the handler, whose lease is known by that second.  The  *)
(* claim takes no second of its own.                                       *)
(***************************************************************************)
EXTENDS Integers, Sequences, FiniteSets

CONSTANTS
    Delivery,       \* delivery ids
    EventMaps,      \* what the deliveries may report: functions to events
    Handler,        \* deliveries in progress at one time
    Lease,          \* WEBHOOK_PROCESSING_LEASE_SECONDS
    Completed,      \* WEBHOOK_COMPLETED_TTL_SECONDS
    MaximumRecords, \* of the store in memory
    MaxFaults,      \* bound on stops and lost answers
    None

ASSUME LeaseType == Lease \in Nat \ {0} /\ Completed \in Nat \ {0}
ASSUME RecordBounds == MaximumRecords \in Nat \ {0} /\ MaxFaults \in Nat
ASSUME Sentinels == None \notin Delivery /\ None \notin {"accepted", "duplicate"}
ASSUME NoneIsNoLease ==
    None \notin [status : {"processing", "completed"}, left : Nat]

VARIABLES
    durable,        \* which of the stores it is
    eventOf,        \* the event each delivery reports
    record,         \* Delivery -> [status, left], or None
    order,          \* the records of the map, oldest first
    pc, delivery,   \* each handler's phase and delivery
    lease,          \* the seconds left of the lease it took
    outcome,        \* what it will answer
    owners,         \* history: Delivery -> the handlers whose claim it has
    done,           \* history: deliveries whose invalidation was done
    dropped,        \* history: deliveries a claim of which was lost before
    faults

storeVars == <<record, order>>
handlerVars == <<pc, delivery, lease, outcome>>
worldVars == <<durable, eventOf>>
history == <<owners, done, dropped>>
vars == <<worldVars, storeVars, handlerVars, history, faults>>

Processing == {"invalidate", "complete", "release"}
Outcome == {"accepted", "duplicate", "refused", "unavailable", "failed"}

Init ==
    /\ durable \in BOOLEAN /\ eventOf \in EventMaps
    /\ record = [d \in Delivery |-> None] /\ order = <<>>
    /\ pc = [h \in Handler |-> "idle"] /\ delivery = [h \in Handler |-> None]
    /\ lease = [h \in Handler |-> 0] /\ outcome = [h \in Handler |-> None]
    /\ owners = [d \in Delivery |-> {}] /\ done = {} /\ dropped = {}
    /\ faults = 0

-----------------------------------------------------------------------------
(* normalizeGitHubWebhook: an event is a record of its name, the ref or    *)
(* action it carries, and whether its identifiers and lists decode.        *)

InstallationActions ==
    {"created", "deleted", "suspend", "unsuspend", "new_permissions_accepted"}

Signal(e) ==
    CASE e.name = "push" /\ e.what # "hunsu/state" -> "ignored"
      [] e.name = "push" /\ e.what = "hunsu/state" /\ e.decodes ->
             "state_ref_changed"
      [] /\ e.name = "installation" /\ e.decodes
         /\ e.what \in InstallationActions -> "installation_changed"
      [] /\ e.name = "installation_repositories" /\ e.decodes
         /\ e.what \in {"added", "removed"} -> "repository_grant_changed"
      [] e.name \notin {"push", "installation", "installation_repositories"} ->
             "ignored"
      [] OTHER -> "invalid"

SignalOf(d) == Signal(eventOf[d])

\* What the processor invalidates for a signal.
Invalidates(signal) ==
    CASE signal = "state_ref_changed" -> "repository"
      [] signal \in {"installation_changed", "repository_grant_changed"} ->
             "installation"
      [] OTHER -> "nothing"

-----------------------------------------------------------------------------
(* The stores. *)

Live(r) == r # None /\ r.left > 0

Pruned(d) == IF Live(record[d]) THEN record[d] ELSE None

\* A new record is the newest of the map; more than MaximumRecords records
\* cost the oldest one its place.
Put(recs, d, status, left) ==
    LET kept == SelectSeq(order, LAMBDA e : e # d /\ recs[e] # None)
        full == ~ durable /\ Len(kept) >= MaximumRecords
    IN  /\ record' = [e \in Delivery |->
                        IF e = d THEN [status |-> status, left |-> left]
                        ELSE IF full /\ e = Head(kept) THEN None
                        ELSE recs[e]]
        /\ order' = IF durable THEN <<>>
                    ELSE Append(IF full THEN Tail(kept) ELSE kept, d)

Delete(d) ==
    /\ record' = [record EXCEPT ![d] = None]
    /\ order' = SelectSeq(order, LAMBDA e : e # d)

\* Mutant of Claimable: a record bars the delivery even when it has expired.
ClaimableOnce(d) == record[d] = None

Claimable(d) == ~ Live(record[d])

\* Mutant of Mine: whichever handler asks.
MineAny(h) ==
    LET r == record[delivery[h]]
    IN  r # None /\ r.status = "processing"

\* The record is the lease this handler took.
Mine(h) ==
    LET r == record[delivery[h]]
    IN  r # None /\ r.status = "processing" /\ r.left = lease[h]

-----------------------------------------------------------------------------
(* Handlers. *)

Answer(h, x) ==
    /\ pc' = [pc EXCEPT ![h] = "reply"]
    /\ outcome' = [outcome EXCEPT ![h] = x]

\* The handlers that took the delivery in this second: in a map that had no
\* room for their record, their lease and a new one are the same.
Sharing(d) ==
    {g \in Handler :
       pc[g] \in Processing /\ delivery[g] = d /\ lease[g] = Lease}

\* Mutant of Take: the invalidation is put off until after the answer.
TakeAndDefer(h, d) ==
    /\ Put(IF durable THEN record ELSE [e \in Delivery |-> Pruned(e)],
           d, "processing", Lease)
    /\ lease' = [lease EXCEPT ![h] = Lease]
    /\ owners' = [owners EXCEPT ![d] = {h} \cup Sharing(d)]
    /\ pc' = [pc EXCEPT ![h] = "complete"]

Take(h, d) ==
    /\ Put(IF durable THEN record ELSE [e \in Delivery |-> Pruned(e)],
           d, "processing", Lease)
    /\ lease' = [lease EXCEPT ![h] = Lease]
    /\ owners' = [owners EXCEPT ![d] = {h} \cup Sharing(d)]
    /\ pc' = [pc EXCEPT ![h] = "invalidate"]

\* The checks of the request, and claimWebhookDelivery.
Receive(h, d) ==
    /\ pc[h] = "idle"
    /\ delivery' = [delivery EXCEPT ![h] = d]
    /\ \/ /\ SignalOf(d) = "invalid" /\ Answer(h, "refused")
          /\ UNCHANGED <<storeVars, lease, owners>>
       \/ /\ SignalOf(d) # "invalid" /\ ~ Claimable(d)
          /\ Answer(h, "duplicate") /\ UNCHANGED <<storeVars, lease, owners>>
       \/ /\ SignalOf(d) # "invalid" /\ Claimable(d)
          /\ Take(h, d) /\ UNCHANGED outcome
    /\ UNCHANGED <<worldVars, done, dropped, faults>>

\* The Durable Object takes the lease, but the answer is lost: the request
\* fails before anything that would give it back.
ClaimAnswerLost(h, d) ==
    /\ durable /\ faults < MaxFaults /\ faults' = faults + 1
    /\ pc[h] = "idle" /\ SignalOf(d) # "invalid" /\ Claimable(d)
    /\ Put(record, d, "processing", Lease)
    /\ delivery' = [delivery EXCEPT ![h] = d]
    /\ Answer(h, "failed")
    /\ owners' = [owners EXCEPT ![d] = {}] /\ dropped' = dropped \cup {d}
    /\ UNCHANGED <<worldVars, lease, done>>

\* The invalidation, before anything else is awaited.
Invalidate(h) ==
    /\ pc[h] = "invalidate"
    /\ done' = done \cup {<<delivery[h], Invalidates(SignalOf(delivery[h]))>>}
    /\ pc' = [pc EXCEPT ![h] = "complete"]
    /\ UNCHANGED <<worldVars, storeVars, delivery, lease, outcome, owners,
                   dropped, faults>>

\* completeWebhookDelivery on the record: an expired lease is deleted.
CompleteRecord(h) ==
    IF Mine(h) /\ lease[h] > 0
    THEN /\ record' = [record EXCEPT ![delivery[h]] =
                         [status |-> "completed", left |-> Completed]]
         /\ UNCHANGED order
    ELSE IF Mine(h) THEN Delete(delivery[h]) ELSE UNCHANGED storeVars

Complete(h) ==
    /\ pc[h] = "complete"
    /\ CompleteRecord(h)
    /\ IF Mine(h) /\ lease[h] > 0
       THEN Answer(h, "accepted")
       ELSE /\ pc' = [pc EXCEPT ![h] = "release"]
            /\ outcome' = [outcome EXCEPT ![h] = "unavailable"]
    /\ UNCHANGED <<worldVars, delivery, lease, history, faults>>

\* The call fails, with or without its effect; the lease is given back.
CompleteAnswerLost(h) ==
    /\ durable /\ faults < MaxFaults /\ faults' = faults + 1
    /\ pc[h] = "complete"
    /\ CompleteRecord(h) \/ UNCHANGED storeVars
    /\ pc' = [pc EXCEPT ![h] = "release"]
    /\ outcome' = [outcome EXCEPT ![h] = "failed"]
    /\ UNCHANGED <<worldVars, delivery, lease, history>>

Release(h) ==
    /\ pc[h] = "release"
    /\ IF Mine(h) THEN Delete(delivery[h]) ELSE UNCHANGED storeVars
    /\ pc' = [pc EXCEPT ![h] = "reply"]
    /\ UNCHANGED <<worldVars, delivery, lease, outcome, history, faults>>

Idle(h) ==
    /\ pc' = [pc EXCEPT ![h] = "idle"]
    /\ delivery' = [delivery EXCEPT ![h] = None]
    /\ lease' = [lease EXCEPT ![h] = 0]
    /\ outcome' = [outcome EXCEPT ![h] = None]
    /\ owners' = [d \in Delivery |-> owners[d] \ {h}]

Reply(h) ==
    /\ pc[h] = "reply" /\ Idle(h)
    /\ UNCHANGED <<worldVars, storeVars, done, dropped, faults>>

\* The isolate that runs a handler goes away.
Stop(h) ==
    /\ durable /\ faults < MaxFaults /\ faults' = faults + 1
    /\ pc[h] # "idle" /\ Idle(h)
    /\ dropped' = IF pc[h] = "invalidate" THEN dropped \cup {delivery[h]}
                  ELSE dropped
    /\ UNCHANGED <<worldVars, storeVars, done>>

\* The process goes away, with all handlers, the map and the caches.
Restart ==
    /\ ~ durable /\ faults < MaxFaults /\ faults' = faults + 1
    /\ record' = [d \in Delivery |-> None] /\ order' = <<>>
    /\ pc' = [h \in Handler |-> "idle"]
    /\ delivery' = [h \in Handler |-> None]
    /\ lease' = [h \in Handler |-> 0]
    /\ outcome' = [h \in Handler |-> None]
    /\ owners' = [d \in Delivery |-> {}]
    /\ UNCHANGED <<worldVars, done, dropped>>

\* A second passes.
Tick ==
    /\ record' = [d \in Delivery |->
                    IF Live(record[d]) THEN [record[d] EXCEPT !.left = @ - 1]
                                       ELSE record[d]]
    /\ lease' = [h \in Handler |-> IF lease[h] > 0 THEN lease[h] - 1 ELSE 0]
    /\ UNCHANGED <<worldVars, order, pc, delivery, outcome, history, faults>>

\* The alarm of the Durable Object deletes its record, if it has expired.
Alarm(d) ==
    /\ durable /\ record[d] # None /\ ~ Live(record[d])
    /\ Delete(d)
    /\ UNCHANGED <<worldVars, handlerVars, history, faults>>

Claims(d) == \E h \in Handler : Receive(h, d)

Next ==
    \/ \E h \in Handler, d \in Delivery : Receive(h, d) \/ ClaimAnswerLost(h, d)
    \/ \E h \in Handler :
          \/ Invalidate(h) \/ Complete(h) \/ CompleteAnswerLost(h)
          \/ Release(h) \/ Reply(h) \/ Stop(h)
    \/ Restart
    \/ Tick
    \/ \E d \in Delivery : Alarm(d)

Spec == Init /\ [][Next]_vars

\* Time passes, a handler that lives goes on, and a delivery is sent again
\* until a handler has taken it.
Fairness ==
    /\ WF_vars(Tick)
    /\ \A h \in Handler :
          WF_vars(Invalidate(h) \/ Complete(h) \/ Release(h) \/ Reply(h))
    /\ \A d \in Delivery :
          SF_vars(Claimable(d) /\ Claims(d))

FairSpec == Spec /\ Fairness

-----------------------------------------------------------------------------
(* Properties. *)

Record == [status : {"processing", "completed"}, left : 0..(Lease + Completed)]

\* The types of the variables.
TypeOK ==
    /\ record \in [Delivery -> Record \cup {None}]
    /\ pc \in [Handler -> {"idle", "reply"} \cup Processing]
    /\ delivery \in [Handler -> Delivery \cup {None}]
    /\ lease \in [Handler -> 0..Lease]
    /\ outcome \in [Handler -> Outcome \cup {None}]
    /\ owners \in [Delivery -> SUBSET Handler] /\ dropped \subseteq Delivery
    /\ done \subseteq Delivery \X {"repository", "installation", "nothing"}
    /\ faults \in 0..MaxFaults

\* What the store promises of a delivery, by the handlers that claimed it.
ItemOf(d) ==
    IF ~ Live(record[d]) THEN [state |-> "free", left |-> 0, by |-> {}]
    ELSE IF record[d].status = "completed"
    THEN [state |-> "done", left |-> record[d].left, by |-> {}]
    ELSE [state |-> "held", left |-> record[d].left, by |-> owners[d]]

WorkOf(h) ==
    IF pc[h] = "idle" THEN [at |-> "idle"]
    ELSE [at |-> CASE pc[h] \in {"invalidate", "complete"} -> "claimed"
                   [] pc[h] = "release" -> "missed"
                   [] pc[h] = "reply" /\ outcome[h] = "accepted" -> "completed"
                   [] OTHER -> "answered",
          delivery |-> delivery[h]]

LeaseSpec == INSTANCE DeliveryLease WITH
    item <- [d \in Delivery |-> ItemOf(d)], work <- [h \in Handler |-> WorkOf(h)]

\* Leases that are known by the second they end at are those of
\* DeliveryLease, which knows the handlers: one whose lease has passed to
\* another neither completes nor gives back the other's, and what is
\* completed is reopened by time alone, also where a handler missed the
\* answer and goes on to release it.
ImplementsLease == LeaseSpec!Spec

\* What GitHub reports and this service caches: the state branch of a
\* repository, and what an installation grants.
Affects(e) ==
    CASE e.name = "push" /\ e.what = "hunsu/state" -> "repository"
      [] e.name \in {"installation", "installation_repositories"} ->
             "installation"
      [] OTHER -> "nothing"

Invalidated(d) == <<d, Affects(eventOf[d])>> \in done

\* A delivery answered with success, as the duplicate of another too, has
\* invalidated all that its event affects; or the handler that claimed it is
\* about to; or that handler was lost before it could.
AcknowledgedIsProcessed ==
    \A h \in Handler : outcome[h] \in {"accepted", "duplicate"} =>
       LET d == delivery[h]
       IN  \/ Invalidated(d)
           \/ outcome[h] = "duplicate" /\ d \in dropped
           \/ /\ outcome[h] = "duplicate"
              /\ \E g \in Handler : pc[g] = "invalidate" /\ delivery[g] = d

\* A delivery that keeps being sent is processed, though handlers stop and
\* answers are lost: no lease outlives its time.
DeliveriesAreProcessed ==
    \A d \in Delivery : SignalOf(d) # "invalid" =>
       <>(\E x \in done : x[1] = d)
=============================================================================
