--------------------------- MODULE DeliveryLease ---------------------------
(***************************************************************************)
(* What the store of webhook deliveries promises: a delivery is free, held *)
(* by the handler that claimed it, or done.  Only the handler that holds   *)
(* it completes it or gives it back; what is done stays done until its     *)
(* time is over.  A durable store forgets nothing else; one in memory      *)
(* drops what it has no room for, and everything when its process stops.   *)
(*                                                                         *)
(* No lease is compared here: who holds a delivery is known by name.       *)
(***************************************************************************)
EXTENDS Integers

CONSTANTS Delivery, Handler, Lease, Completed

VARIABLES
    durable,        \* the store survives its process
    item,           \* Delivery -> what it is, for how long, and by whom
    work            \* Handler -> where it is with the delivery it works on

vars == <<durable, item, work>>

Free == [state |-> "free", left |-> 0, by |-> {}]
Held(S) == [state |-> "held", left |-> Lease, by |-> S]
Done == [state |-> "done", left |-> Completed, by |-> {}]

Idle == [at |-> "idle"]
On(at, d) == [at |-> at, delivery |-> d]

Init ==
    /\ durable \in BOOLEAN
    /\ item = [d \in Delivery |-> Free] /\ work = [h \in Handler |-> Idle]

Has(h, d) == item[d].state = "held" /\ h \in item[d].by

Goes(h, at, d) ==
    work' = [work EXCEPT ![h] = On(at, d)] /\ UNCHANGED durable

Becomes(d, x) == item' = [item EXCEPT ![d] = x]

\* A handler that has nothing of the delivery, and gets nothing.
Decline(h, d) ==
    /\ work[h] = Idle /\ Goes(h, "answered", d) /\ UNCHANGED item

\* A store in memory may drop the deliveries in D for it; and the handlers
\* in S, which took this one in this very second and had it dropped, have the
\* same lease.
Claim(h, d) ==
    /\ work[h] = Idle /\ Goes(h, "claimed", d)
    /\ item[d] = Free
    /\ \E D \in SUBSET (Delivery \ {d}), S \in SUBSET Handler :
          /\ durable => D = {} /\ S = {}
          /\ \A g \in S : work[g] \in {On("claimed", d), On("missed", d)}
          /\ item' = [e \in Delivery |-> IF e = d THEN Held(S \cup {h})
                                         ELSE IF e \in D THEN Free ELSE item[e]]

\* The claim is made, but the handler never learns of it.
ClaimUnseen(h, d) ==
    /\ durable /\ work[h] = Idle /\ Goes(h, "answered", d)
    /\ item[d] = Free /\ Becomes(d, Held({}))

Complete(h, d) ==
    /\ work[h] = On("claimed", d) /\ Goes(h, "completed", d)
    /\ Has(h, d) /\ Becomes(d, Done)

\* The lease has ended, and may have passed to another.
Miss(h, d) ==
    /\ work[h] = On("claimed", d) /\ Goes(h, "missed", d)
    /\ ~ Has(h, d) /\ UNCHANGED item

\* The handler does not learn whether it completed the delivery.
CompleteUnseen(h, d) ==
    /\ durable /\ work[h] = On("claimed", d) /\ Goes(h, "missed", d)
    /\ UNCHANGED item \/ (Has(h, d) /\ Becomes(d, Done))

Release(h, d) ==
    /\ work[h] = On("missed", d) /\ Goes(h, "answered", d)
    /\ IF Has(h, d) THEN Becomes(d, Free) ELSE UNCHANGED item

Leave(h) ==
    /\ work[h] \notin {On(at, d) : at \in {"claimed", "missed"}, d \in Delivery}
    /\ work' = [work EXCEPT ![h] = Idle] /\ UNCHANGED <<durable, item>>

Stop(h) ==
    /\ durable /\ UNCHANGED durable
    /\ work' = [work EXCEPT ![h] = Idle]
    /\ item' = [d \in Delivery |-> [item[d] EXCEPT !.by = @ \ {h}]]

Restart ==
    /\ ~ durable /\ UNCHANGED durable
    /\ item' = [d \in Delivery |-> Free]
    /\ work' = [h \in Handler |-> Idle]

\* A second passes.
Tick ==
    /\ item' = [d \in Delivery |-> IF item[d].left > 1
                                   THEN [item[d] EXCEPT !.left = @ - 1]
                                   ELSE Free]
    /\ UNCHANGED <<durable, work>>

Next ==
    \/ \E h \in Handler, d \in Delivery :
          \/ Decline(h, d) \/ Claim(h, d) \/ ClaimUnseen(h, d)
          \/ Complete(h, d) \/ Miss(h, d) \/ CompleteUnseen(h, d)
          \/ Release(h, d)
    \/ \E h \in Handler : Leave(h) \/ Stop(h)
    \/ Restart \/ Tick

Spec == Init /\ [][Next]_vars
=============================================================================
