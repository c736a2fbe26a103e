------------------------ MODULE WebhookDeliveryProofs -----------------------
(***************************************************************************)
(* The store of webhook deliveries implements DeliveryLease, and what was  *)
(* acknowledged is processed unless its claim was lost: for all            *)
(* deliveries, handlers, lease times and limits, whatever stops or is      *)
(* lost.                                                                   *)
(*                                                                         *)
(* A lease is known by the second it ends at.  The refinement rests on     *)
(* OwnersInv: the handlers whose second is that of a live lease are those  *)
(* that claimed it.                                                        *)
(***************************************************************************)
EXTENDS WebhookDelivery, TLAPS

-----------------------------------------------------------------------------
(* Types *)

\* A handler in progress has a delivery.
HandlersType ==
    /\ TypeOK
    /\ \A h \in Handler : pc[h] \in Processing => delivery[h] \in Delivery

LEMMA PutTypes ==
    ASSUME NEW recs \in [Delivery -> Record \cup {None}], NEW d \in Delivery,
           Put(recs, d, "processing", Lease)
    PROVE  /\ record' \in [Delivery -> Record \cup {None}]
           /\ record'[d] = [status |-> "processing", left |-> Lease]
           /\ \A e \in Delivery \ {d} : \/ record'[e] = recs[e]
                                        \/ ~ durable /\ record'[e] = None
  <1> DEFINE kept == SelectSeq(order, LAMBDA e : e # d /\ recs[e] # None)
             full == ~ durable /\ Len(kept) >= MaximumRecords
             head == Head(kept)
             r == [status |-> "processing", left |-> Lease]
  <1>1. r \in Record
    BY LeaseType DEF Record
  <1>2. record' = [e \in Delivery |-> IF e = d THEN r
                       ELSE IF full /\ e = head THEN None ELSE recs[e]]
    BY DEF Put
  <1> HIDE DEF r, head
  <1>3. full => ~ durable
    OBVIOUS
  <1> HIDE DEF full
  <1> QED
    BY <1>1, <1>2, <1>3 DEF r

LEMMA PrunedTypes ==
    ASSUME HandlersType
    PROVE  /\ (IF durable THEN record ELSE [e \in Delivery |-> Pruned(e)])
                \in [Delivery -> Record \cup {None}]
           /\ \A e \in Delivery :
                LET recs == IF durable THEN record
                            ELSE [x \in Delivery |-> Pruned(x)]
                IN  \/ recs[e] = record[e]
                    \/ ~ durable /\ recs[e] = None /\ ~ Live(record[e])
  BY DEF HandlersType, TypeOK, Pruned

\* A handler that receives a delivery has its lease, and only then; other
\* records are kept, or are those of a full or expired map in memory.
LEMMA ReceiveClaims ==
    ASSUME HandlersType, NEW h \in Handler, NEW d \in Delivery, Receive(h, d),
           pc'[h] # "reply"
    PROVE  /\ record' \in [Delivery -> Record \cup {None}]
           /\ record'[d] = [status |-> "processing", left |-> Lease]
           /\ \A e \in Delivery \ {d} : \/ record'[e] = record[e]
                                        \/ ~ durable /\ record'[e] = None
           /\ Claimable(d) /\ SignalOf(d) # "invalid"
           /\ lease' = [lease EXCEPT ![h] = Lease]
           /\ pc' = [pc EXCEPT ![h] = "invalidate"]
           /\ delivery' = [delivery EXCEPT ![h] = d]
           /\ owners' = [owners EXCEPT ![d] = {h} \cup Sharing(d)]
           /\ UNCHANGED <<outcome, dropped>>
  <1> DEFINE recs == IF durable THEN record ELSE [e \in Delivery |-> Pruned(e)]
  <1>1. /\ Put(recs, d, "processing", Lease)
        /\ Claimable(d) /\ SignalOf(d) # "invalid"
        /\ lease' = [lease EXCEPT ![h] = Lease]
        /\ pc' = [pc EXCEPT ![h] = "invalidate"]
        /\ delivery' = [delivery EXCEPT ![h] = d]
        /\ owners' = [owners EXCEPT ![d] = {h} \cup Sharing(d)]
        /\ UNCHANGED <<outcome, dropped>>
    BY DEF Receive, Take, Answer, HandlersType, TypeOK
  <1>2. recs \in [Delivery -> Record \cup {None}]
        /\ \A e \in Delivery : \/ recs[e] = record[e]
                               \/ ~ durable /\ recs[e] = None
    BY PrunedTypes
  <1> HIDE DEF recs
  <1> QED
    BY <1>1, <1>2, PutTypes

\* Any other answer to a delivery leaves the store alone.
LEMMA ReceiveAnswers ==
    ASSUME HandlersType, NEW h \in Handler, NEW d \in Delivery, Receive(h, d),
           pc'[h] = "reply"
    PROVE  /\ UNCHANGED <<record, lease, owners, dropped>>
           /\ pc' = [pc EXCEPT ![h] = "reply"]
           /\ delivery' = [delivery EXCEPT ![h] = d]
           /\ \E x \in {"refused", "duplicate"} :
                /\ outcome' = [outcome EXCEPT ![h] = x]
                /\ x = "duplicate" => ~ Claimable(d)
  BY DEF Receive, Take, Answer, HandlersType, TypeOK, storeVars

-----------------------------------------------------------------------------
(* The inductive invariant *)

\* What is in progress will be, or was, invalidated.
EventsInv ==
    \A h \in Handler :
       /\ pc[h] \in Processing => SignalOf(delivery[h]) # "invalid"
       /\ outcome[h] = "accepted" => pc[h] = "reply"
       /\ pc[h] = "complete" \/ outcome[h] = "accepted" =>
            /\ SignalOf(delivery[h]) # "invalid"
            /\ <<delivery[h], Invalidates(SignalOf(delivery[h]))>> \in done

InProgress(h) == pc[h] \in Processing

\* In a Durable Object, a lease taken this second is the record's, unless it
\* was completed this second; and no two handlers have one lease.
LeasesInv ==
    durable =>
       /\ \A h \in Handler : InProgress(h) /\ lease[h] = Lease =>
            LET r == record[delivery[h]]
            IN  /\ Live(r)
                /\ r.status = "processing" => r.left = Lease
       /\ \A g, h \in Handler :
            /\ InProgress(g) /\ InProgress(h) /\ delivery[g] = delivery[h]
            /\ lease[g] = lease[h] /\ lease[g] > 0
            => g = h

WorkInv == HandlersType /\ EventsInv /\ LeasesInv

LEMMA InitInv == Init => WorkInv
  <1> SUFFICES ASSUME Init PROVE WorkInv
    OBVIOUS
  <1>1. HandlersType
    BY LeaseType, RecordBounds DEF Init, HandlersType, TypeOK, Processing
  <1>2. EventsInv
    BY Sentinels DEF Init, EventsInv, Processing
  <1>3. LeasesInv
    BY DEF Init, LeasesInv, InProgress, Processing
  <1> QED
    BY <1>1, <1>2, <1>3 DEF WorkInv

\* A record that is new is live.
LEMMA NewIsLive ==
    /\ Live([status |-> "processing", left |-> Lease])
    /\ Live([status |-> "completed", left |-> Completed])
  BY NoneIsNoLease, LeaseType DEF Live

\* Nobody else holds a lease of this second on what can be claimed.
LEMMA ClaimKeepsLeases ==
    ASSUME WorkInv, NEW h \in Handler, NEW d \in Delivery,
           Claimable(d), UNCHANGED durable,
           record'[d] = [status |-> "processing", left |-> Lease],
           \A e \in Delivery \ {d} : \/ record'[e] = record[e]
                                     \/ ~ durable /\ record'[e] = None,
           \A g \in Handler \ {h} : /\ pc'[g] = pc[g]
                                    /\ delivery'[g] = delivery[g]
                                    /\ lease'[g] = lease[g],
           pc'[h] = "invalidate" => /\ delivery'[h] = d
                                    /\ lease'[h] = Lease,
           pc'[h] \in {"invalidate", "reply"}
    PROVE  LeasesInv'
  <1> USE DEF InProgress, Processing
  <1> SUFFICES ASSUME durable PROVE LeasesInv'
    BY DEF LeasesInv
  <1>1. \A g \in Handler : InProgress(g) /\ delivery[g] = d => lease[g] # Lease
    BY DEF WorkInv, LeasesInv, Claimable
  <1>2. \A g \in Handler : InProgress(g) => delivery[g] \in Delivery
    BY DEF WorkInv, HandlersType
  <1>3. \A g \in Handler : /\ pc'[g] \in Processing
                           /\ lease'[g] = Lease /\ g # h
                           => /\ delivery'[g] # d
                              /\ record'[delivery'[g]] = record[delivery[g]]
    BY <1>1, <1>2
  <1>4. Live(record'[d])
    BY NewIsLive
  <1> QED
    BY <1>1, <1>3, <1>4 DEF WorkInv, LeasesInv, Live

LEMMA ReceiveKeepsInv ==
    ASSUME WorkInv, NEW h \in Handler, NEW d \in Delivery, Receive(h, d)
    PROVE  WorkInv'
  <1> USE DEF InProgress, Processing, Outcome
  <1>1. UNCHANGED <<durable, eventOf, done, faults>> /\ pc[h] = "idle"
    BY DEF Receive, worldVars, history
  <1>2. CASE pc'[h] = "reply"
    <2>1. /\ UNCHANGED <<record, lease, owners, dropped>>
          /\ pc' = [pc EXCEPT ![h] = "reply"]
          /\ delivery' = [delivery EXCEPT ![h] = d]
      BY <1>2, ReceiveAnswers DEF WorkInv
    <2>2. PICK x \in {"refused", "duplicate"} :
            outcome' = [outcome EXCEPT ![h] = x]
      BY <1>2, ReceiveAnswers DEF WorkInv
    <2>3. HandlersType'
      BY <1>1, <2>1, <2>2 DEF WorkInv, HandlersType, TypeOK
    <2>4. EventsInv'
      BY <1>1, <2>1, <2>2 DEF WorkInv, HandlersType, TypeOK, EventsInv,
                              SignalOf
    <2>5. LeasesInv'
      BY <1>1, <2>1, <2>2 DEF WorkInv, HandlersType, TypeOK, LeasesInv
    <2> QED
      BY <2>3, <2>4, <2>5 DEF WorkInv
  <1>3. CASE pc'[h] # "reply"
    <2>1. /\ record' \in [Delivery -> Record \cup {None}]
          /\ record'[d] = [status |-> "processing", left |-> Lease]
          /\ \A e \in Delivery \ {d} : \/ record'[e] = record[e]
                                       \/ ~ durable /\ record'[e] = None
          /\ Claimable(d) /\ SignalOf(d) # "invalid"
          /\ lease' = [lease EXCEPT ![h] = Lease]
          /\ pc' = [pc EXCEPT ![h] = "invalidate"]
          /\ delivery' = [delivery EXCEPT ![h] = d]
          /\ owners' = [owners EXCEPT ![d] = {h} \cup Sharing(d)]
          /\ UNCHANGED <<outcome, dropped>>
      BY <1>3, ReceiveClaims DEF WorkInv
    <2>2. HandlersType'
      BY <1>1, <2>1, LeaseType DEF WorkInv, HandlersType, TypeOK, Sharing
    <2>3. EventsInv'
      BY <1>1, <2>1 DEF WorkInv, HandlersType, TypeOK, EventsInv, SignalOf
    <2>4. LeasesInv'
      BY <1>1, <2>1, ClaimKeepsLeases DEF WorkInv, HandlersType, TypeOK
    <2> QED
      BY <2>2, <2>3, <2>4 DEF WorkInv
  <1> QED
    BY <1>2, <1>3

LEMMA LostClaimKeepsInv ==
    ASSUME WorkInv, NEW h \in Handler, NEW d \in Delivery,
           ClaimAnswerLost(h, d)
    PROVE  WorkInv'
  <1> USE DEF InProgress, Processing, Outcome
  <1>1. /\ record' \in [Delivery -> Record \cup {None}]
        /\ record'[d] = [status |-> "processing", left |-> Lease]
        /\ \A e \in Delivery \ {d} : \/ record'[e] = record[e]
                                     \/ ~ durable /\ record'[e] = None
    BY PutTypes DEF ClaimAnswerLost, WorkInv, HandlersType, TypeOK
  <1>2. /\ UNCHANGED <<durable, eventOf, lease, done>>
        /\ pc[h] = "idle" /\ Claimable(d) /\ faults' \in 0..MaxFaults
        /\ pc' = [pc EXCEPT ![h] = "reply"]
        /\ delivery' = [delivery EXCEPT ![h] = d]
        /\ outcome' = [outcome EXCEPT ![h] = "failed"]
        /\ owners' = [owners EXCEPT ![d] = {}] /\ dropped' = dropped \cup {d}
    BY RecordBounds DEF ClaimAnswerLost, Answer, worldVars, history, WorkInv,
                        HandlersType, TypeOK
  <1>3. HandlersType'
    BY <1>1, <1>2 DEF WorkInv, HandlersType, TypeOK
  <1>4. EventsInv'
    BY <1>2 DEF WorkInv, HandlersType, TypeOK, EventsInv, SignalOf
  <1>5. LeasesInv'
    BY <1>1, <1>2, ClaimKeepsLeases DEF WorkInv, HandlersType, TypeOK
  <1> QED
    BY <1>3, <1>4, <1>5 DEF WorkInv

LEMMA InvalidateKeepsInv ==
    ASSUME WorkInv, NEW h \in Handler, Invalidate(h)
    PROVE  WorkInv'
  <1> USE DEF InProgress, Processing, Outcome
  <1>1. Invalidates(SignalOf(delivery[h]))
          \in {"repository", "installation", "nothing"}
    BY DEF Invalidates
  <1>2. HandlersType'
    BY <1>1 DEF worldVars, history, storeVars, WorkInv, HandlersType, TypeOK,
                Invalidate
  <1>3. EventsInv'
    BY DEF worldVars, history, WorkInv, HandlersType, TypeOK, EventsInv, Invalidate,
           SignalOf
  <1>4. LeasesInv'
    BY DEF worldVars, history, storeVars, WorkInv, HandlersType, TypeOK, LeasesInv,
           Invalidate
  <1> QED
    BY <1>2, <1>3, <1>4 DEF WorkInv

LEMMA CompleteKeepsInv ==
    ASSUME WorkInv, NEW h \in Handler, Complete(h)
    PROVE  WorkInv'
  <1> USE DEF InProgress, Processing, Outcome
  <1>1. HandlersType'
    BY LeaseType, RecordBounds
       DEF WorkInv, HandlersType, TypeOK, Complete, CompleteRecord, Answer,
           Delete, storeVars, Record, worldVars, history
  <1>2. EventsInv'
    BY Sentinels
       DEF WorkInv, HandlersType, TypeOK, EventsInv, Complete, Answer,
           SignalOf, worldVars, history
  <1>3. LeasesInv'
    BY LeaseType
       DEF WorkInv, HandlersType, TypeOK, LeasesInv, Complete,
           CompleteRecord, Answer, Delete, Mine, Live, storeVars, Record,
           worldVars, history
  <1> QED
    BY <1>1, <1>2, <1>3 DEF WorkInv

LEMMA LostCompletionKeepsInv ==
    ASSUME WorkInv, NEW h \in Handler, CompleteAnswerLost(h)
    PROVE  WorkInv'
  <1> USE DEF InProgress, Processing, Outcome
  <1>1. HandlersType'
    BY LeaseType, RecordBounds
       DEF WorkInv, HandlersType, TypeOK, CompleteAnswerLost,
           CompleteRecord, Delete, storeVars, Record, worldVars, history
  <1>2. EventsInv'
    BY Sentinels
       DEF WorkInv, HandlersType, TypeOK, EventsInv, CompleteAnswerLost,
           SignalOf, worldVars, history
  <1>3. LeasesInv'
    BY LeaseType, NoneIsNoLease
       DEF WorkInv, HandlersType, TypeOK, LeasesInv, CompleteAnswerLost,
           CompleteRecord, Delete, Mine, Live, storeVars, Record, worldVars, history
  <1> QED
    BY <1>1, <1>2, <1>3 DEF WorkInv

LEMMA ReleaseKeepsInv ==
    ASSUME WorkInv, NEW h \in Handler, Release(h)
    PROVE  WorkInv'
  <1> USE DEF InProgress, Processing, Outcome
  <1>1. HandlersType'
    BY LeaseType, RecordBounds
       DEF WorkInv, HandlersType, TypeOK, Release, Delete, storeVars,
           Record, worldVars, history
  <1>2. EventsInv'
    BY Sentinels
       DEF WorkInv, HandlersType, TypeOK, EventsInv, Release, SignalOf,
           worldVars, history
  <1>3. LeasesInv'
    BY LeaseType
       DEF WorkInv, HandlersType, TypeOK, LeasesInv, Release, Delete, Mine,
           Live, storeVars, Record, worldVars, history
  <1> QED
    BY <1>1, <1>2, <1>3 DEF WorkInv

LEMMA ReplyKeepsInv ==
    ASSUME WorkInv, NEW h \in Handler, Reply(h)
    PROVE  WorkInv'
  <1> USE DEF InProgress, Processing, Outcome
  <1>1. HandlersType'
    BY LeaseType, RecordBounds
       DEF WorkInv, HandlersType, TypeOK, Reply, Idle, storeVars, worldVars, history
  <1>2. EventsInv'
    BY Sentinels
       DEF WorkInv, HandlersType, TypeOK, EventsInv, Reply, Idle, SignalOf,
           worldVars, history
  <1>3. LeasesInv'
    BY LeaseType
       DEF WorkInv, HandlersType, TypeOK, LeasesInv, Reply, Idle,
           storeVars, worldVars, history
  <1> QED
    BY <1>1, <1>2, <1>3 DEF WorkInv

LEMMA StopKeepsInv ==
    ASSUME WorkInv, NEW h \in Handler, Stop(h)
    PROVE  WorkInv'
  <1> USE DEF InProgress, Processing, Outcome
  <1>1. HandlersType'
    BY LeaseType, RecordBounds
       DEF WorkInv, HandlersType, TypeOK, Stop, Idle, storeVars, worldVars, history
  <1>2. EventsInv'
    BY Sentinels
       DEF WorkInv, HandlersType, TypeOK, EventsInv, Stop, Idle, SignalOf,
           worldVars, history
  <1>3. LeasesInv'
    BY LeaseType
       DEF WorkInv, HandlersType, TypeOK, LeasesInv, Stop, Idle, storeVars,
           worldVars, history
  <1> QED
    BY <1>1, <1>2, <1>3 DEF WorkInv

LEMMA RestartKeepsInv ==
    ASSUME WorkInv, Restart
    PROVE  WorkInv'
  <1> USE DEF InProgress, Processing, Outcome
  <1>1. HandlersType'
    BY LeaseType, RecordBounds
       DEF WorkInv, HandlersType, TypeOK, Restart, worldVars, history
  <1>2. EventsInv'
    BY Sentinels
       DEF WorkInv, HandlersType, TypeOK, EventsInv, Restart, SignalOf,
           worldVars, history
  <1>3. LeasesInv'
    BY LeaseType
       DEF WorkInv, HandlersType, TypeOK, LeasesInv, Restart, worldVars, history
  <1> QED
    BY <1>1, <1>2, <1>3 DEF WorkInv

LEMMA TickKeepsInv ==
    ASSUME WorkInv, Tick
    PROVE  WorkInv'
  <1> USE DEF InProgress, Processing, Outcome
  <1>1. HandlersType'
    BY LeaseType, RecordBounds
       DEF WorkInv, HandlersType, TypeOK, Tick, Live, Record, worldVars, history
  <1>2. EventsInv'
    BY Sentinels
       DEF WorkInv, HandlersType, TypeOK, EventsInv, Tick, SignalOf,
           worldVars, history
  <1>3. LeasesInv'
    <2>1. \A h \in Handler : /\ lease[h] \in Nat
                             /\ lease'[h] = IF lease[h] > 0 THEN lease[h] - 1
                                            ELSE 0
      BY LeaseType DEF WorkInv, HandlersType, TypeOK, Tick
    <2>2. \A h \in Handler : lease'[h] # Lease
      <3>1. \A h \in Handler : lease[h] <= Lease
        BY LeaseType DEF WorkInv, HandlersType, TypeOK
      <3> QED
        BY <2>1, <3>1, LeaseType
    <2>3. ASSUME NEW g \in Handler, NEW h \in Handler,
                 lease'[g] = lease'[h], lease'[g] > 0
          PROVE  lease[g] = lease[h] /\ lease[g] > 0
      BY <2>1, <2>3
    <2>4. UNCHANGED <<durable, pc, delivery>>
      BY DEF Tick, worldVars
    <2> QED
      BY <2>2, <2>3, <2>4 DEF WorkInv, LeasesInv
  <1> QED
    BY <1>1, <1>2, <1>3 DEF WorkInv

LEMMA AlarmKeepsInv ==
    ASSUME WorkInv, NEW d \in Delivery, Alarm(d)
    PROVE  WorkInv'
  <1> USE DEF InProgress, Processing, Outcome
  <1>1. HandlersType'
    BY LeaseType, RecordBounds
       DEF WorkInv, HandlersType, TypeOK, Alarm, Delete, handlerVars,
           worldVars, history
  <1>2. EventsInv'
    BY Sentinels
       DEF WorkInv, HandlersType, TypeOK, EventsInv, Alarm, SignalOf,
           handlerVars, worldVars, history
  <1>3. LeasesInv'
    BY LeaseType
       DEF WorkInv, HandlersType, TypeOK, LeasesInv, Alarm, Delete,
           handlerVars, Live, worldVars, history
  <1> QED
    BY <1>1, <1>2, <1>3 DEF WorkInv

LEMMA NextKeepsInv == WorkInv /\ [Next]_vars => WorkInv'
  <1> SUFFICES ASSUME WorkInv, [Next]_vars PROVE WorkInv'
    OBVIOUS
  <1>1. CASE UNCHANGED vars
    BY <1>1 DEF vars, worldVars, history, storeVars, handlerVars, WorkInv, TypeOK,
                HandlersType, EventsInv, LeasesInv, InProgress, SignalOf
  <1>2. CASE Next
    BY <1>2, ReceiveKeepsInv, LostClaimKeepsInv, InvalidateKeepsInv,
       CompleteKeepsInv, LostCompletionKeepsInv, ReleaseKeepsInv,
       ReplyKeepsInv, StopKeepsInv, RestartKeepsInv, TickKeepsInv,
       AlarmKeepsInv DEF Next
  <1> QED
    BY <1>1, <1>2

-----------------------------------------------------------------------------
(* Who has a lease *)

\* Those whose second is that of a live lease are those that claimed it.
OwnersInv ==
    \A d \in Delivery :
       Live(record[d]) /\ record[d].status = "processing" =>
          \A h \in Handler :
             h \in owners[d] <=> /\ InProgress(h) /\ delivery[h] = d
                                /\ lease[h] = record[d].left

\* The steps that leave a record, or its lease and those who may have it, alone.
OwnersStay(d) ==
    Live(record'[d]) /\ record'[d].status = "processing" =>
       \A h \in Handler :
          h \in owners'[d] <=> /\ pc'[h] \in Processing /\ delivery'[h] = d
                              /\ lease'[h] = record'[d].left

LEMMA OwnersStayed ==
    ASSUME \A d \in Delivery : OwnersStay(d)
    PROVE  OwnersInv'
  BY DEF OwnersStay, OwnersInv, InProgress, Live

LEMMA ReceiveKeepsOwners ==
    ASSUME WorkInv, OwnersInv, NEW h \in Handler, NEW d \in Delivery,
           Receive(h, d)
    PROVE  OwnersInv'
  <1> USE DEF InProgress, Processing
  <1>1. pc[h] = "idle"
    BY DEF Receive
  <1>2. CASE pc'[h] = "reply"
    <2>1. /\ UNCHANGED <<record, lease, owners>>
          /\ pc' = [pc EXCEPT ![h] = "reply"]
          /\ delivery' = [delivery EXCEPT ![h] = d]
      BY <1>2, ReceiveAnswers DEF WorkInv
    <2> QED
      BY <1>1, <2>1 DEF WorkInv, HandlersType, TypeOK, OwnersInv, Live
  <1>3. CASE pc'[h] # "reply"
    <2>1. /\ record'[d] = [status |-> "processing", left |-> Lease]
          /\ \A e \in Delivery \ {d} : \/ record'[e] = record[e]
                                       \/ ~ durable /\ record'[e] = None
          /\ lease' = [lease EXCEPT ![h] = Lease]
          /\ pc' = [pc EXCEPT ![h] = "invalidate"]
          /\ delivery' = [delivery EXCEPT ![h] = d]
          /\ owners' = [owners EXCEPT ![d] = {h} \cup Sharing(d)]
      BY <1>3, ReceiveClaims DEF WorkInv
    <2>2. OwnersStay(d)
      BY <1>1, <2>1 DEF OwnersStay, Sharing, WorkInv, HandlersType, TypeOK
    <2>3. ASSUME NEW e \in Delivery \ {d} PROVE OwnersStay(e)
      <3>1. CASE record'[e] = record[e]
        BY <1>1, <2>1, <3>1
           DEF OwnersStay, OwnersInv, WorkInv, HandlersType, TypeOK
      <3>2. CASE record'[e] = None
        BY <3>2 DEF OwnersStay, Live
      <3> QED
        BY <2>1, <3>1, <3>2
    <2> QED
      BY <2>2, <2>3, OwnersStayed
  <1> QED
    BY <1>2, <1>3

LEMMA LostClaimKeepsOwners ==
    ASSUME WorkInv, OwnersInv, NEW h \in Handler, NEW d \in Delivery,
           ClaimAnswerLost(h, d)
    PROVE  OwnersInv'
  <1> USE DEF InProgress, Processing
  <1>1. /\ record'[d] = [status |-> "processing", left |-> Lease]
        /\ \A e \in Delivery \ {d} : \/ record'[e] = record[e]
                                     \/ ~ durable /\ record'[e] = None
    BY PutTypes DEF ClaimAnswerLost, WorkInv, HandlersType, TypeOK
  <1>2. /\ durable /\ pc[h] = "idle" /\ Claimable(d) /\ UNCHANGED lease
        /\ pc' = [pc EXCEPT ![h] = "reply"]
        /\ delivery' = [delivery EXCEPT ![h] = d]
        /\ owners' = [owners EXCEPT ![d] = {}]
    BY DEF ClaimAnswerLost, Answer
  <1>3. \A g \in Handler : InProgress(g) /\ delivery[g] = d => lease[g] # Lease
    BY <1>2 DEF WorkInv, LeasesInv, Claimable
  <1>4. OwnersStay(d)
    BY <1>1, <1>2, <1>3 DEF OwnersStay, WorkInv, HandlersType, TypeOK
  <1>5. ASSUME NEW e \in Delivery \ {d} PROVE OwnersStay(e)
    <2>1. record'[e] = record[e]
      BY <1>1, <1>2
    <2> QED
      BY <1>2, <2>1 DEF OwnersStay, OwnersInv, WorkInv, HandlersType, TypeOK
  <1> QED
    BY <1>4, <1>5, OwnersStayed

\* A handler that ends its record, or goes on where it is not its own.
LEMMA EndingKeepsOwners ==
    ASSUME WorkInv, OwnersInv, NEW h \in Handler, InProgress(h),
           \A e \in Delivery \ {delivery[h]} : record'[e] = record[e],
           \/ record'[delivery[h]] = None
           \/ record'[delivery[h]].status = "completed"
           \/ /\ record'[delivery[h]] = record[delivery[h]]
              /\ pc'[h] = "release" \/ ~ Mine(h),
           \A g \in Handler \ {h} : pc'[g] = pc[g],
           UNCHANGED <<delivery, lease, owners>>
    PROVE  OwnersInv'
  <1> USE DEF InProgress, Processing
  <1>1. ASSUME NEW e \in Delivery \ {delivery[h]} PROVE OwnersStay(e)
    BY <1>1 DEF OwnersStay, OwnersInv
  <1>2. OwnersStay(delivery[h])
    <2>1. CASE record'[delivery[h]] = None
      BY <2>1 DEF OwnersStay, Live
    <2>2. CASE record'[delivery[h]].status = "completed"
      BY <2>2 DEF OwnersStay
    <2>3. CASE /\ record'[delivery[h]] = record[delivery[h]]
               /\ pc'[h] = "release" \/ ~ Mine(h)
      <3>1. delivery[h] \in Delivery
        BY DEF WorkInv, HandlersType
      <3> QED
        BY <2>3, <3>1 DEF OwnersStay, OwnersInv, Mine, Live
    <2> QED
      BY <2>1, <2>2, <2>3
  <1> QED
    BY <1>1, <1>2, OwnersStayed

\* What completing does to the records.
LEMMA CompletedRecords ==
    ASSUME WorkInv, NEW h \in Handler, InProgress(h), CompleteRecord(h)
    PROVE  /\ delivery[h] \in Delivery
           /\ \A e \in Delivery \ {delivery[h]} : record'[e] = record[e]
           /\ Mine(h) /\ lease[h] > 0 =>
                record'[delivery[h]] =
                  [status |-> "completed", left |-> Completed]
           /\ Mine(h) /\ ~ (lease[h] > 0) => record'[delivery[h]] = None
           /\ ~ Mine(h) => record' = record
  BY DEF CompleteRecord, Delete, storeVars, WorkInv, HandlersType, TypeOK,
         InProgress

LEMMA CompleteKeepsOwners ==
    ASSUME WorkInv, OwnersInv, NEW h \in Handler, Complete(h)
    PROVE  OwnersInv'
  <1>1. /\ InProgress(h) /\ CompleteRecord(h)
        /\ \A g \in Handler \ {h} : pc'[g] = pc[g]
        /\ UNCHANGED <<delivery, lease, owners>>
        /\ ~ Mine(h) => pc'[h] = "release"
    BY DEF Complete, Answer, InProgress, Processing, history, WorkInv,
           HandlersType, TypeOK
  <1> QED
    BY <1>1, CompletedRecords, EndingKeepsOwners

LEMMA LostCompletionKeepsOwners ==
    ASSUME WorkInv, OwnersInv, NEW h \in Handler, CompleteAnswerLost(h)
    PROVE  OwnersInv'
  <1>1. /\ InProgress(h)
        /\ CompleteRecord(h) \/ record' = record
        /\ \A g \in Handler \ {h} : pc'[g] = pc[g]
        /\ UNCHANGED <<delivery, lease, owners>>
        /\ pc'[h] = "release"
    BY DEF CompleteAnswerLost, InProgress, Processing, history, WorkInv,
           HandlersType, TypeOK, storeVars
  <1>2. CASE CompleteRecord(h)
    BY <1>1, <1>2, CompletedRecords, EndingKeepsOwners
  <1>3. CASE record' = record
    BY <1>1, <1>3, EndingKeepsOwners
  <1> QED
    BY <1>1, <1>2, <1>3

\* What giving a lease back does to the records.
LEMMA ReleasedRecords ==
    ASSUME WorkInv, NEW h \in Handler, Release(h)
    PROVE  /\ InProgress(h) /\ delivery[h] \in Delivery
           /\ \A e \in Delivery \ {delivery[h]} : record'[e] = record[e]
           /\ IF Mine(h) THEN record'[delivery[h]] = None ELSE record' = record
           /\ pc' = [pc EXCEPT ![h] = "reply"]
           /\ UNCHANGED <<delivery, lease, outcome, owners, dropped, done,
                          durable, eventOf>>
  BY DEF Release, Delete, storeVars, worldVars, history, WorkInv, HandlersType,
         TypeOK, InProgress, Processing

LEMMA ReleaseKeepsOwners ==
    ASSUME WorkInv, OwnersInv, NEW h \in Handler, Release(h)
    PROVE  OwnersInv'
  <1>1. \A g \in Handler \ {h} : pc'[g] = pc[g]
    BY ReleasedRecords DEF WorkInv, HandlersType, TypeOK
  <1> QED
    BY <1>1, ReleasedRecords, EndingKeepsOwners

LEMMA IdleKeepsOwners ==
    ASSUME WorkInv, OwnersInv, NEW h \in Handler, Idle(h), UNCHANGED record
    PROVE  OwnersInv'
  <1> SUFFICES ASSUME NEW d \in Delivery PROVE OwnersStay(d)
    BY OwnersStayed
  <1> QED
    BY DEF Idle, OwnersStay, OwnersInv, InProgress, Processing, WorkInv,
           HandlersType, TypeOK

LEMMA TickKeepsOwners ==
    ASSUME WorkInv, OwnersInv, Tick
    PROVE  OwnersInv'
  <1> SUFFICES ASSUME NEW d \in Delivery PROVE OwnersStay(d)
    BY OwnersStayed
  <1> SUFFICES ASSUME Live(record'[d]), record'[d].status = "processing",
                      NEW h \in Handler
               PROVE  h \in owners'[d] <=>
                         /\ pc'[h] \in Processing /\ delivery'[h] = d
                         /\ lease'[h] = record'[d].left
    BY DEF OwnersStay
  <1>1. /\ record[d] \in Record /\ Live(record[d])
        /\ record'[d] = [record[d] EXCEPT !.left = @ - 1]
    BY DEF Tick, Live, WorkInv, HandlersType, TypeOK
  <1>2. /\ record[d].status = "processing"
        /\ record'[d].left = record[d].left - 1
        /\ record[d].left \in Nat /\ record[d].left > 1
    BY <1>1, LeaseType DEF Record, Live
  <1>3. h \in owners[d] <=> /\ InProgress(h) /\ delivery[h] = d
                           /\ lease[h] = record[d].left
    BY <1>1, <1>2 DEF OwnersInv
  <1>4. lease'[h] = record'[d].left <=> lease[h] = record[d].left
    <2>1. /\ lease[h] \in Nat
          /\ lease'[h] = IF lease[h] > 0 THEN lease[h] - 1 ELSE 0
      BY LeaseType DEF Tick, WorkInv, HandlersType, TypeOK
    <2> QED
      BY <1>2, <2>1
  <1> QED
    BY <1>3, <1>4 DEF Tick, history, InProgress

LEMMA AlarmKeepsOwners ==
    ASSUME WorkInv, OwnersInv, NEW d \in Delivery, Alarm(d)
    PROVE  OwnersInv'
  <1> SUFFICES ASSUME NEW e \in Delivery PROVE OwnersStay(e)
    BY OwnersStayed
  <1> QED
    BY DEF Alarm, Delete, OwnersStay, OwnersInv, InProgress, WorkInv, Live,
           HandlersType, TypeOK, handlerVars, history

LEMMA NextKeepsOwners == WorkInv /\ OwnersInv /\ [Next]_vars => OwnersInv'
  <1> SUFFICES ASSUME WorkInv, OwnersInv, [Next]_vars PROVE OwnersInv'
    OBVIOUS
  <1>1. CASE UNCHANGED vars
    BY <1>1 DEF vars, storeVars, handlerVars, history, OwnersInv, InProgress,
                Live
  <1>2. ASSUME NEW h \in Handler, Invalidate(h) PROVE OwnersInv'
    BY <1>2 DEF Invalidate, storeVars, OwnersInv, InProgress, Processing,
                WorkInv, HandlersType, TypeOK, Live
  <1>3. ASSUME NEW h \in Handler, Reply(h) \/ Stop(h) PROVE OwnersInv'
    BY <1>3, IdleKeepsOwners DEF Reply, Stop, storeVars
  <1>4. CASE Restart
    BY <1>4 DEF Restart, OwnersInv, Live
  <1>5. CASE Next
    BY <1>2, <1>3, <1>4, <1>5, ReceiveKeepsOwners, LostClaimKeepsOwners,
       CompleteKeepsOwners, LostCompletionKeepsOwners, ReleaseKeepsOwners,
       TickKeepsOwners, AlarmKeepsOwners DEF Next
  <1> QED
    BY <1>1, <1>5

-----------------------------------------------------------------------------
(* What was acknowledged *)

\* The event of a delivery took its effect, or will, or its claim was lost.
Handled(d) ==
    \/ Invalidated(d)
    \/ d \in dropped
    \/ \E g \in Handler : pc[g] = "invalidate" /\ delivery[g] = d

\* So it is with what is claimed or done, and with what a duplicate was of.
HandledInv ==
    /\ \A d \in Delivery : Live(record[d]) => Handled(d)
    /\ \A h \in Handler : outcome[h] = "duplicate" =>
          /\ pc[h] = "reply" /\ delivery[h] \in Delivery
          /\ Handled(delivery[h])

LEMMA InvalidatedMeans ==
    ASSUME NEW d, SignalOf(d) # "invalid"
    PROVE  Invalidates(SignalOf(d)) = Affects(eventOf[d])
  BY DEF SignalOf, Signal, Invalidates, Affects, InstallationActions

\* Unless the process restarts, what is handled stays so.
LEMMA HandledStays ==
    ASSUME WorkInv, Next, ~ Restart, NEW d, Handled(d)
    PROVE  Handled(d)'
  <1> USE DEF Handled, Invalidated
  <1>1. ASSUME NEW h \in Handler, NEW e \in Delivery, Receive(h, e)
        PROVE  Handled(d)'
    <2>1. /\ pc[h] = "idle" /\ \A g \in Handler \ {h} : pc'[g] = pc[g]
          /\ \A g \in Handler \ {h} : delivery'[g] = delivery[g]
          /\ UNCHANGED <<done, dropped, eventOf>>
      BY <1>1 DEF Receive, Take, Answer, worldVars, WorkInv, HandlersType,
                  TypeOK
    <2> QED
      BY <2>1
  <1>2. ASSUME NEW h \in Handler, NEW e \in Delivery, ClaimAnswerLost(h, e)
        PROVE  Handled(d)'
    BY <1>2 DEF ClaimAnswerLost, Answer, worldVars, WorkInv, HandlersType,
                TypeOK
  <1>3. ASSUME NEW h \in Handler, Invalidate(h) PROVE Handled(d)'
    <2>1. /\ done' = done \cup {<<delivery[h],
                                  Invalidates(SignalOf(delivery[h]))>>}
          /\ SignalOf(delivery[h]) # "invalid" /\ UNCHANGED <<dropped, eventOf>>
          /\ \A g \in Handler \ {h} : pc'[g] = pc[g] /\ UNCHANGED delivery
      BY <1>3 DEF Invalidate, worldVars, WorkInv, HandlersType, TypeOK,
                  EventsInv, Processing
    <2>2. <<delivery[h], Affects(eventOf[delivery[h]])>> \in done'
      BY <2>1, InvalidatedMeans
    <2> QED
      BY <2>1, <2>2
  <1>4. ASSUME NEW h \in Handler, Complete(h) \/ CompleteAnswerLost(h)
        PROVE  Handled(d)'
    BY <1>4 DEF Complete, CompleteAnswerLost, Answer, worldVars, history,
                WorkInv, HandlersType, TypeOK
  <1>5. ASSUME NEW h \in Handler, Release(h) \/ Reply(h) PROVE Handled(d)'
    BY <1>5 DEF Release, Reply, Idle, worldVars, history, WorkInv,
                HandlersType, TypeOK
  <1>6. ASSUME NEW h \in Handler, Stop(h) PROVE Handled(d)'
    BY <1>6 DEF Stop, Idle, worldVars, WorkInv, HandlersType, TypeOK
  <1>7. ASSUME Tick \/ \E e \in Delivery : Alarm(e) PROVE Handled(d)'
    BY <1>7 DEF Tick, Alarm, handlerVars, worldVars, history
  <1> QED
    BY <1>1, <1>2, <1>3, <1>4, <1>5, <1>6, <1>7 DEF Next

\* A record that comes to live is that of a claim, or was live.
LEMMA LiveRecords ==
    ASSUME WorkInv, Next, NEW d \in Delivery, Live(record'[d]),
           ~ Live(record[d])
    PROVE  Handled(d)'
  <1> USE DEF Handled
  <1>1. ASSUME NEW h \in Handler, NEW e \in Delivery, Receive(h, e)
        PROVE  Handled(d)'
    <2>1. CASE pc'[h] = "reply"
      BY <1>1, <2>1, ReceiveAnswers DEF WorkInv
    <2>2. CASE pc'[h] # "reply"
      <3>1. /\ \A x \in Delivery \ {e} : \/ record'[x] = record[x]
                                         \/ ~ durable /\ record'[x] = None
            /\ pc' = [pc EXCEPT ![h] = "invalidate"]
            /\ delivery' = [delivery EXCEPT ![h] = e]
        BY <1>1, <2>2, ReceiveClaims DEF WorkInv
      <3>2. d = e
        BY <3>1 DEF Live
      <3> QED
        BY <3>1, <3>2 DEF WorkInv, HandlersType, TypeOK
    <2> QED
      BY <2>1, <2>2
  <1>2. ASSUME NEW h \in Handler, NEW e \in Delivery, ClaimAnswerLost(h, e)
        PROVE  Handled(d)'
    <2>1. /\ \A x \in Delivery \ {e} : \/ record'[x] = record[x]
                                       \/ ~ durable /\ record'[x] = None
          /\ dropped' = dropped \cup {e}
      BY <1>2, PutTypes DEF ClaimAnswerLost, WorkInv, HandlersType, TypeOK
    <2>2. d = e
      BY <2>1 DEF Live
    <2> QED
      BY <2>1, <2>2
  <1>3. ASSUME NEW h \in Handler, Invalidate(h) \/ Reply(h) \/ Stop(h)
        PROVE  FALSE
    BY <1>3 DEF Invalidate, Reply, Stop, storeVars
  <1>4. ASSUME NEW h \in Handler, CompleteRecord(h), InProgress(h)
        PROVE  FALSE
    <2>1. CASE d = delivery[h] /\ Mine(h) /\ lease[h] > 0
      BY <2>1 DEF Mine, Live
    <2>2. CASE ~ (d = delivery[h] /\ Mine(h) /\ lease[h] > 0)
      BY <1>4, <2>2, CompletedRecords DEF Live
    <2> QED
      BY <2>1, <2>2
  <1>5. ASSUME NEW h \in Handler, Complete(h) \/ CompleteAnswerLost(h)
        PROVE  FALSE
    BY <1>4, <1>5 DEF Complete, CompleteAnswerLost, InProgress, Processing,
                      storeVars
  <1>6. ASSUME NEW h \in Handler, Release(h) PROVE FALSE
    <2>1. CASE d = delivery[h] /\ Mine(h)
      BY <1>6, <2>1, ReleasedRecords DEF Live
    <2>2. CASE ~ (d = delivery[h] /\ Mine(h))
      BY <1>6, <2>2, ReleasedRecords
    <2> QED
      BY <2>1, <2>2
  <1>7. ASSUME Tick \/ Restart PROVE FALSE
    BY <1>7 DEF Tick, Restart, Live
  <1>8. ASSUME NEW e \in Delivery, Alarm(e) PROVE FALSE
    BY <1>8 DEF Alarm, Delete, Live, WorkInv, HandlersType, TypeOK
  <1> QED
    BY <1>1, <1>2, <1>3, <1>5, <1>6, <1>7, <1>8 DEF Next

\* A handler that comes to answer a duplicate does so to a live record.
LEMMA DuplicatesAreLive ==
    ASSUME WorkInv, Next, NEW h \in Handler,
           outcome'[h] = "duplicate", outcome[h] # "duplicate"
    PROVE  /\ pc'[h] = "reply" /\ delivery'[h] \in Delivery
           /\ Live(record[delivery'[h]]) /\ ~ Restart
  <1>1. ASSUME NEW g \in Handler, NEW e \in Delivery, Receive(g, e)
        PROVE  /\ pc'[h] = "reply" /\ delivery'[h] \in Delivery
               /\ Live(record[delivery'[h]])
    <2>1. CASE pc'[g] = "reply"
      <3>1. PICK x \in {"refused", "duplicate"} :
              /\ outcome' = [outcome EXCEPT ![g] = x]
              /\ x = "duplicate" => ~ Claimable(e)
        BY <1>1, <2>1, ReceiveAnswers DEF WorkInv
      <3>2. h = g /\ delivery'[h] = e /\ Live(record[e])
        BY <1>1, <3>1 DEF Receive, Claimable, WorkInv, HandlersType, TypeOK
      <3> QED
        BY <2>1, <3>2
    <2>2. CASE pc'[g] # "reply"
      BY <1>1, <2>2, ReceiveClaims DEF WorkInv
    <2> QED
      BY <2>1, <2>2
  <1>2. ASSUME NEW g \in Handler, NEW e \in Delivery, ClaimAnswerLost(g, e)
        PROVE  FALSE
    BY <1>2 DEF ClaimAnswerLost, Answer, WorkInv, HandlersType, TypeOK
  <1>3. ASSUME NEW g \in Handler, \/ Invalidate(g) \/ Complete(g)
                                  \/ CompleteAnswerLost(g) \/ Release(g)
        PROVE  FALSE
    BY <1>3 DEF Invalidate, Complete, CompleteAnswerLost, Release, Answer,
                WorkInv, HandlersType, TypeOK
  <1>4. ASSUME NEW g \in Handler, Reply(g) \/ Stop(g) PROVE FALSE
    BY <1>4, Sentinels DEF Reply, Stop, Idle, WorkInv, HandlersType, TypeOK
  <1>5. Restart => FALSE
    BY Sentinels DEF Restart
  <1>6. ASSUME Tick \/ \E e \in Delivery : Alarm(e) PROVE FALSE
    BY <1>6 DEF Tick, Alarm, handlerVars
  <1> QED
    BY <1>1, <1>2, <1>3, <1>4, <1>5, <1>6 DEF Next

\* A handler that answers goes on to no other delivery before it is idle.
LEMMA RepliesStay ==
    ASSUME WorkInv, Next, NEW h \in Handler,
           outcome[h] = "duplicate", pc[h] = "reply",
           outcome'[h] = "duplicate"
    PROVE  pc'[h] = "reply" /\ delivery'[h] = delivery[h] /\ ~ Restart
  <1>1. ASSUME NEW g \in Handler, NEW e \in Delivery,
               Receive(g, e) \/ ClaimAnswerLost(g, e)
        PROVE  pc'[h] = "reply" /\ delivery'[h] = delivery[h]
    <2>1. g # h
      BY <1>1 DEF Receive, ClaimAnswerLost
    <2> QED
      BY <1>1, <2>1 DEF Receive, Take, ClaimAnswerLost, Answer, WorkInv,
                        HandlersType, TypeOK
  <1>2. ASSUME NEW g \in Handler, \/ Invalidate(g) \/ Complete(g)
                                  \/ CompleteAnswerLost(g) \/ Release(g)
        PROVE  pc'[h] = "reply" /\ delivery'[h] = delivery[h]
    BY <1>2 DEF Invalidate, Complete, CompleteAnswerLost, Release, Answer,
                WorkInv, HandlersType, TypeOK
  <1>3. ASSUME NEW g \in Handler, Reply(g) \/ Stop(g)
        PROVE  pc'[h] = "reply" /\ delivery'[h] = delivery[h]
    BY <1>3, Sentinels DEF Reply, Stop, Idle, WorkInv, HandlersType, TypeOK
  <1>4. Restart => FALSE
    BY Sentinels DEF Restart
  <1>5. ASSUME Tick \/ \E e \in Delivery : Alarm(e)
        PROVE  pc'[h] = "reply" /\ delivery'[h] = delivery[h]
    BY <1>5 DEF Tick, Alarm, handlerVars
  <1> QED
    BY <1>1, <1>2, <1>3, <1>4, <1>5 DEF Next

LEMMA NextKeepsHandled == WorkInv /\ HandledInv /\ [Next]_vars => HandledInv'
  <1> SUFFICES ASSUME WorkInv, HandledInv, [Next]_vars PROVE HandledInv'
    OBVIOUS
  <1>1. CASE UNCHANGED vars
    BY <1>1 DEF vars, worldVars, storeVars, handlerVars, history, HandledInv,
                Handled, Invalidated, Live
  <1>2. CASE Next
    <2>1. ASSUME NEW d \in Delivery, Live(record'[d]) PROVE Handled(d)'
      <3>1. CASE ~ Live(record[d])
        BY <1>2, <2>1, <3>1, LiveRecords
      <3>2. CASE Live(record[d])
        <4>1. Handled(d)
          BY <3>2 DEF HandledInv
        <4>2. ~ Restart
          BY <2>1 DEF Restart, Live
        <4> QED
          BY <1>2, <4>1, <4>2, HandledStays
      <3> QED
        BY <3>1, <3>2
    <2>2. ASSUME NEW h \in Handler, outcome'[h] = "duplicate"
          PROVE  /\ pc'[h] = "reply" /\ delivery'[h] \in Delivery
                 /\ \A d : d = delivery'[h] => Handled(d)'
      <3>1. CASE outcome[h] = "duplicate"
        <4>1. pc'[h] = "reply" /\ delivery'[h] = delivery[h] /\ ~ Restart
          BY <1>2, <2>2, <3>1, RepliesStay DEF HandledInv
        <4>2. delivery[h] \in Delivery /\ Handled(delivery[h])
          BY <3>1 DEF HandledInv
        <4> QED
          BY <1>2, <4>1, <4>2, HandledStays
      <3>2. CASE outcome[h] # "duplicate"
        <4>1. /\ pc'[h] = "reply" /\ delivery'[h] \in Delivery
              /\ Live(record[delivery'[h]]) /\ ~ Restart
          BY <1>2, <2>2, <3>2, DuplicatesAreLive
        <4>2. Handled(delivery'[h])
          BY <4>1 DEF HandledInv
        <4> QED
          BY <1>2, <4>1, <4>2, HandledStays
      <3> QED
        BY <3>1, <3>2
    <2> QED
      BY <2>1, <2>2 DEF HandledInv, Live, Handled, Invalidated
  <1> QED
    BY <1>1, <1>2

DeliveryInv == WorkInv /\ OwnersInv /\ HandledInv

\* Records, handlers and leases keep their types; a live lease is had by
\* those that claimed it, and what has a live record is handled.
THEOREM DeliveryInvariant == Spec => []DeliveryInv
  <1>1. Init => DeliveryInv
    <2>1. Init => OwnersInv
      BY DEF Init, OwnersInv, Live
    <2>2. Init => HandledInv
      BY Sentinels DEF Init, HandledInv, Live
    <2> QED
      BY <2>1, <2>2, InitInv DEF DeliveryInv
  <1>2. DeliveryInv /\ [Next]_vars => DeliveryInv'
    BY NextKeepsInv, NextKeepsOwners, NextKeepsHandled DEF DeliveryInv
  <1> QED
    BY <1>1, <1>2, PTL DEF Spec

\* A delivery answered with success, as a duplicate too, is processed or
\* about to be, unless the handler that claimed it was lost.
THEOREM AcknowledgedDeliveries == Spec => []AcknowledgedIsProcessed
  <1>1. DeliveryInv => AcknowledgedIsProcessed
    <2> SUFFICES ASSUME DeliveryInv, NEW h \in Handler,
                        outcome[h] \in {"accepted", "duplicate"}
                 PROVE  LET d == delivery[h]
                        IN  \/ Invalidated(d)
                            \/ outcome[h] = "duplicate" /\ d \in dropped
                            \/ /\ outcome[h] = "duplicate"
                               /\ \E g \in Handler :
                                     pc[g] = "invalidate" /\ delivery[g] = d
      BY DEF AcknowledgedIsProcessed
    <2>1. CASE outcome[h] = "accepted"
      BY <2>1, InvalidatedMeans DEF DeliveryInv, WorkInv, EventsInv, Invalidated
    <2>2. CASE outcome[h] = "duplicate"
      BY <2>2 DEF DeliveryInv, HandledInv, Handled
    <2> QED
      BY <2>1, <2>2
  <1> QED
    BY <1>1, DeliveryInvariant, PTL

-----------------------------------------------------------------------------
(* The refinement of DeliveryLease *)

Items == [d \in Delivery |-> ItemOf(d)]
Works == [h \in Handler |-> WorkOf(h)]

NoItem == [state |-> "free", left |-> 0, by |-> {}]
HeldItem(S) == [state |-> "held", left |-> Lease, by |-> S]
DoneItem == [state |-> "done", left |-> Completed, by |-> {}]

At(at, d) == [at |-> at, delivery |-> d]

\* A handler has what the abstract lease says it has.
LEMMA HasIsMine ==
    ASSUME DeliveryInv, NEW h \in Handler, InProgress(h)
    PROVE  /\ delivery[h] \in Delivery
           /\ LeaseSpec!Has(h, delivery[h]) <=> Mine(h) /\ lease[h] > 0
  <1> DEFINE d == delivery[h]
  <1>1. d \in Delivery /\ record \in [Delivery -> Record \cup {None}]
        /\ lease[h] \in Nat
    BY LeaseType DEF DeliveryInv, WorkInv, HandlersType, TypeOK, InProgress
  <1>2. LeaseSpec!Has(h, d) <=> /\ Live(record[d])
                                /\ record[d].status = "processing"
                                /\ h \in owners[d]
    BY <1>1 DEF LeaseSpec!Has, ItemOf, Live, Record
  <1>3. Live(record[d]) /\ record[d].status = "processing" =>
           (h \in owners[d] <=> lease[h] = record[d].left)
    BY <1>1 DEF DeliveryInv, OwnersInv
  <1>4. LeaseSpec!Has(h, d) <=> Mine(h) /\ lease[h] > 0
    BY <1>2, <1>3 DEF Mine, Live
  <1> QED
    BY <1>1, <1>4

LEMMA SameItem ==
    ASSUME NEW d \in Delivery, record'[d] = record[d], owners'[d] = owners[d]
    PROVE  ItemOf(d)' = ItemOf(d)
  BY DEF ItemOf, Live

LEMMA SameWork ==
    ASSUME NEW h, pc'[h] = pc[h], delivery'[h] = delivery[h],
           outcome'[h] = outcome[h]
    PROVE  WorkOf(h)' = WorkOf(h)
  BY DEF WorkOf

\* One handler goes on.
LEMMA WorkGoes ==
    ASSUME DeliveryInv, NEW h \in Handler, NEW x, WorkOf(h)' = x,
           \A g \in Handler \ {h} : WorkOf(g)' = WorkOf(g)
    PROVE  Works' = [Works EXCEPT ![h] = x]
  BY DEF Works

LEMMA ItemBecomes ==
    ASSUME NEW d \in Delivery, NEW x, ItemOf(d)' = x,
           \A e \in Delivery \ {d} : ItemOf(e)' = ItemOf(e)
    PROVE  Items' = [Items EXCEPT ![d] = x]
  BY DEF Items

LEMMA ItemsStay ==
    ASSUME \A e \in Delivery : ItemOf(e)' = ItemOf(e)
    PROVE  Items' = Items
  BY DEF Items

\* An item by its record.
LEMMA ItemByRecord ==
    ASSUME NEW d \in Delivery
    PROVE  /\ ~ Live(record[d]) => ItemOf(d) = NoItem
           /\ ~ Live(record'[d]) => ItemOf(d)' = NoItem
           /\ record'[d] = [status |-> "processing", left |-> Lease] =>
                ItemOf(d)' = HeldItem(owners'[d])
           /\ record'[d] = [status |-> "completed", left |-> Completed] =>
                ItemOf(d)' = DoneItem
  <1>1. /\ [status |-> "processing", left |-> Lease].status # "completed"
        /\ [status |-> "processing", left |-> Lease].left = Lease
        /\ [status |-> "completed", left |-> Completed].status = "completed"
        /\ [status |-> "completed", left |-> Completed].left = Completed
    OBVIOUS
  <1> QED
    BY <1>1, NewIsLive DEF ItemOf, NoItem, HeldItem, DoneItem, Live

LEMMA ReceiveRefines ==
    ASSUME DeliveryInv, NEW h \in Handler, NEW d \in Delivery, Receive(h, d)
    PROVE  LeaseSpec!Next
  <1> USE DEF Processing
  <1>1. pc[h] = "idle" /\ UNCHANGED durable
    BY DEF Receive, worldVars
  <1>2. Works[h] = LeaseSpec!Idle
    BY <1>1 DEF Works, WorkOf, LeaseSpec!Idle
  <1>3. CASE pc'[h] = "reply"
    <2>1. PICK x \in {"refused", "duplicate"} :
            outcome' = [outcome EXCEPT ![h] = x]
      BY <1>3, ReceiveAnswers DEF DeliveryInv, WorkInv
    <2>2. /\ UNCHANGED <<record, owners>>
          /\ pc' = [pc EXCEPT ![h] = "reply"]
          /\ delivery' = [delivery EXCEPT ![h] = d]
      BY <1>3, ReceiveAnswers DEF DeliveryInv, WorkInv
    <2>3. WorkOf(h)' = At("answered", d)
      BY <2>1, <2>2 DEF WorkOf, At, DeliveryInv, WorkInv, HandlersType, TypeOK
    <2>4. \A g \in Handler \ {h} : WorkOf(g)' = WorkOf(g)
      BY <2>1, <2>2, SameWork DEF DeliveryInv, WorkInv, HandlersType, TypeOK
    <2>5. Items' = Items
      BY <2>2, SameItem, ItemsStay
    <2>6. Works' = [Works EXCEPT ![h] = At("answered", d)]
      BY <2>3, <2>4, WorkGoes
    <2>7. LeaseSpec!Decline(h, d)
      BY <1>1, <1>2, <2>5, <2>6
         DEF LeaseSpec!Decline, LeaseSpec!Goes, LeaseSpec!On, At, Items, Works
    <2> QED
      BY <2>7 DEF LeaseSpec!Next
  <1>4. CASE pc'[h] # "reply"
    <2> DEFINE D == {e \in Delivery \ {d} : record'[e] # record[e]}
               S == Sharing(d)
    <2>1. /\ record'[d] = [status |-> "processing", left |-> Lease]
          /\ \A e \in Delivery \ {d} : \/ record'[e] = record[e]
                                       \/ ~ durable /\ record'[e] = None
          /\ Claimable(d)
          /\ pc' = [pc EXCEPT ![h] = "invalidate"]
          /\ delivery' = [delivery EXCEPT ![h] = d]
          /\ owners' = [owners EXCEPT ![d] = {h} \cup Sharing(d)]
          /\ UNCHANGED outcome
      BY <1>4, ReceiveClaims DEF DeliveryInv, WorkInv
    <2>2. Items[d] = LeaseSpec!Free
      BY <2>1, ItemByRecord DEF Items, Claimable, NoItem, LeaseSpec!Free
    <2>3. durable => D = {} /\ S = {}
      <3>1. durable => D = {}
        BY <2>1
      <3>2. durable => \A g \in Handler : g \notin S
        BY <2>1 DEF Sharing, DeliveryInv, WorkInv, LeasesInv, InProgress,
                    Claimable
      <3> QED
        BY <3>1, <3>2 DEF Sharing
    <2>4. \A g \in S : Works[g] \in {At("claimed", d), At("missed", d)}
      BY DEF Sharing, Works, WorkOf, At
    <2>5. WorkOf(h)' = At("claimed", d)
      BY <2>1 DEF WorkOf, At, DeliveryInv, WorkInv, HandlersType, TypeOK
    <2>6. \A g \in Handler \ {h} : WorkOf(g)' = WorkOf(g)
      BY <2>1, SameWork DEF DeliveryInv, WorkInv, HandlersType, TypeOK
    <2>7. Works' = [Works EXCEPT ![h] = At("claimed", d)]
      BY <2>5, <2>6, WorkGoes
    <2>8. ItemOf(d)' = HeldItem(S \cup {h})
      <3>1. owners'[d] = S \cup {h}
        BY <2>1 DEF DeliveryInv, WorkInv, HandlersType, TypeOK
      <3> QED
        BY <2>1, <3>1, ItemByRecord
    <2>9. ASSUME NEW e \in Delivery \ {d}
          PROVE  ItemOf(e)' = IF e \in D THEN NoItem ELSE ItemOf(e)
      <3>1. CASE e \in D
        <4>1. ~ Live(record'[e])
          BY <2>1, <3>1 DEF Live
        <4> QED
          BY <3>1, <4>1, ItemByRecord
      <3>2. CASE e \notin D
        <4>1. record'[e] = record[e] /\ owners'[e] = owners[e]
          BY <2>1, <3>2 DEF DeliveryInv, WorkInv, HandlersType, TypeOK
        <4> QED
          BY <3>2, <4>1, SameItem
      <3> QED
        BY <3>1, <3>2
    <2>10. Items' = [e \in Delivery |-> IF e = d THEN HeldItem(S \cup {h})
                                        ELSE IF e \in D THEN NoItem ELSE Items[e]]
      BY <2>8, <2>9 DEF Items
    <2>11. LeaseSpec!Claim(h, d)
      <3>1. D \in SUBSET (Delivery \ {d}) /\ S \in SUBSET Handler
        BY DEF Sharing
      <3> HIDE DEF D, S
      <3> QED
        BY <1>1, <1>2, <2>2, <2>3, <2>4, <2>7, <2>10, <3>1
           DEF LeaseSpec!Claim, LeaseSpec!Goes, LeaseSpec!On, LeaseSpec!Held,
               LeaseSpec!Free, At, HeldItem, NoItem, Items, Works
    <2> QED
      BY <2>11 DEF LeaseSpec!Next
  <1> QED
    BY <1>3, <1>4

LEMMA LostClaimRefines ==
    ASSUME DeliveryInv, NEW h \in Handler, NEW d \in Delivery,
           ClaimAnswerLost(h, d)
    PROVE  LeaseSpec!Next
  <1>1. /\ record'[d] = [status |-> "processing", left |-> Lease]
        /\ \A e \in Delivery \ {d} : \/ record'[e] = record[e]
                                     \/ ~ durable /\ record'[e] = None
    BY PutTypes DEF ClaimAnswerLost, DeliveryInv, WorkInv, HandlersType, TypeOK
  <1>2. /\ durable /\ pc[h] = "idle" /\ Claimable(d) /\ UNCHANGED durable
        /\ pc' = [pc EXCEPT ![h] = "reply"]
        /\ delivery' = [delivery EXCEPT ![h] = d]
        /\ outcome' = [outcome EXCEPT ![h] = "failed"]
        /\ owners' = [owners EXCEPT ![d] = {}]
    BY DEF ClaimAnswerLost, Answer, worldVars
  <1>3. /\ WorkOf(h)' = At("answered", d)
        /\ \A g \in Handler \ {h} : WorkOf(g)' = WorkOf(g)
    BY <1>2, SameWork DEF WorkOf, At, DeliveryInv, WorkInv, HandlersType, TypeOK
  <1>4. Works' = [Works EXCEPT ![h] = At("answered", d)]
    BY <1>3, WorkGoes
  <1>5. ItemOf(d)' = HeldItem({})
    BY <1>1, <1>2, ItemByRecord DEF DeliveryInv, WorkInv, HandlersType, TypeOK
  <1>6. \A e \in Delivery \ {d} : ItemOf(e)' = ItemOf(e)
    BY <1>1, <1>2, SameItem DEF DeliveryInv, WorkInv, HandlersType, TypeOK
  <1>7. Items' = [Items EXCEPT ![d] = HeldItem({})]
    BY <1>5, <1>6, ItemBecomes
  <1>8. Items[d] = NoItem /\ Works[h] = LeaseSpec!Idle
    BY <1>2, ItemByRecord DEF Items, Works, WorkOf, Claimable, LeaseSpec!Idle
  <1>9. LeaseSpec!ClaimUnseen(h, d)
    BY <1>2, <1>4, <1>7, <1>8
       DEF LeaseSpec!ClaimUnseen, LeaseSpec!Goes, LeaseSpec!On, LeaseSpec!Held,
           LeaseSpec!Free, LeaseSpec!Becomes, At, HeldItem, NoItem, Items, Works
  <1> QED
    BY <1>9 DEF LeaseSpec!Next

LEMMA InvalidateRefines ==
    ASSUME DeliveryInv, NEW h \in Handler, Invalidate(h)
    PROVE  UNCHANGED <<durable, Items, Works>>
  <1>1. /\ UNCHANGED <<durable, record, owners, delivery, outcome>>
        /\ pc[h] = "invalidate" /\ pc' = [pc EXCEPT ![h] = "complete"]
    BY DEF Invalidate, worldVars, storeVars
  <1>2. Items' = Items
    BY <1>1, SameItem, ItemsStay
  <1>3. \A g \in Handler : WorkOf(g)' = WorkOf(g)
    BY <1>1 DEF WorkOf, DeliveryInv, WorkInv, HandlersType, TypeOK
  <1>4. Works' = Works
    BY <1>3 DEF Works
  <1> QED
    BY <1>1, <1>2, <1>4

\* The record of a handler that completes, or not.
LEMMA CompletedItems ==
    ASSUME DeliveryInv, NEW h \in Handler, InProgress(h), CompleteRecord(h),
           UNCHANGED <<owners, delivery>>
    PROVE  LET d == delivery[h]
           IN  IF LeaseSpec!Has(h, d)
               THEN Items' = [Items EXCEPT ![d] = DoneItem]
               ELSE Items' = Items
  <1> DEFINE d == delivery[h]
  <1>1. /\ d \in Delivery
        /\ \A e \in Delivery \ {d} : record'[e] = record[e]
        /\ Mine(h) /\ lease[h] > 0 =>
             record'[d] = [status |-> "completed", left |-> Completed]
        /\ Mine(h) /\ ~ (lease[h] > 0) => record'[d] = None
        /\ ~ Mine(h) => record' = record
    BY CompletedRecords DEF DeliveryInv
  <1>2. LeaseSpec!Has(h, d) <=> Mine(h) /\ lease[h] > 0
    BY HasIsMine
  <1>3. \A e \in Delivery \ {d} : ItemOf(e)' = ItemOf(e)
    BY <1>1, SameItem
  <1>4. CASE LeaseSpec!Has(h, d)
    <2>1. ItemOf(d)' = DoneItem
      BY <1>1, <1>2, <1>4, ItemByRecord
    <2> QED
      BY <1>1, <1>3, <1>4, <2>1, ItemBecomes
  <1>5. CASE ~ LeaseSpec!Has(h, d)
    <2>1. CASE ~ Mine(h)
      BY <1>1, <1>5, <2>1, SameItem, ItemsStay
    <2>2. CASE Mine(h) /\ ~ (lease[h] > 0)
      <3>1. ~ Live(record[d]) /\ ~ Live(record'[d])
        BY <1>1, <2>2 DEF Mine, Live
      <3>2. ItemOf(d)' = ItemOf(d)
        BY <1>1, <3>1, ItemByRecord
      <3> QED
        BY <1>1, <1>3, <1>5, <3>2, ItemsStay
    <2> QED
      BY <1>2, <1>5, <2>1, <2>2
  <1> QED
    BY <1>4, <1>5

LEMMA CompleteRefines ==
    ASSUME DeliveryInv, NEW h \in Handler, Complete(h)
    PROVE  LeaseSpec!Next
  <1> DEFINE d == delivery[h]
  <1>1. /\ pc[h] = "complete" /\ CompleteRecord(h)
        /\ UNCHANGED <<durable, delivery, lease, owners>>
        /\ IF Mine(h) /\ lease[h] > 0
           THEN /\ pc' = [pc EXCEPT ![h] = "reply"]
                /\ outcome' = [outcome EXCEPT ![h] = "accepted"]
           ELSE /\ pc' = [pc EXCEPT ![h] = "release"]
                /\ outcome' = [outcome EXCEPT ![h] = "unavailable"]
    BY DEF Complete, Answer, worldVars, history
  <1>2. InProgress(h)
    BY <1>1 DEF InProgress, Processing
  <1>3. d \in Delivery /\ (LeaseSpec!Has(h, d) <=> Mine(h) /\ lease[h] > 0)
    BY <1>2, HasIsMine
  <1>4. IF LeaseSpec!Has(h, d)
        THEN Items' = [Items EXCEPT ![d] = DoneItem] ELSE Items' = Items
    BY <1>1, <1>2, CompletedItems
  <1>5. \A g \in Handler \ {h} : WorkOf(g)' = WorkOf(g)
    BY <1>1, SameWork DEF DeliveryInv, WorkInv, HandlersType, TypeOK
  <1>6. WorkOf(h)' = At(IF LeaseSpec!Has(h, d) THEN "completed" ELSE "missed", d)
    <2> HIDE DEF LeaseSpec!Has
    <2> QED
      BY <1>1, <1>3 DEF WorkOf, At, DeliveryInv, WorkInv, HandlersType, TypeOK
  <1>7. Works' = [Works EXCEPT ![h] = WorkOf(h)']
    BY <1>5, WorkGoes
  <1>8. Works[h] = At("claimed", d)
    BY <1>1 DEF Works, WorkOf, At
  <1>9. CASE LeaseSpec!Has(h, d)
    <2>1. /\ Items' = [Items EXCEPT ![d] = DoneItem]
          /\ Works' = [Works EXCEPT ![h] = At("completed", d)]
      BY <1>4, <1>6, <1>7, <1>9
    <2>2. LeaseSpec!Complete(h, d)
      BY <1>1, <1>8, <1>9, <2>1
         DEF LeaseSpec!Complete, LeaseSpec!Goes, LeaseSpec!On, LeaseSpec!Done,
             LeaseSpec!Becomes, At, DoneItem, Items, Works
    <2> QED
      BY <1>3, <2>2 DEF LeaseSpec!Next
  <1>10. CASE ~ LeaseSpec!Has(h, d)
    <2>1. /\ Items' = Items
          /\ Works' = [Works EXCEPT ![h] = At("missed", d)]
      BY <1>4, <1>6, <1>7, <1>10
    <2>2. LeaseSpec!Miss(h, d)
      BY <1>1, <1>8, <1>10, <2>1
         DEF LeaseSpec!Miss, LeaseSpec!Goes, LeaseSpec!On, At, Items, Works
    <2> QED
      BY <1>3, <2>2 DEF LeaseSpec!Next
  <1> QED
    BY <1>9, <1>10

LEMMA LostCompletionRefines ==
    ASSUME DeliveryInv, NEW h \in Handler, CompleteAnswerLost(h)
    PROVE  LeaseSpec!Next
  <1> DEFINE d == delivery[h]
  <1>1. /\ durable /\ pc[h] = "complete"
        /\ CompleteRecord(h) \/ record' = record
        /\ UNCHANGED <<durable, delivery, lease, owners>>
        /\ pc' = [pc EXCEPT ![h] = "release"]
        /\ outcome' = [outcome EXCEPT ![h] = "failed"]
    BY DEF CompleteAnswerLost, worldVars, history, storeVars
  <1>2. InProgress(h)
    BY <1>1 DEF InProgress, Processing
  <1>3. d \in Delivery
    BY <1>2, HasIsMine
  <1>4. \/ Items' = Items
        \/ LeaseSpec!Has(h, d) /\ Items' = [Items EXCEPT ![d] = DoneItem]
    <2>1. CASE CompleteRecord(h)
      BY <1>1, <1>2, <2>1, CompletedItems
    <2>2. CASE record' = record
      BY <1>1, <2>2, SameItem, ItemsStay
    <2> QED
      BY <1>1, <2>1, <2>2
  <1>5. /\ \A g \in Handler \ {h} : WorkOf(g)' = WorkOf(g)
        /\ WorkOf(h)' = At("missed", d)
    BY <1>1, SameWork DEF WorkOf, At, DeliveryInv, WorkInv, HandlersType, TypeOK
  <1>6. Works' = [Works EXCEPT ![h] = At("missed", d)]
    BY <1>5, WorkGoes
  <1>7. Works[h] = At("claimed", d)
    BY <1>1 DEF Works, WorkOf, At
  <1>8. LeaseSpec!CompleteUnseen(h, d)
    BY <1>1, <1>4, <1>6, <1>7
       DEF LeaseSpec!CompleteUnseen, LeaseSpec!Goes, LeaseSpec!On,
           LeaseSpec!Done, LeaseSpec!Becomes, At, DoneItem, Items, Works
  <1> QED
    BY <1>3, <1>8 DEF LeaseSpec!Next

LEMMA ReleaseRefines ==
    ASSUME DeliveryInv, NEW h \in Handler, Release(h)
    PROVE  LeaseSpec!Next
  <1> DEFINE d == delivery[h]
  <1>1. /\ InProgress(h) /\ d \in Delivery
        /\ \A e \in Delivery \ {d} : record'[e] = record[e]
        /\ IF Mine(h) THEN record'[d] = None ELSE record' = record
        /\ pc' = [pc EXCEPT ![h] = "reply"]
        /\ UNCHANGED <<durable, delivery, outcome, owners>>
    BY ReleasedRecords DEF DeliveryInv
  <1>2. LeaseSpec!Has(h, d) <=> Mine(h) /\ lease[h] > 0
    BY <1>1, HasIsMine
  <1>3. lease[h] \in Nat
    BY LeaseType DEF DeliveryInv, WorkInv, HandlersType, TypeOK
  <1>4. pc[h] = "release" /\ outcome[h] # "accepted"
    BY DEF Release, DeliveryInv, WorkInv, EventsInv
  <1>5. IF LeaseSpec!Has(h, d)
        THEN Items' = [Items EXCEPT ![d] = NoItem] ELSE Items' = Items
    <2>1. \A e \in Delivery \ {d} : ItemOf(e)' = ItemOf(e)
      BY <1>1, SameItem
    <2>2. CASE ~ Mine(h)
      BY <1>1, <1>2, <2>2, SameItem, ItemsStay
    <2>3. CASE Mine(h)
      <3>1. ItemOf(d)' = NoItem
        BY <1>1, <2>3, ItemByRecord DEF Live
      <3>2. CASE lease[h] > 0
        BY <1>1, <1>2, <2>1, <2>3, <3>1, <3>2, ItemBecomes
      <3>3. CASE ~ (lease[h] > 0)
        <4>1. ~ Live(record[d])
          BY <2>3, <3>3 DEF Mine, Live
        <4>2. ItemOf(d)' = ItemOf(d)
          BY <1>1, <3>1, <4>1, ItemByRecord
        <4> QED
          BY <1>1, <1>2, <2>1, <3>3, <4>2, ItemsStay
      <3> QED
        BY <3>2, <3>3
    <2> QED
      BY <2>2, <2>3
  <1>6. /\ \A g \in Handler \ {h} : WorkOf(g)' = WorkOf(g)
        /\ WorkOf(h)' = At("answered", d)
    BY <1>1, <1>4, SameWork
       DEF WorkOf, At, DeliveryInv, WorkInv, HandlersType, TypeOK
  <1>7. Works' = [Works EXCEPT ![h] = At("answered", d)]
    BY <1>6, WorkGoes
  <1>8. Works[h] = At("missed", d)
    BY <1>4 DEF Works, WorkOf, At
  <1>9. LeaseSpec!Release(h, d)
    BY <1>1, <1>5, <1>7, <1>8
       DEF LeaseSpec!Release, LeaseSpec!Goes, LeaseSpec!On, LeaseSpec!Free,
           LeaseSpec!Becomes, At, NoItem, Items, Works
  <1> QED
    BY <1>1, <1>9 DEF LeaseSpec!Next

LEMMA IdleWorks ==
    ASSUME DeliveryInv, NEW h \in Handler, Idle(h)
    PROVE  Works' = [Works EXCEPT ![h] = LeaseSpec!Idle]
  <1>1. /\ \A g \in Handler \ {h} : WorkOf(g)' = WorkOf(g)
        /\ WorkOf(h)' = LeaseSpec!Idle
    BY SameWork DEF Idle, WorkOf, LeaseSpec!Idle, DeliveryInv, WorkInv,
                    HandlersType, TypeOK
  <1> QED
    BY <1>1, WorkGoes

LEMMA ReplyRefines ==
    ASSUME DeliveryInv, NEW h \in Handler, Reply(h)
    PROVE  LeaseSpec!Next
  <1>1. /\ pc[h] = "reply" /\ Idle(h) /\ UNCHANGED <<durable, record>>
        /\ owners' = [d \in Delivery |-> owners[d] \ {h}]
    BY DEF Reply, Idle, worldVars, storeVars
  <1>2. Works' = [Works EXCEPT ![h] = LeaseSpec!Idle]
    BY <1>1, IdleWorks
  <1>3. ASSUME NEW d \in Delivery PROVE ItemOf(d)' = ItemOf(d)
    <2>1. CASE Live(record[d]) /\ record[d].status = "processing"
      <3>1. h \notin owners[d]
        BY <1>1, <2>1 DEF DeliveryInv, OwnersInv, InProgress, Processing
      <3>2. owners'[d] = owners[d]
        BY <1>1, <3>1
      <3> QED
        BY <1>1, <3>2, SameItem
    <2>2. CASE ~ Live(record[d])
      BY <1>1, <2>2, ItemByRecord
    <2>3. CASE Live(record[d]) /\ record[d].status # "processing"
      <3>1. record[d].status = "completed"
        BY <2>3 DEF DeliveryInv, WorkInv, HandlersType, TypeOK, Record, Live
      <3> QED
        BY <1>1, <3>1, <2>3 DEF ItemOf, Live
    <2> QED
      BY <2>1, <2>2, <2>3
  <1>4. Items' = Items
    BY <1>3, ItemsStay
  <1>5. Works[h].at \in {"completed", "answered"}
    BY <1>1 DEF Works, WorkOf
  <1>6. LeaseSpec!Leave(h)
    <2>1. \A d \in Delivery : /\ LeaseSpec!On("claimed", d).at = "claimed"
                              /\ LeaseSpec!On("missed", d).at = "missed"
      BY DEF LeaseSpec!On
    <2>2. Works[h] \notin {LeaseSpec!On(at, d) :
                             at \in {"claimed", "missed"}, d \in Delivery}
      BY <1>5, <2>1
    <2> QED
      BY <1>1, <1>2, <1>4, <2>2 DEF LeaseSpec!Leave, Items, Works
  <1> QED
    BY <1>6 DEF LeaseSpec!Next

LEMMA StopRefines ==
    ASSUME DeliveryInv, NEW h \in Handler, Stop(h)
    PROVE  LeaseSpec!Next
  <1>1. /\ durable /\ Idle(h) /\ UNCHANGED <<durable, record>>
        /\ owners' = [d \in Delivery |-> owners[d] \ {h}]
    BY DEF Stop, Idle, worldVars, storeVars
  <1>2. Works' = [Works EXCEPT ![h] = LeaseSpec!Idle]
    BY <1>1, IdleWorks
  <1>3. ASSUME NEW d \in Delivery
        PROVE  ItemOf(d)' = [ItemOf(d) EXCEPT !.by = @ \ {h}]
    <2>1. /\ record'[d] = record[d] /\ owners'[d] = owners[d] \ {h}
      BY <1>1
    <2>2. CASE ~ Live(record[d])
      BY <2>1, <2>2, ItemByRecord DEF NoItem
    <2>3. CASE Live(record[d]) /\ record[d].status = "completed"
      BY <2>1, <2>3 DEF ItemOf, Live
    <2>4. CASE Live(record[d]) /\ record[d].status # "completed"
      BY <2>1, <2>4 DEF ItemOf, Live
    <2> QED
      BY <2>2, <2>3, <2>4
  <1>4. Items' = [d \in Delivery |-> [Items[d] EXCEPT !.by = @ \ {h}]]
    BY <1>3 DEF Items
  <1>5. LeaseSpec!Stop(h)
    BY <1>1, <1>2, <1>4 DEF LeaseSpec!Stop, Items, Works
  <1> QED
    BY <1>5 DEF LeaseSpec!Next

LEMMA RestartRefines ==
    ASSUME Restart
    PROVE  LeaseSpec!Next
  <1>1. \A d \in Delivery : ItemOf(d)' = NoItem
    BY ItemByRecord DEF Restart, Live
  <1>2. \A h \in Handler : WorkOf(h)' = LeaseSpec!Idle
    BY DEF Restart, WorkOf, LeaseSpec!Idle
  <1>3. LeaseSpec!Restart
    BY <1>1, <1>2 DEF LeaseSpec!Restart, Restart, worldVars, LeaseSpec!Free,
                      NoItem
  <1> QED
    BY <1>3 DEF LeaseSpec!Next

LEMMA TickRefines ==
    ASSUME DeliveryInv, Tick
    PROVE  LeaseSpec!Next
  <1>1. UNCHANGED <<durable, pc, delivery, outcome, owners>>
    BY DEF Tick, worldVars, history
  <1>2. ASSUME NEW d \in Delivery
        PROVE  ItemOf(d)' = IF ItemOf(d).left > 1
                            THEN [ItemOf(d) EXCEPT !.left = @ - 1] ELSE NoItem
    <2>1. CASE ~ Live(record[d])
      <3>1. record'[d] = record[d]
        BY <2>1 DEF Tick
      <3> QED
        BY <2>1, <3>1, ItemByRecord DEF NoItem
    <2>2. CASE Live(record[d])
      <3>1. /\ record[d] \in Record /\ record[d].left \in Nat
            /\ record'[d] = [record[d] EXCEPT !.left = @ - 1]
        BY <2>2, LeaseType
           DEF Tick, Live, DeliveryInv, WorkInv, HandlersType, TypeOK, Record
      <3>2. /\ record'[d].status = record[d].status
            /\ record'[d].left = record[d].left - 1
            /\ record'[d] \in [status : {"processing", "completed"}, left : Nat]
        BY <2>2, <3>1 DEF Record, Live
      <3>3. ItemOf(d).left = record[d].left
        BY <2>2 DEF ItemOf
      <3>4. CASE record[d].left > 1
        <4>1. record'[d].left > 0
          BY <3>1, <3>2, <3>4
        <4>2. Live(record'[d])
          BY <3>2, <4>1, NoneIsNoLease DEF Live
        <4> QED
          BY <1>1, <2>2, <3>1, <3>2, <3>3, <3>4, <4>2 DEF ItemOf, Live
      <3>5. CASE ~ (record[d].left > 1)
        <4>1. ~ Live(record'[d])
          BY <2>2, <3>1, <3>2, <3>5 DEF Live
        <4> QED
          BY <3>3, <3>5, <4>1, ItemByRecord
      <3> QED
        BY <3>4, <3>5
    <2> QED
      BY <2>1, <2>2
  <1>3. \A h \in Handler : WorkOf(h)' = WorkOf(h)
    BY <1>1, SameWork
  <1>4. LeaseSpec!Tick
    BY <1>1, <1>2, <1>3 DEF LeaseSpec!Tick, LeaseSpec!Free, NoItem
  <1> QED
    BY <1>4 DEF LeaseSpec!Next

LEMMA AlarmRefines ==
    ASSUME DeliveryInv, NEW d \in Delivery, Alarm(d)
    PROVE  UNCHANGED <<durable, Items, Works>>
  <1>1. /\ ~ Live(record[d]) /\ record'[d] = None
        /\ \A e \in Delivery \ {d} : record'[e] = record[e]
        /\ UNCHANGED <<durable, owners, pc, delivery, outcome>>
    BY DEF Alarm, Delete, worldVars, handlerVars, history, DeliveryInv, WorkInv,
           HandlersType, TypeOK
  <1>2. ItemOf(d)' = ItemOf(d)
    BY <1>1, ItemByRecord DEF Live
  <1>3. Items' = Items
    BY <1>1, <1>2, SameItem, ItemsStay
  <1>4. Works' = Works
    BY <1>1, SameWork DEF Works
  <1> QED
    BY <1>1, <1>3, <1>4

\* The stores of webhook deliveries implement DeliveryLease.
THEOREM DeliveriesAreLeased == Spec => ImplementsLease
  <1>1. Init => LeaseSpec!Init
    <2> SUFFICES ASSUME Init PROVE LeaseSpec!Init
      OBVIOUS
    <2>1. \A d \in Delivery : ItemOf(d) = NoItem
      BY ItemByRecord DEF Init, Live
    <2>2. \A h \in Handler : WorkOf(h) = LeaseSpec!Idle
      BY DEF Init, WorkOf, LeaseSpec!Idle
    <2> QED
      BY <2>1, <2>2 DEF Init, LeaseSpec!Init, LeaseSpec!Free, NoItem
  <1>2. DeliveryInv /\ [Next]_vars => [LeaseSpec!Next]_<<durable, Items, Works>>
    <2> SUFFICES ASSUME DeliveryInv, [Next]_vars
                 PROVE  [LeaseSpec!Next]_<<durable, Items, Works>>
      OBVIOUS
    <2>1. CASE UNCHANGED vars
      <3>1. UNCHANGED <<durable, record, owners, pc, delivery, outcome>>
        BY <2>1 DEF vars, worldVars, storeVars, handlerVars, history
      <3>2. Items' = Items
        BY <3>1, SameItem, ItemsStay
      <3>3. Works' = Works
        BY <3>1, SameWork DEF Works
      <3> QED
        BY <3>1, <3>2, <3>3
    <2>2. CASE Next
      BY <2>2, ReceiveRefines, LostClaimRefines, InvalidateRefines,
         CompleteRefines, LostCompletionRefines, ReleaseRefines, ReplyRefines,
         StopRefines, RestartRefines, TickRefines, AlarmRefines DEF Next
    <2> QED
      BY <2>1, <2>2
  <1> QED
    BY <1>1, <1>2, DeliveryInvariant, PTL
       DEF Spec, ImplementsLease, LeaseSpec!Spec, LeaseSpec!vars, Items, Works

=============================================================================
