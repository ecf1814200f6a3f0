---------------------------- MODULE CoveredProofs ----------------------------
(***************************************************************************)
(* What is proved about Payments in the environment PaymentsCovered        *)
(* describes, where the fees set aside cover the fees paid: rows agree     *)
(* with the node, a crash costs at most one unrecorded payment, the users  *)
(* together have no more than the node, no balance is negative, and the    *)
(* daemon implements Wallet.                                               *)
(***************************************************************************)
EXTENDS PaymentsCovered, PaymentsProofs

-----------------------------------------------------------------------------
(* The facts the inductive invariants add.                                 *)

(* A queued outcome is what the node knows of the payment.                 *)
EventsTrue ==
  \A i \in 1..Len(events) :
    LET e == events[i]
    IN /\ e.type = "successful" => /\ out[e.id].status = "succeeded"
                                   /\ out[e.id].fee = e.fee
       /\ e.type = "failed" => out[e.id].status = "failed" /\ e.fee = 0

(* A row of payment p: what it may say while p is in flight and after, and *)
(* that it sets aside what p costs or may come to cost.                    *)
RowFits(row, p) ==
  /\ row.user = p.user /\ row.amount = p.amount
  /\ p.status = "inflight" => row.status = "pending" /\ p.fee = 0
  /\ p.status = "succeeded" => row.status \in {"pending", "successful"}
  /\ p.status = "failed" => row.status \in {"pending", "failed"}
  /\ p.status = "broadcast" => row.status = "successful"
  /\ row.status = "pending" => \A f \in RoutingFees : f <= row.fee
  /\ p.status # "failed" => p.fee <= row.fee

(* The handler about to insert a row finds none of its id.                 *)
TaskFits ==
  rpc # NULL => /\ rpc.described = TRUE
                /\ send[rpc.id] = NULL
                /\ RowFits(rpc.row, out[rpc.id])
                /\ rpc.row.status # "pending" => out[rpc.id].status = "broadcast"

RowsFit ==
  \A id \in SendIds : send[id] # NULL /\ out[id] # NULL => RowFits(send[id], out[id])

(* The row of this payment is settled, at another fee than the one paid.   *)
FeeOpen(id) ==
  /\ send[id] # NULL /\ send[id].status = "successful"
  /\ out[id] # NULL /\ out[id].status = "succeeded"
  /\ send[id].fee # out[id].fee

(* The fee paid is recorded, or an event that says so waits to be applied. *)
FeeAwaited == \A id \in SendIds : FeeOpen(id) => Awaiting(id, Outcomes)

Settlement == EventsTrue /\ TaskFits /\ RowsFit /\ FeeAwaited

(* The money of the payment about to be inserted is still there.           *)
Reserved(u) == IF rpc # NULL /\ rpc.row.user = u THEN Charge(rpc.row) ELSE 0

FundsCover == \A u \in Users : RawBalance(u) >= Reserved(u)

(* Whether a payment has a hold, in terms of the tables alone.             *)
Open(id) == (send[id] # NULL /\ send[id].status = "pending") \/ FeeOpen(id)

-----------------------------------------------------------------------------
(* Rows agree with the node.                                               *)

(* A payment is accepted under an id neither the node nor the table knows. *)
LEMMA AcceptedNew ==
  ASSUME Base, TransfersPaired, NEW id \in SendIds, NEW u, NEW amount, NEW fee, NEW paid,
         NEW rowStatus, NEW outStatus,
         AcceptStep(id, u, amount, fee, rowStatus, outStatus, paid)
  PROVE  /\ out[id] = NULL /\ send[id] = NULL /\ rpc = NULL
         /\ \A j \in SendIds : j # id => out'[j] = out[j]
         /\ UNCHANGED <<send, receive, claimed, events, handler, crashes>>
<1>1. CASE id = Fresh /\ CanMint
  BY <1>1, FreshNew DEF AcceptStep, NodeAccepts, tables, DbFree, Base, TypeOK
<1>2. CASE id \in ExtInvoices /\ (out[id] # NULL => retries < MaxRetries)
  <2>1. ~(retries < MaxRetries)
    BY NoRetry DEF Base, TypeOK
  <2>2. id \notin Ids
    BY <1>2, PaymentsConstants DEF Ids
  <2> QED
    BY <1>2, <2>1, <2>2
       DEF TransfersPaired, AcceptStep, NodeAccepts, tables, DbFree, Base, TypeOK
<1> QED
  BY <1>1, <1>2 DEF AcceptStep, AcceptedId

(* What the node and the handler then know of it.                          *)
LEMMA AcceptedRecords ==
  ASSUME Base, NEW id \in SendIds, NEW u \in Users, NEW amount \in Nat,
         NEW fee \in Nat, NEW paid \in Nat, NEW rowStatus \in {"pending", "successful"},
         NEW outStatus \in {"inflight", "broadcast"},
         AcceptStep(id, u, amount, fee, rowStatus, outStatus, paid)
  PROVE  /\ out'[id] # NULL /\ out'[id].user = u /\ out'[id].amount = amount
         /\ out'[id].fee = paid /\ out'[id].status = outStatus
         /\ rpc'.id = id /\ rpc'.row.user = u /\ rpc'.row.amount = amount
         /\ rpc'.row.fee = fee /\ rpc'.row.status = rowStatus
<1> DEFINE p == [user |-> u, amount |-> amount, fee |-> paid, status |-> outStatus]
           row == [user |-> u, amount |-> amount, fee |-> fee, status |-> rowStatus]
<1>1. out' = [out EXCEPT ![id] = p] /\ rpc'.id = id /\ rpc'.row = row
  BY DEF AcceptStep, NodeAccepts
<1>2. p \in OutPayment
  BY DEF OutPayment
<1>3. out'[id] = p
  BY <1>1 DEF Base, TypeOK
<1>4. /\ p.user = u /\ p.amount = amount /\ p.fee = paid /\ p.status = outStatus
      /\ row.user = u /\ row.amount = amount /\ row.fee = fee /\ row.status = rowStatus
  OBVIOUS
<1> HIDE DEF p, row
<1> QED
  BY <1>1, <1>2, <1>3, <1>4, NullIsNoRecord

(* The handler goes on to record it.                                       *)
LEMMA AcceptedTask ==
  ASSUME NEW id \in SendIds, NEW u \in Users, NEW amount \in Nat, NEW fee \in Nat,
         NEW paid \in Nat, NEW rowStatus \in {"pending", "successful"}, NEW outStatus,
         AcceptStep(id, u, amount, fee, rowStatus, outStatus, paid)
  PROVE  rpc' # NULL
<1> DEFINE row == [user |-> u, amount |-> amount, fee |-> fee, status |-> rowStatus]
<1>1. PICK d \in {TRUE} \cup OfferDescribed :
        NodeAccepts(id, u, amount, fee, rowStatus, outStatus, paid, d)
  BY DEF AcceptStep
<1>2. d = TRUE
  BY OffersDescribed
<1>3. row \in SendRow
  BY DEF SendRow
<1>4. rpc' = [id |-> id, described |-> TRUE, row |-> row]
  BY <1>1, <1>2 DEF NodeAccepts
<1> HIDE DEF row
<1>5. rpc' \in Task
  BY <1>3, <1>4 DEF Task
<1> QED
  BY <1>5, NullIsNoRecord

(* Every payment has a description to store.                               *)
LEMMA AcceptedDescribed ==
  ASSUME NEW id, NEW u, NEW amount, NEW fee, NEW paid, NEW rowStatus, NEW outStatus,
         AcceptStep(id, u, amount, fee, rowStatus, outStatus, paid)
  PROVE  rpc'.described = TRUE
<1>1. PICK d \in {TRUE} \cup OfferDescribed :
        NodeAccepts(id, u, amount, fee, rowStatus, outStatus, paid, d)
  BY DEF AcceptStep
<1>2. d = TRUE
  BY OffersDescribed
<1> QED
  BY <1>1, <1>2 DEF NodeAccepts

(* A queued outcome stays true: the node changes its mind about no payment *)
(* it has settled.                                                         *)
LEMMA EventsTrueStep ==
  ASSUME Base, IdUse, TransfersPaired, EventsTrue, LedgerStep
  PROVE  EventsTrue'
<1> DEFINE True(e) ==
             /\ e.type = "successful" => out[e.id].status = "succeeded" /\ out[e.id].fee = e.fee
             /\ e.type = "failed" => out[e.id].status = "failed" /\ e.fee = 0
<1>0. EventsTrue <=> \A i \in 1..Len(events) : True(events[i])
  BY DEF EventsTrue
<1>1. EventsTrue' <=> \A i \in 1..Len(events') : True(events[i])'
  BY DEF EventsTrue
<1>2. ASSUME UNCHANGED <<out, events>> PROVE EventsTrue'
  BY <1>2 DEF EventsTrue
<1>3. ASSUME NEW id \in SendIds, NEW u \in Users, NEW amount \in Nat, NEW fee \in Nat,
             NEW paid \in Nat, NEW rowStatus \in {"pending", "successful"},
             NEW outStatus \in {"inflight", "broadcast"},
             AcceptStep(id, u, amount, fee, rowStatus, outStatus, paid)
      PROVE  EventsTrue'
  <2>1. /\ out[id] = NULL /\ UNCHANGED events
        /\ \A j \in SendIds : j # id => out'[j] = out[j]
    BY <1>3, AcceptedNew
  <2>2. \A i \in 1..Len(events) :
          events[i].type \in {"successful", "failed"} => out'[events[i].id] = out[events[i].id]
    BY <2>1, QueueType DEF IdUse, NodeKnows, Outcomes
  <2> QED
    BY <2>1, <2>2 DEF EventsTrue
<1>4. ASSUME event_handled PROVE EventsTrue'
  <2>1. UNCHANGED out /\ events' = Tail(events) /\ events # <<>>
    BY <1>4 DEF event_handled, node, Base, LoopSound
  <2>2. \A i \in 1..Len(events') : \E j \in 1..Len(events) : events'[i] = events[j]
    BY <2>1, QueueTail DEF Base, TypeOK
  <2> QED
    BY <2>1, <2>2 DEF EventsTrue
<1>5. ASSUME NEW id \in SendIds, NEW e \in Event, SettleStep(id, e) PROVE EventsTrue'
  <2>1. e.id = id /\ events' = Append(events, e)
    BY <1>5 DEF SettleStep
  <2>2. /\ out[id].status = "inflight" /\ \A j \in SendIds : j # id => out'[j] = out[j]
        /\ e.type = "successful" => out'[id].status = "succeeded" /\ out'[id].fee = e.fee
        /\ e.type = "failed" => out'[id].status = "failed" /\ e.fee = 0
    BY <1>5, SettledPayment
  <2>3. \A i \in 1..Len(events') :
          (\E j \in 1..Len(events) : events'[i] = events[j]) \/ events'[i] = e
    BY <2>1, QueueAppend DEF Base, TypeOK
  <2>4. ASSUME NEW j \in 1..Len(events), events[j].type \in {"successful", "failed"}
        PROVE  out'[events[j].id] = out[events[j].id]
    <3>1. out[events[j].id].status # "inflight" /\ events[j].id \in SendIds
      BY <2>4, QueueType DEF EventsTrue
    <3> QED
      BY <2>2, <3>1
  <2>5. ASSUME NEW i \in 1..Len(events') PROVE True(events[i])'
    <3>1. CASE events'[i] = e
      BY <2>1, <2>2, <3>1
    <3>2. ASSUME NEW j \in 1..Len(events), events'[i] = events[j] PROVE True(events[i])'
      BY <2>4, <3>2 DEF EventsTrue
    <3> QED
      BY <2>3, <3>1, <3>2
  <2> QED
    BY <1>1, <2>5
<1>6. ASSUME NEW id \in Ids, NEW e \in Event, NEW off \in Ids, NEW a \in ReceiveAmounts,
             ReceiptStep(id, e, off, a)
      PROVE  EventsTrue'
  <2>1. UNCHANGED out /\ events' = Append(events, e) /\ e.type = "received"
    BY <1>6 DEF ReceiptStep
  <2>2. \A i \in 1..Len(events') :
          (\E j \in 1..Len(events) : events'[i] = events[j]) \/ events'[i] = e
    BY <2>1, QueueAppend DEF Base, TypeOK
  <2> QED
    BY <2>1, <2>2 DEF EventsTrue
<1>7. ASSUME NEW u \in Users, NEW v \in Users, NEW amount \in Int, NEW fee \in Nat,
             TransferStep(u, v, amount, fee)
      PROVE  EventsTrue'
  BY <1>2, <1>7 DEF TransferStep, create_internal_transfer, node
<1>8. ASSUME \/ RequestStep \/ create_send_payment \/ HandlerPanics \/ payment_received
             \/ update_send_status \/ update_send_fee \/ payment_not_found \/ Crash
      PROVE  EventsTrue'
  BY <1>2, <1>8 DEF RequestStep, create_send_payment, HandlerPanics, payment_received,
                    update_send_status, update_send_fee, payment_not_found, Crash, node
<1> QED
  BY <1>3, <1>4, <1>5, <1>6, <1>7, <1>8 DEF LedgerStep

(* A row that fits a payment in flight fits it when it is settled: the fee *)
(* set aside covers every fee the node may pay.                            *)
LEMMA FitsSettled ==
  ASSUME Base, NEW id \in SendIds, NEW e \in Event, SettleStep(id, e),
         NEW row \in SendRow, RowFits(row, out[id])
  PROVE  RowFits(row, out'[id])
<1>1. /\ out[id].status = "inflight"
      /\ out'[id].user = out[id].user /\ out'[id].amount = out[id].amount
      /\ \/ out'[id].status = "succeeded" /\ out'[id].fee \in RoutingFees
         \/ out'[id].status = "failed"
  BY SettledPayment
<1>2. row.status = "pending" /\ \A f \in RoutingFees : f <= row.fee
  BY <1>1 DEF RowFits
<1> QED
  BY <1>1, <1>2 DEF RowFits

(* A step keeps the rows, and the row about to be inserted, in agreement   *)
(* with the node's payments.                                               *)
LEMMA FitsStep ==
  ASSUME Base, Base', IdUse, TransfersPaired, EventsTrue, TaskFits, RowsFit, LedgerStep
  PROVE  TaskFits' /\ RowsFit'
<1>t. /\ send \in [SendIds -> SendRow \cup {NULL}]
      /\ out \in [SendIds -> OutPayment \cup {NULL}]
      /\ rpc # NULL => rpc.id \in SendIds /\ rpc.row \in SendRow
      /\ out' \in [SendIds -> OutPayment \cup {NULL}]
  BY DEF Base, TypeOK, Task
<1>1. ASSUME UNCHANGED <<send, out>>, rpc' = rpc \/ rpc' = NULL
      PROVE  TaskFits' /\ RowsFit'
  BY <1>1 DEF TaskFits, RowsFit
<1>2. ASSUME NEW u \in Users, NEW v \in Users, NEW amount \in Int, NEW fee \in Nat,
             TransferStep(u, v, amount, fee)
      PROVE  TaskFits' /\ RowsFit'
  <2>1. create_internal_transfer(u, v, amount, fee) /\ DbFree
    BY <1>2 DEF TransferStep
  <2>2. /\ CanMint /\ UNCHANGED <<out, rpc>> /\ rpc = NULL
        /\ \A id \in SendIds : id # Fresh => send'[id] = send[id]
    BY <2>1, <1>t DEF create_internal_transfer, node, DbFree
  <2>3. out[Fresh] = NULL
    BY <2>2, FreshNew
  <2> QED
    BY <2>2, <2>3 DEF TaskFits, RowsFit
<1>3. ASSUME NEW id \in SendIds, NEW u \in Users, NEW amount \in Nat, NEW fee \in Nat,
             NEW paid \in Nat, NEW rowStatus \in {"pending", "successful"},
             NEW outStatus \in {"inflight", "broadcast"},
             AcceptStep(id, u, amount, fee, rowStatus, outStatus, paid)
      PROVE  TaskFits' /\ RowsFit'
  <2>1. /\ send[id] = NULL /\ UNCHANGED send
        /\ \A j \in SendIds : j # id => out'[j] = out[j]
    BY <1>3, AcceptedNew
  <2>2. RowsFit'
    BY <2>1 DEF RowsFit
  <2>3. /\ out'[id].user = u /\ out'[id].amount = amount /\ out'[id].fee = paid
        /\ out'[id].status = outStatus
        /\ rpc'.id = id /\ rpc'.row.user = u /\ rpc'.row.amount = amount
        /\ rpc'.row.fee = fee /\ rpc'.row.status = rowStatus
    BY <1>3, AcceptedRecords
  <2>a. rpc'.described = TRUE
    BY <1>3, AcceptedDescribed, Zenon
  <2>4. CASE /\ amount \in SendAmounts /\ fee = fee_msat(amount) /\ paid = 0
             /\ rowStatus = "pending" /\ outStatus = "inflight"
    <3>1. \A f \in RoutingFees : f <= fee
      BY <2>4, FeesCovered
    <3> QED
      BY <2>1, <2>2, <2>3, <2>a, <2>4, <3>1 DEF TaskFits, RowFits
  <2>5. CASE /\ paid \in OnchainFees /\ fee = onchain_base_fee_msat
             /\ rowStatus = "successful" /\ outStatus = "broadcast"
    <3>1. paid <= fee
      BY <2>5, FeesCovered
    <3> QED
      BY <2>1, <2>2, <2>3, <2>a, <2>5, <3>1 DEF TaskFits, RowFits
  <2> QED
    BY <1>3, <2>4, <2>5 DEF AcceptStep
<1>4. ASSUME RequestStep \/ HandlerPanics \/ payment_not_found \/ payment_received
             \/ event_handled \/ Crash
      PROVE  TaskFits' /\ RowsFit'
  BY <1>1, <1>4 DEF RequestStep, HandlerPanics, payment_not_found, payment_received,
                    event_handled, Crash, tables, node
<1>5. ASSUME create_send_payment PROVE TaskFits' /\ RowsFit'
  <2>1. rpc # NULL /\ rpc' = NULL /\ UNCHANGED out /\ send' = [send EXCEPT ![rpc.id] = rpc.row]
    BY <1>5 DEF create_send_payment, node
  <2>2. /\ send'[rpc.id] = rpc.row /\ RowFits(rpc.row, out[rpc.id])
        /\ \A id \in SendIds : id # rpc.id => send'[id] = send[id]
    BY <1>t, <2>1 DEF TaskFits
  <2> QED
    BY <2>1, <2>2 DEF TaskFits, RowsFit
<1>6. ASSUME update_send_status \/ update_send_fee PROVE TaskFits' /\ RowsFit'
  <2> DEFINE id == NextEvent.id
             row == send[id]
             p == out[id]
  <2>1. /\ id \in SendIds /\ p # NULL /\ row # NULL /\ NextEvent.type \in Outcomes
        /\ \A j \in SendIds : j # id => send'[j] = send[j]
        /\ UNCHANGED <<out, rpc>>
    BY <1>6, UpdatedRow, NullIsNoRecord
  <2>2. RowFits(row, p)
    BY <2>1 DEF RowsFit
  <2>3. /\ NextEvent.type = "successful" => p.status = "succeeded" /\ p.fee = NextEvent.fee
        /\ NextEvent.type = "failed" => p.status = "failed"
    BY <1>6, UpdatedRow, HeadEvent DEF EventsTrue
  <2>4. /\ send'[id].user = row.user /\ send'[id].amount = row.amount
        /\ update_send_status => /\ send'[id].status = NextEvent.type
                                 /\ send'[id].fee = row.fee
        /\ update_send_fee => /\ send'[id].status = row.status
                              /\ send'[id].fee = NextEvent.fee
    BY <1>6, UpdatedRow
  <2>5. update_send_fee => row.status # "pending"
    BY DEF update_send_fee, Base, LoopSound, NextEvent
  <2>6. p \in OutPayment
    BY <1>t, <2>1
  <2> HIDE DEF id, row, p
  <2>7. RowFits(send'[id], p)
    BY <1>6, <2>1, <2>2, <2>3, <2>4, <2>5, <2>6 DEF RowFits, Outcomes, OutPayment
  <2>8. RowsFit'
    BY <2>1, <2>7 DEF RowsFit, p
  <2>9. rpc = NULL
    BY <1>6 DEF update_send_status, update_send_fee, DbFree, Base, LoopSound
  <2> QED
    BY <2>1, <2>8, <2>9 DEF TaskFits
<1>7. ASSUME NEW id \in SendIds, NEW e \in Event, SettleStep(id, e)
      PROVE  TaskFits' /\ RowsFit'
  <2>1. UNCHANGED <<send, rpc>> /\ out[id] # NULL
    BY <1>7 DEF SettleStep
  <2>2. /\ \A j \in SendIds : j # id => out'[j] = out[j]
        /\ out[id].status = "inflight"
    BY <1>7, SettledPayment
  <2>3. RowsFit'
    BY <1>7, <1>t, <2>1, <2>2, FitsSettled DEF RowsFit
  <2>4. ASSUME rpc # NULL
        PROVE  /\ rpc.described = TRUE /\ send[rpc.id] = NULL
               /\ RowFits(rpc.row, out'[rpc.id])
               /\ rpc.row.status # "pending" => out'[rpc.id].status = "broadcast"
    <3>1. /\ rpc.described = TRUE /\ send[rpc.id] = NULL
          /\ RowFits(rpc.row, out[rpc.id])
          /\ rpc.row.status # "pending" => out[rpc.id].status = "broadcast"
      BY <2>4 DEF TaskFits
    <3>2. CASE rpc.id = id
      BY <1>7, <1>t, <2>2, <2>4, <3>1, <3>2, FitsSettled
    <3> QED
      BY <1>t, <2>2, <2>4, <3>1, <3>2
  <2>5. TaskFits'
    BY <2>1, <2>4 DEF TaskFits
  <2> QED
    BY <2>3, <2>5
<1>8. ASSUME NEW id \in Ids, NEW e \in Event, NEW off \in Ids, NEW a \in ReceiveAmounts,
             ReceiptStep(id, e, off, a)
      PROVE  TaskFits' /\ RowsFit'
  BY <1>1, <1>8 DEF ReceiptStep
<1> QED
  BY <1>2, <1>3, <1>4, <1>5, <1>6, <1>7, <1>8 DEF LedgerStep

(* An outcome goes on waiting unless it is the head of the queue and is    *)
(* applied by this step.                                                   *)
LEMMA AwaitingKept ==
  ASSUME Base, NEW id, Awaiting(id, Outcomes),
         \/ UNCHANGED <<events, handler>>
         \/ UNCHANGED events /\ handler' # "applied"
         \/ UNCHANGED events /\ (events[1].id # id \/ events[1].type \notin Outcomes)
         \/ UNCHANGED handler /\ \E e \in Event : events' = Append(events, e)
         \/ event_handled
  PROVE  Awaiting(id, Outcomes)'
<1>1. PICK i \in 1..Len(events) :
        /\ events[i].id = id /\ events[i].type \in Outcomes
        /\ ~(i = 1 /\ handler = "applied")
  BY DEF Awaiting
<1>2. CASE UNCHANGED events
  BY <1>1, <1>2 DEF Awaiting, event_handled, Base, LoopSound
<1>3. ASSUME NEW e \in Event, UNCHANGED handler, events' = Append(events, e)
      PROVE  Awaiting(id, Outcomes)'
  <2>1. i \in 1..Len(events') /\ events'[i] = events[i]
    BY <1>3, QueueAppend DEF Base, TypeOK
  <2> QED
    BY <1>1, <1>3, <2>1 DEF Awaiting
<1>4. CASE event_handled
  <2>1. handler = "applied" /\ events' = Tail(events) /\ events # <<>> /\ handler' = "idle"
    BY <1>4 DEF event_handled, Base, LoopSound
  <2>2. i - 1 \in 1..Len(events') /\ events'[i - 1] = events[i]
    <3>1. events \in Seq(Event)
      BY DEF Base, TypeOK
    <3>2. /\ Len(Tail(events)) = Len(events) - 1
          /\ \A k \in 1..Len(Tail(events)) : Tail(events)[k] = events[k + 1]
      BY <2>1, <3>1, QueueTail
    <3>3. i # 1 /\ Len(events) \in Nat /\ i \in Int /\ i <= Len(events) /\ i >= 1
      BY <1>1, <2>1, <3>1
    <3>4. i - 1 \in 1..Len(Tail(events)) /\ (i - 1) + 1 = i
      BY <3>2, <3>3
    <3> QED
      BY <2>1, <3>2, <3>4
  <2> QED
    BY <1>1, <2>1, <2>2 DEF Awaiting
<1> QED
  BY <1>2, <1>3, <1>4

(* A step keeps the fee paid recorded or awaited.                          *)
LEMMA FeeAwaitedStep ==
  ASSUME Base, Base', IdUse, TransfersPaired, EventsTrue, TaskFits, FeeAwaited, LedgerStep
  PROVE  FeeAwaited'
<1>0. FeeAwaited <=> \A id \in SendIds : FeeOpen(id) => Awaiting(id, Outcomes)
  BY DEF FeeAwaited
<1>1. FeeAwaited' <=> \A id \in SendIds : FeeOpen(id)' => Awaiting(id, Outcomes)'
  BY DEF FeeAwaited
<1>t. /\ send \in [SendIds -> SendRow \cup {NULL}]
      /\ rpc # NULL => rpc.id \in SendIds /\ rpc.row \in SendRow
  BY DEF Base, TypeOK, Task
<1>2. ASSUME NEW j \in SendIds, FeeOpen(j),
             \/ UNCHANGED <<events, handler>>
             \/ UNCHANGED events /\ handler' # "applied"
             \/ UNCHANGED events /\ (events[1].id # j \/ events[1].type \notin Outcomes)
             \/ UNCHANGED handler /\ \E e \in Event : events' = Append(events, e)
             \/ event_handled
      PROVE  Awaiting(j, Outcomes)'
  BY <1>0, <1>2, AwaitingKept
<1>3. ASSUME NEW u \in Users, NEW v \in Users, NEW amount \in Int, NEW fee \in Nat,
             TransferStep(u, v, amount, fee)
      PROVE  FeeAwaited'
  <2>1. /\ CanMint /\ UNCHANGED <<out, events, handler>>
        /\ \A id \in SendIds : id # Fresh => send'[id] = send[id]
    BY <1>3, <1>t DEF TransferStep, create_internal_transfer, node
  <2>2. out[Fresh] = NULL
    BY <2>1, FreshNew
  <2>3. \A j \in SendIds : FeeOpen(j)' => FeeOpen(j)
    BY <2>1, <2>2 DEF FeeOpen
  <2> QED
    BY <1>1, <1>2, <2>1, <2>3
<1>4. ASSUME NEW id \in SendIds, NEW u \in Users, NEW amount \in Nat, NEW fee \in Nat,
             NEW paid \in Nat, NEW rowStatus \in {"pending", "successful"},
             NEW outStatus \in {"inflight", "broadcast"},
             AcceptStep(id, u, amount, fee, rowStatus, outStatus, paid)
      PROVE  FeeAwaited'
  <2>1. /\ send[id] = NULL /\ UNCHANGED <<send, events, handler>>
        /\ \A j \in SendIds : j # id => out'[j] = out[j]
    BY <1>4, AcceptedNew
  <2>2. \A j \in SendIds : FeeOpen(j)' => FeeOpen(j)
    BY <2>1 DEF FeeOpen
  <2> QED
    BY <1>1, <1>2, <2>1, <2>2
<1>5. ASSUME RequestStep \/ HandlerPanics \/ Crash \/ event_handled PROVE FeeAwaited'
  <2>1. /\ UNCHANGED <<send, out>>
        /\ \/ UNCHANGED <<events, handler>>
           \/ UNCHANGED events /\ handler' # "applied"
           \/ event_handled
    BY <1>5 DEF RequestStep, HandlerPanics, Crash, event_handled, tables, node
  <2>2. \A j \in SendIds : FeeOpen(j)' => FeeOpen(j)
    BY <2>1 DEF FeeOpen
  <2> QED
    BY <1>1, <1>2, <2>1, <2>2
<1>6. ASSUME create_send_payment PROVE FeeAwaited'
  <2>1. /\ rpc # NULL /\ UNCHANGED <<out, events, handler>>
        /\ send' = [send EXCEPT ![rpc.id] = rpc.row]
    BY <1>6 DEF create_send_payment, node
  <2>2. /\ send'[rpc.id] = rpc.row
        /\ \A id \in SendIds : id # rpc.id => send'[id] = send[id]
    BY <1>t, <2>1
  <2>3. rpc.row.status = "pending" \/ out[rpc.id].status = "broadcast"
    BY <2>1 DEF TaskFits
  <2>4. \A j \in SendIds : FeeOpen(j)' => FeeOpen(j)
    BY <2>1, <2>2, <2>3 DEF FeeOpen
  <2> QED
    BY <1>1, <1>2, <2>1, <2>4
<1>7. ASSUME payment_received \/ payment_not_found PROVE FeeAwaited'
  <2>1. /\ UNCHANGED <<send, out, events>> /\ NextEvent = events[1]
        /\ NextEvent.type \notin Outcomes \/ send[NextEvent.id] = NULL
    BY <1>7 DEF payment_received, payment_not_found, Deliver, Outcomes, NextEvent, tables, node
  <2>2. \A j \in SendIds : FeeOpen(j)' => FeeOpen(j) /\ send[j] # NULL
    BY <2>1 DEF FeeOpen
  <2> QED
    BY <1>1, <1>2, <2>1, <2>2
<1>8. ASSUME update_send_status PROVE FeeAwaited'
  <2>1. PICK id \in SendIds : id = NextEvent.id
    BY <1>8, UpdatedRow
  <2>2. /\ events # <<>> /\ events[1].id = id /\ events[1].type \in Outcomes
        /\ UNCHANGED <<out, events>>
        /\ \A j \in SendIds : j # id => send'[j] = send[j]
    BY <1>8, <2>1, UpdatedRow
  <2>3. handler' = "fee" /\ 1 \in 1..Len(events)
    BY <1>8, <2>2, HeadEvent DEF update_send_status
  <2>4. Awaiting(id, Outcomes)'
    BY <2>2, <2>3 DEF Awaiting
  <2>5. \A j \in SendIds : j # id => (FeeOpen(j)' => FeeOpen(j))
    BY <2>2 DEF FeeOpen
  <2> QED
    BY <1>1, <1>2, <2>2, <2>3, <2>4, <2>5
<1>9. ASSUME update_send_fee PROVE FeeAwaited'
  <2>1. PICK id \in SendIds : id = NextEvent.id
    BY <1>9, UpdatedRow
  <2>2. /\ events # <<>> /\ events[1].id = id /\ events[1].type \in Outcomes
        /\ UNCHANGED <<out, events>>
        /\ send'[id].fee = events[1].fee
        /\ \A j \in SendIds : j # id => send'[j] = send[j]
    BY <1>9, <2>1, UpdatedRow
  <2>3. ~FeeOpen(id)'
    BY <2>2, HeadEvent DEF FeeOpen, EventsTrue, Outcomes
  <2>4. \A j \in SendIds : j # id => (FeeOpen(j)' => FeeOpen(j))
    BY <2>2 DEF FeeOpen
  <2> QED
    BY <1>1, <1>2, <2>2, <2>3, <2>4
<1>10. ASSUME NEW id \in SendIds, NEW e \in Event, SettleStep(id, e) PROVE FeeAwaited'
  <2>1. UNCHANGED <<send, handler>> /\ events' = Append(events, e) /\ e.id = id
        /\ e.type \in Outcomes
    BY <1>10 DEF SettleStep, Outcomes
  <2>2. /\ out'[id].status # "inflight"
        /\ \A j \in SendIds : j # id => out'[j] = out[j]
    BY <1>10, SettledPayment
  <2>3. Awaiting(id, Outcomes)'
    BY <2>1, <2>2, SettledQueued DEF Resolving
  <2>4. \A j \in SendIds : j # id => (FeeOpen(j)' => FeeOpen(j))
    BY <2>1, <2>2 DEF FeeOpen
  <2> QED
    BY <1>1, <1>2, <2>1, <2>3, <2>4
<1>11. ASSUME NEW id \in Ids, NEW e \in Event, NEW off \in Ids, NEW a \in ReceiveAmounts,
              ReceiptStep(id, e, off, a)
       PROVE  FeeAwaited'
  <2>1. UNCHANGED <<send, out, handler>> /\ events' = Append(events, e)
    BY <1>11 DEF ReceiptStep
  <2>2. \A j \in SendIds : FeeOpen(j)' => FeeOpen(j)
    BY <2>1 DEF FeeOpen
  <2> QED
    BY <1>1, <1>2, <2>1, <2>2
<1> QED
  BY <1>3, <1>4, <1>5, <1>6, <1>7, <1>8, <1>9, <1>10, <1>11 DEF LedgerStep

(* Settlement is an invariant.                                             *)
LEMMA SettlementInvariant == Spec => []Settlement
<1>1. Init => Settlement
  BY DEF Init, Settlement, EventsTrue, TaskFits, RowsFit, FeeAwaited, FeeOpen
<1>2. Base /\ Base' /\ IdUse /\ TransfersPaired /\ Settlement /\ [Next]_vars => Settlement'
  BY StepCases, EventsTrueStep, FitsStep, FeeAwaitedStep DEF Settlement
<1> QED
  BY <1>1, <1>2, BaseInvariant, IdUseInvariant, TransfersAlwaysPaired, PTL DEF Spec

(* The row of a payment has the payer and the amount the node knows; it is *)
(* pending while the payment is in flight; and once the outcome is applied *)
(* it has the node's status and fee, whatever crashes came in between.     *)
THEOREM RowsAlwaysMatchNode == Spec => []RowMatchesNode
<1>1. Base /\ Tracked /\ Settlement => RowMatchesNode
  <2> SUFFICES ASSUME Base, Tracked, Settlement, NEW id \in SendIds,
                      send[id] # NULL, out[id] # NULL
               PROVE  /\ send[id].user = out[id].user
                      /\ send[id].amount = out[id].amount
                      /\ out[id].status = "inflight" => send[id].status = "pending"
                      /\ ~Awaiting(id, Outcomes) =>
                           /\ out[id].status = "failed" => send[id].status = "failed"
                           /\ out[id].status = "succeeded" =>
                                send[id].status = "successful" /\ send[id].fee = out[id].fee
    BY DEF RowMatchesNode
  <2>1. RowFits(send[id], out[id])
    BY DEF Settlement, RowsFit
  <2>2. send[id].status = "pending" =>
          out[id].status = "inflight" \/ Awaiting(id, Outcomes)
    BY DEF Tracked, PendingHasOutcome, Resolving
  <2>3. FeeOpen(id) => Awaiting(id, Outcomes)
    BY DEF Settlement, FeeAwaited
  <2> QED
    BY <2>1, <2>2, <2>3 DEF RowFits, FeeOpen
<1> QED
  BY <1>1, BaseInvariant, TrackedInvariant, SettlementInvariant, PTL

-----------------------------------------------------------------------------
(* A crash costs at most one unrecorded payment.                           *)

(* The handler that holds the connection is about to record its payment,   *)
(* and does not panic.                                                     *)
LEMMA TaskIsOrphan ==
  ASSUME Base, IdUse, TaskFits, rpc # NULL
  PROVE  rpc.id \in Orphans /\ ~Panics
<1>1. rpc.id \in SendIds
  BY DEF Base, TypeOK, Task
<1>2. rpc.described = TRUE /\ send[rpc.id] = NULL
  BY DEF TaskFits
<1>3. rpc.id \in Orphans
  BY <1>1, <1>2 DEF Orphans, IdUse, NodeKnows
<1>4. ~Panics
  BY <1>2 DEF Panics
<1> QED
  BY <1>3, <1>4

(* A step adds a payment without a row only by letting the node accept it. *)
LEMMA OrphansStep ==
  ASSUME Base, IdUse, TransfersPaired, TaskFits, OrphansBounded, LedgerStep
  PROVE  OrphansBounded'
<1>f. IsFiniteSet(Orphans) /\ Cardinality(Orphans) \in Nat /\ crashes \in Nat
  <2>1. Orphans \subseteq SendIds
    BY DEF Orphans
  <2>2. IsFiniteSet(Orphans)
    BY <2>1, IdsFinite, FS_Subset
  <2>3. crashes \in Nat
    BY PaymentsConstants DEF Base, TypeOK
  <2> QED
    BY <2>2, <2>3, FS_CardinalityType
<1>t. /\ send \in [SendIds -> SendRow \cup {NULL}]
      /\ rpc # NULL => rpc.id \in SendIds /\ rpc.row \in SendRow
  BY DEF Base, TypeOK, Task
<1>1. ASSUME Orphans' = Orphans, UNCHANGED <<rpc, crashes>> PROVE OrphansBounded'
  BY <1>1 DEF OrphansBounded
<1>2. ASSUME NEW u \in Users, NEW v \in Users, NEW amount \in Int, NEW fee \in Nat,
             TransferStep(u, v, amount, fee)
      PROVE  OrphansBounded'
  <2>1. /\ CanMint /\ UNCHANGED <<out, rpc, crashes>>
        /\ \A id \in SendIds : id # Fresh => send'[id] = send[id]
    BY <1>2, <1>t DEF TransferStep, create_internal_transfer, node, counters
  <2>2. out[Fresh] = NULL
    BY <2>1, FreshNew
  <2>3. Orphans' = Orphans
    BY <2>1, <2>2 DEF Orphans
  <2> QED
    BY <1>1, <2>1, <2>3
<1>3. ASSUME NEW id \in SendIds, NEW u \in Users, NEW amount \in Nat, NEW fee \in Nat,
             NEW paid \in Nat, NEW rowStatus \in {"pending", "successful"},
             NEW outStatus \in {"inflight", "broadcast"},
             AcceptStep(id, u, amount, fee, rowStatus, outStatus, paid)
      PROVE  OrphansBounded'
  <2>1. /\ out[id] = NULL /\ send[id] = NULL /\ rpc = NULL /\ UNCHANGED <<send, crashes>>
        /\ \A j \in SendIds : j # id => out'[j] = out[j]
    BY <1>3, AcceptedNew
  <2>2. out'[id] # NULL
    BY <1>3, AcceptedRecords
  <2>3. Orphans' = Orphans \cup {id} /\ id \notin Orphans
    BY <2>1, <2>2 DEF Orphans
  <2>4. Cardinality(Orphans') = Cardinality(Orphans) + 1
    BY <1>f, <2>3, FS_AddElement
  <2>5. rpc' # NULL
    BY <1>3, AcceptedTask
  <2> QED
    BY <1>f, <2>1, <2>4, <2>5 DEF OrphansBounded
<1>4. ASSUME create_send_payment PROVE OrphansBounded'
  <2>1. /\ rpc # NULL /\ rpc' = NULL /\ UNCHANGED <<out, crashes>>
        /\ send' = [send EXCEPT ![rpc.id] = rpc.row]
    BY <1>4 DEF create_send_payment, node, counters
  <2>2. rpc.id \in Orphans
    BY <2>1, TaskIsOrphan
  <2>3. send'[rpc.id] # NULL /\ \A id \in SendIds : id # rpc.id => send'[id] = send[id]
    BY <1>t, <2>1, NullIsNoRecord
  <2>4. Orphans' = Orphans \ {rpc.id}
    BY <1>t, <2>1, <2>3 DEF Orphans
  <2>5. Cardinality(Orphans') = Cardinality(Orphans) - 1
    BY <1>f, <2>2, <2>4, FS_RemoveElement
  <2> QED
    BY <1>f, <2>1, <2>5 DEF OrphansBounded
<1>5. ASSUME HandlerPanics PROVE OrphansBounded'
  BY <1>5, TaskIsOrphan DEF HandlerPanics
<1>6. ASSUME Crash PROVE OrphansBounded'
  <2>1. UNCHANGED <<send, out>> /\ rpc' = NULL /\ crashes' = crashes + 1
    BY <1>6 DEF Crash, tables, node
  <2>2. Orphans' = Orphans
    BY <2>1 DEF Orphans
  <2> QED
    BY <1>f, <2>1, <2>2 DEF OrphansBounded
<1>7. ASSUME RequestStep \/ payment_received \/ payment_not_found \/ event_handled
      PROVE  OrphansBounded'
  <2>1. UNCHANGED <<send, out, rpc, crashes>>
    BY <1>7 DEF RequestStep, payment_received, payment_not_found, event_handled, tables,
                node, counters
  <2> QED
    BY <1>1, <2>1 DEF Orphans
<1>8. ASSUME update_send_status \/ update_send_fee PROVE OrphansBounded'
  <2>1. PICK id \in SendIds : id = NextEvent.id
    BY <1>8, UpdatedRow
  <2>2. /\ UNCHANGED <<out, rpc, crashes>>
        /\ send[id] # NULL /\ send'[id] # NULL
        /\ \A j \in SendIds : j # id => send'[j] = send[j]
    BY <1>8, <2>1, UpdatedRow, NullIsNoRecord
  <2> QED
    BY <1>1, <2>2 DEF Orphans
<1>9. ASSUME NEW id \in SendIds, NEW e \in Event, SettleStep(id, e) PROVE OrphansBounded'
  <2>1. UNCHANGED <<send, rpc, crashes>> /\ out[id] # NULL
    BY <1>9 DEF SettleStep
  <2>2. out'[id] # NULL /\ \A j \in SendIds : j # id => out'[j] = out[j]
    BY <1>9, SettledPayment
  <2> QED
    BY <1>1, <2>1, <2>2 DEF Orphans
<1>10. ASSUME NEW id \in Ids, NEW e \in Event, NEW off \in Ids, NEW a \in ReceiveAmounts,
              ReceiptStep(id, e, off, a)
       PROVE  OrphansBounded'
  BY <1>1, <1>10 DEF ReceiptStep, Orphans
<1> QED
  BY <1>2, <1>3, <1>4, <1>5, <1>6, <1>7, <1>8, <1>9, <1>10 DEF LedgerStep

(* However long the daemon runs, it has paid at most one payment per crash *)
(* without recording it.                                                   *)
THEOREM OrphansAlwaysBounded == Spec => []OrphansBounded
<1>1. Init => OrphansBounded
  <2> SUFFICES ASSUME Init PROVE OrphansBounded
    OBVIOUS
  <2>1. Orphans = {} /\ crashes = 0 /\ rpc = NULL
    BY DEF Init, Orphans
  <2> QED
    BY <2>1, FS_EmptySet DEF OrphansBounded
<1>2. /\ Base /\ IdUse /\ TransfersPaired /\ Settlement /\ OrphansBounded
      /\ [Next]_vars
      => OrphansBounded'
  BY StepCases, OrphansStep DEF Settlement
<1> QED
  BY <1>1, <1>2, BaseInvariant, IdUseInvariant, TransfersAlwaysPaired,
     SettlementInvariant, PTL DEF Spec

-----------------------------------------------------------------------------
(* Money: what the tables and the node say of each id, whoever's it is.    *)

ReceivedRows ==
  [id \in Ids |-> IF receive[id] # NULL THEN receive[id].amount ELSE 0]

ChargedRows ==
  [id \in SendIds |->
     IF send[id] # NULL /\ Counts(send[id]) THEN Charge(send[id]) ELSE 0]

ClaimedAmounts ==
  [id \in Ids |-> IF claimed[id] # NULL THEN claimed[id].amount ELSE 0]

SpentAmounts ==
  [id \in SendIds |->
     IF id \notin Orphans /\ out[id] # NULL /\ out[id].status # "failed"
     THEN out[id].amount + out[id].fee ELSE 0]

(* Every term of every sum is an integer.                                  *)
LEMMA TermsType ==
  ASSUME Base
  PROVE  /\ ReceivedRows \in [Ids -> Int] /\ ChargedRows \in [SendIds -> Int]
         /\ ClaimedAmounts \in [Ids -> Int] /\ SpentAmounts \in [SendIds -> Int]
         /\ \A id \in Ids : ClaimedAmounts[id] >= 0
         /\ \A id \in SendIds : SpentAmounts[id] >= 0
         /\ \A u : CreditTerms(u) \in [Ids -> Int] /\ DebitTerms(u) \in [SendIds -> Int]
<1>1. /\ \A id \in Ids : receive[id] # NULL => receive[id].amount \in Int
      /\ \A id \in SendIds : send[id] # NULL => Charge(send[id]) \in Int
      /\ \A id \in Ids : claimed[id] # NULL => claimed[id].amount \in Nat
      /\ \A id \in SendIds : out[id] # NULL => out[id].amount + out[id].fee \in Nat
  <2>1. \A id \in Ids : receive[id] # NULL => receive[id] \in ReceiveRow
    BY DEF Base, TypeOK
  <2>2. \A id \in SendIds : send[id] # NULL => send[id] \in SendRow
    BY DEF Base, TypeOK
  <2>3. \A id \in Ids : claimed[id] # NULL => claimed[id] \in InPayment
    BY DEF Base, TypeOK
  <2>4. \A id \in SendIds : out[id] # NULL => out[id] \in OutPayment
    BY DEF Base, TypeOK
  <2> QED
    BY <2>1, <2>2, <2>3, <2>4 DEF ReceiveRow, SendRow, Charge, InPayment, OutPayment
<1> QED
  BY <1>1 DEF ReceivedRows, ChargedRows, ClaimedAmounts, SpentAmounts, CreditTerms, DebitTerms

(* The users' credits add up to the receive rows, their debits to the send *)
(* rows that count.                                                        *)
LEMMA CreditsTotal ==
  ASSUME Base
  PROVE  /\ [u \in Users |-> Credits(u)] \in [Users -> Int]
         /\ SumFunction([u \in Users |-> Credits(u)]) = SumFunction(ReceivedRows)
<1> DEFINE owner == [id \in Ids |-> receive[id].user]
           part == [u \in Users |-> CreditTerms(u)]
           total == [u \in Users |-> Credits(u)]
<1>1. \A id \in Ids : ReceivedRows[id] = 0 \/ owner[id] \in Users
  BY DEF ReceivedRows, Base, TypeOK, ReceiveRow
<1>2. PartsOf(part, ReceivedRows, owner, Ids, Users)
  BY TermsType DEF PartsOf, CreditTerms, ReceivedRows
<1>3. \A u : Credits(u) = SumFunction(CreditTerms(u))
  BY DEF Credits, CreditTerms
<1>4. \A u : Credits(u) \in Int
  BY <1>3, TermsType, SumType, IdsFinite
<1>5. TotalsOf(total, part, Users)
  BY <1>3 DEF TotalsOf
<1>6. IsFiniteSet(Ids) /\ IsFiniteSet(Users) /\ ReceivedRows \in [Ids -> Int]
  BY TermsType, IdsFinite
<1> HIDE DEF owner, part, total
<1>7. SumFunction(total) = SumFunction(ReceivedRows)
  BY <1>1, <1>2, <1>5, <1>6, SumByOwner
<1> QED
  BY <1>4, <1>7 DEF total

(* The debits of all users are the charges of all rows.                    *)
LEMMA DebitsTotal ==
  ASSUME Base
  PROVE  /\ [u \in Users |-> Debits(u)] \in [Users -> Int]
         /\ SumFunction([u \in Users |-> Debits(u)]) = SumFunction(ChargedRows)
<1> DEFINE owner == [id \in SendIds |-> send[id].user]
           part == [u \in Users |-> DebitTerms(u)]
           total == [u \in Users |-> Debits(u)]
<1>1. \A id \in SendIds : ChargedRows[id] = 0 \/ owner[id] \in Users
  BY DEF ChargedRows, Base, TypeOK, SendRow
<1>2. PartsOf(part, ChargedRows, owner, SendIds, Users)
  BY TermsType DEF PartsOf, DebitTerms, ChargedRows
<1>3. \A u : Debits(u) = SumFunction(DebitTerms(u))
  BY DEF Debits, DebitTerms
<1>4. \A u : Debits(u) \in Int
  BY <1>3, TermsType, SumType, IdsFinite
<1>5. TotalsOf(total, part, Users)
  BY <1>3 DEF TotalsOf
<1>6. IsFiniteSet(SendIds) /\ IsFiniteSet(Users) /\ ChargedRows \in [SendIds -> Int]
  BY TermsType, IdsFinite
<1> HIDE DEF owner, part, total
<1>7. SumFunction(total) = SumFunction(ChargedRows)
  BY <1>1, <1>2, <1>5, <1>6, SumByOwner
<1> QED
  BY <1>4, <1>7 DEF total

(* For each id, what its rows give the users and what the node paid is     *)
(* covered by what its rows take from them and what the node received.     *)
LEMMA CoveredById ==
  ASSUME Base, IdUse, TransfersPaired, ReceiptsCredited, RowsFit, NEW id \in SendIds
  PROVE  (IF id \in Ids THEN ReceivedRows[id] ELSE 0) + SpentAmounts[id] <=
           (IF id \in Ids THEN ClaimedAmounts[id] ELSE 0) + ChargedRows[id]
<1>t. /\ send[id] # NULL => /\ send[id].amount \in Int /\ send[id].fee \in Nat
                            /\ send[id].status \in {"pending", "successful", "failed"}
      /\ out[id] # NULL => /\ out[id].amount \in Nat /\ out[id].fee \in Nat
                           /\ out[id].status \in {"inflight", "succeeded", "failed", "broadcast"}
  <2>1. send[id] \in SendRow \cup {NULL} /\ out[id] \in OutPayment \cup {NULL}
    BY DEF Base, TypeOK
  <2> QED
    BY <2>1 DEF SendRow, OutPayment
<1>1. CASE id \in Ids /\ claimed[id] # NULL
  <2>1. send[id] = NULL /\ out[id] = NULL
    BY <1>1 DEF IdUse, OneUse
  <2>2. claimed[id].amount \in Nat
    <3>1. claimed[id] \in InPayment
      BY <1>1 DEF Base, TypeOK
    <3> QED
      BY <3>1 DEF InPayment
  <2>3. receive[id] # NULL => receive[id].amount = claimed[id].amount
    <3>1. \/ receive[id] = [user |-> PayeeRow(claimed[id].to).user,
                            amount |-> claimed[id].amount]
          \/ receive[id] = NULL
      BY <1>1, Zenon DEF ReceiptsCredited
    <3> QED
      BY <3>1
  <2> QED
    BY <1>1, <2>1, <2>2, <2>3 DEF ReceivedRows, SpentAmounts, ClaimedAmounts, ChargedRows
<1>2. CASE id \in Ids /\ claimed[id] = NULL /\ receive[id] # NULL
  <2>1. /\ send[id] # NULL /\ send[id].status = "successful"
        /\ send[id].amount = receive[id].amount
    BY <1>2 DEF TransfersPaired
  <2>2. out[id] = NULL
    BY <1>2 DEF IdUse, OneUse
  <2> QED
    BY <1>2, <1>t, <2>1, <2>2
       DEF ReceivedRows, SpentAmounts, ClaimedAmounts, ChargedRows, Counts, Charge
<1>3. CASE id \in Ids => claimed[id] = NULL /\ receive[id] = NULL
  <2>1. send[id] # NULL => out[id] # NULL /\ RowFits(send[id], out[id])
    BY <1>3 DEF TransfersPaired, RowsFit
  <2>2. SpentAmounts[id] <= ChargedRows[id]
    BY <1>t, <2>1 DEF SpentAmounts, ChargedRows, Counts, Charge, Orphans, RowFits
  <2>3. id \in Ids => ReceivedRows[id] = 0 /\ ClaimedAmounts[id] = 0
    BY <1>3 DEF ReceivedRows, ClaimedAmounts
  <2>4. SpentAmounts[id] \in Int /\ ChargedRows[id] \in Int
    BY TermsType
  <2> QED
    BY <2>2, <2>3, <2>4
<1> QED
  BY <1>1, <1>2, <1>3

(* The sums behind Solvent.                                                *)
LEMMA SolventState ==
  ASSUME Base, IdUse, TransfersPaired, ReceiptsCredited, RowsFit
  PROVE  /\ [u \in Users |-> RawBalance(u)] \in [Users -> Int]
         /\ Received \in Int /\ RecordedSpend \in Nat
         /\ Solvent
<1> DEFINE raw == [u \in Users |-> RawBalance(u)]
           debits == [u \in Users |-> Debits(u)]
           credits == [u \in Users |-> Credits(u)]
           R == [id \in SendIds |-> IF id \in Ids THEN ReceivedRows[id] ELSE 0]
           K == [id \in SendIds |-> IF id \in Ids THEN ClaimedAmounts[id] ELSE 0]
           S == SpentAmounts
           C == ChargedRows
           lhs == [id \in SendIds |-> R[id] + S[id]]
           rhs == [id \in SendIds |-> K[id] + C[id]]
<1>1. /\ credits \in [Users -> Int] /\ debits \in [Users -> Int]
      /\ SumFunction(credits) = SumFunction(ReceivedRows)
      /\ SumFunction(debits) = SumFunction(C)
  BY CreditsTotal, DebitsTotal
<1>2. raw \in [Users -> Int] /\ \A u \in Users : credits[u] = raw[u] + debits[u]
  <2>1. \A u \in Users : Credits(u) \in Int /\ Debits(u) \in Int
    BY <1>1
  <2> QED
    BY <2>1 DEF RawBalance
<1>3. Ids \in SUBSET SendIds /\ IsFiniteSet(SendIds) /\ IsFiniteSet(Users) /\ IsFiniteSet(Ids)
  BY IdsFinite DEF SendIds
<1>4. /\ ReceivedRows \in [Ids -> Int] /\ C \in [SendIds -> Int]
      /\ ClaimedAmounts \in [Ids -> Int] /\ S \in [SendIds -> Int]
      /\ \A id \in SendIds : S[id] >= 0
  BY TermsType
<1>5. R \in [SendIds -> Int] /\ K \in [SendIds -> Int]
  BY <1>4
<1>6. lhs \in [SendIds -> Int] /\ rhs \in [SendIds -> Int]
  BY <1>4, <1>5
<1>7. \A id \in SendIds : lhs[id] <= rhs[id]
  BY CoveredById
<1>8. Received = SumFunction(ClaimedAmounts) /\ RecordedSpend = SumFunction(S)
  BY DEF Received, RecordedSpend, ClaimedAmounts, SpentAmounts
<1>9. Solvent <=> SumFunction(raw) <= Received - RecordedSpend
  BY DEF Solvent
<1>10. SumFunction(lhs) = SumFunction(R) + SumFunction(S)
  <2>1. \A id \in SendIds : lhs[id] = R[id] + S[id]
    OBVIOUS
  <2> HIDE DEF R, S, lhs
  <2> QED
    BY <1>3, <1>4, <1>5, <1>6, <2>1, SumAdd
<1>11. SumFunction(rhs) = SumFunction(K) + SumFunction(C)
  <2>1. \A id \in SendIds : rhs[id] = K[id] + C[id]
    OBVIOUS
  <2> HIDE DEF K, C, rhs
  <2> QED
    BY <1>3, <1>4, <1>5, <1>6, <2>1, SumAdd
<1>14. SumFunction(R) = SumFunction(ReceivedRows)
  <2>1. \A id \in SendIds : IF id \in Ids THEN R[id] = ReceivedRows[id] ELSE R[id] = 0
    OBVIOUS
  <2> HIDE DEF R
  <2> QED
    BY <1>3, <1>4, <1>5, <2>1, SumExtend
<1>15. SumFunction(K) = SumFunction(ClaimedAmounts)
  <2>1. \A id \in SendIds : IF id \in Ids THEN K[id] = ClaimedAmounts[id] ELSE K[id] = 0
    OBVIOUS
  <2> HIDE DEF K
  <2> QED
    BY <1>3, <1>4, <1>5, <2>1, SumExtend
<1> HIDE DEF raw, debits, credits, R, K, S, C, lhs, rhs
<1>12. SumFunction(credits) = SumFunction(raw) + SumFunction(debits)
  BY <1>1, <1>2, <1>3, SumAdd
<1>13. SumFunction(lhs) <= SumFunction(rhs)
  BY <1>3, <1>6, <1>7, SumMonotone
<1>16. /\ SumFunction(R) \in Int /\ SumFunction(K) \in Int /\ SumFunction(C) \in Int
       /\ SumFunction(raw) \in Int
  BY <1>2, <1>3, <1>4, <1>5, SumType
<1>17. SumFunction(S) \in Int /\ SumFunction(S) >= 0
  BY <1>3, <1>4, SumType
<1>18. SumFunction(raw) <= SumFunction(K) - SumFunction(S)
  <2>1. SumFunction(R) = SumFunction(raw) + SumFunction(C)
    BY <1>1, <1>12, <1>14
  <2>2. SumFunction(R) + SumFunction(S) <= SumFunction(K) + SumFunction(C)
    BY <1>10, <1>11, <1>13
  <2> QED
    BY <1>16, <1>17, <2>1, <2>2
<1> QED
  BY <1>2, <1>8, <1>9, <1>15, <1>16, <1>17, <1>18 DEF raw

(* The users together never have more than the node received less what its *)
(* recorded payments took.                                                 *)
THEOREM AlwaysSolvent == Spec => []Solvent
<1>1. Base /\ IdUse /\ TransfersPaired /\ Credited /\ Settlement => Solvent
  BY SolventState DEF Credited, Settlement
<1> QED
  BY <1>1, BaseInvariant, IdUseInvariant, TransfersAlwaysPaired, CreditedInvariant,
     SettlementInvariant, PTL

-----------------------------------------------------------------------------
(* No balance is negative.                                                 *)

(* What one id adds to the balance of u, and what it takes from it.        *)
CreditOf(u, id) ==
  IF id \in Ids /\ receive[id] # NULL /\ receive[id].user = u
  THEN receive[id].amount ELSE 0

DebitOf(u, id) ==
  IF send[id] # NULL /\ send[id].user = u /\ Counts(send[id])
  THEN Charge(send[id]) ELSE 0

(* The balance changes by what the rows of the one id that changed say.    *)
LEMMA BalanceChange ==
  ASSUME Base, Base', NEW u, NEW id \in SendIds,
         \A j \in SendIds : j # id => send'[j] = send[j],
         \A j \in Ids : j # id => receive'[j] = receive[j]
  PROVE  /\ RawBalance(u) \in Int /\ RawBalance(u)' \in Int
         /\ CreditOf(u, id) \in Int /\ CreditOf(u, id)' \in Int
         /\ DebitOf(u, id) \in Int /\ DebitOf(u, id)' \in Int
         /\ RawBalance(u)' = RawBalance(u) + (CreditOf(u, id)' - CreditOf(u, id))
                                           - (DebitOf(u, id)' - DebitOf(u, id))
<1> DEFINE c == CreditTerms(u)
           c2 == CreditTerms(u)'
           d == DebitTerms(u)
           d2 == DebitTerms(u)'
<1>1. c \in [Ids -> Int] /\ d \in [SendIds -> Int]
  BY TermsType
<1>2. c2 \in [Ids -> Int] /\ d2 \in [SendIds -> Int]
  <2>1. /\ \A j \in Ids : receive'[j] # NULL => receive'[j] \in ReceiveRow
        /\ \A j \in SendIds : send'[j] # NULL => send'[j] \in SendRow
    BY DEF Base, TypeOK
  <2>2. /\ \A j \in Ids : receive'[j] # NULL => receive'[j].amount \in Int
        /\ \A j \in SendIds : send'[j] # NULL => Charge(send'[j]) \in Int
    BY <2>1 DEF ReceiveRow, SendRow, Charge
  <2> QED
    BY <2>2 DEF CreditTerms, DebitTerms, Charge
<1>3. /\ Credits(u) = SumFunction(c) /\ Credits(u)' = SumFunction(c2)
      /\ Debits(u) = SumFunction(d) /\ Debits(u)' = SumFunction(d2)
  BY DEF Credits, CreditTerms, Debits, DebitTerms
<1>4. /\ DebitOf(u, id) = d[id] /\ DebitOf(u, id)' = d2[id]
      /\ \A j \in SendIds : j # id => d2[j] = d[j]
  BY DEF DebitOf, DebitTerms
<1>5. /\ \A j \in Ids : j # id => c2[j] = c[j]
      /\ id \in Ids => CreditOf(u, id) = c[id] /\ CreditOf(u, id)' = c2[id]
      /\ id \notin Ids => CreditOf(u, id) = 0 /\ CreditOf(u, id)' = 0
  BY DEF CreditOf, CreditTerms
<1> HIDE DEF c, c2, d, d2
<1>6. SumFunction(c) \in Int /\ SumFunction(d) \in Int
  BY <1>1, SumType, IdsFinite
<1>7. SumFunction(c2) \in Int /\ SumFunction(d2) \in Int
  BY <1>2, SumType, IdsFinite
<1>8. SumFunction(d2) = SumFunction(d) - d[id] + d2[id]
  BY <1>1, <1>2, <1>4, SumUpdate, IdsFinite
<1>9. SumFunction(c2) = SumFunction(c) - CreditOf(u, id) + CreditOf(u, id)'
  <2>1. CASE id \in Ids
    <3>1. SumFunction(c2) = SumFunction(c) - c[id] + c2[id]
      BY <1>1, <1>2, <1>5, <2>1, SumUpdate, IdsFinite
    <3> QED
      BY <1>5, <2>1, <3>1
  <2>2. CASE id \notin Ids
    <3>1. c2 = c
      BY <1>1, <1>2, <1>5, <2>2
    <3> QED
      BY <1>5, <1>6, <2>2, <3>1
  <2> QED
    BY <2>1, <2>2
<1>10. /\ CreditOf(u, id) \in Int /\ CreditOf(u, id)' \in Int
       /\ d[id] \in Int /\ d2[id] \in Int
  BY <1>1, <1>2, <1>5
<1>11. RawBalance(u) = SumFunction(c) - SumFunction(d) /\ RawBalance(u)' = SumFunction(c2) - SumFunction(d2)
  BY <1>3 DEF RawBalance
<1> QED
  BY <1>4, <1>6, <1>7, <1>8, <1>9, <1>10, <1>11

(* The node only receives what somebody pays.                              *)
ClaimAmounts ==
  \A id \in Ids : claimed[id] # NULL => claimed[id].amount \in ReceiveAmounts

(* All that is known of the ledger so far.                                 *)
Sound == Base /\ IdUse /\ TransfersPaired /\ Credited /\ Settlement /\ ClaimAmounts

(* Every step preserves ClaimAmounts.                                      *)
LEMMA ClaimAmountsStep ==
  ASSUME Base, ClaimAmounts, LedgerStep
  PROVE  ClaimAmounts'
<1>1. ASSUME UNCHANGED claimed PROVE ClaimAmounts'
  BY <1>1 DEF ClaimAmounts
<1>2. ASSUME NEW id \in Ids, NEW e \in Event, NEW off \in Ids, NEW a \in ReceiveAmounts,
             ReceiptStep(id, e, off, a)
      PROVE  ClaimAmounts'
  <2>1. /\ claimed'[id].amount = a
        /\ \A j \in Ids : j # id => claimed'[j] = claimed[j]
    BY <1>2 DEF ReceiptStep, Base, TypeOK
  <2> QED
    BY <2>1 DEF ClaimAmounts
<1>3. ASSUME NEW u, NEW v, NEW amount, NEW fee, TransferStep(u, v, amount, fee)
      PROVE  UNCHANGED claimed
  BY <1>3 DEF TransferStep, create_internal_transfer, node
<1>4. ASSUME NEW id, NEW u, NEW amount, NEW fee, NEW paid, NEW rowStatus, NEW outStatus,
             AcceptStep(id, u, amount, fee, rowStatus, outStatus, paid)
      PROVE  UNCHANGED claimed
  BY <1>4 DEF AcceptStep, NodeAccepts
<1>5. ASSUME \/ RequestStep \/ create_send_payment \/ HandlerPanics \/ payment_received
             \/ update_send_status \/ update_send_fee \/ payment_not_found \/ event_handled
             \/ Crash
      PROVE  UNCHANGED claimed
  BY <1>5 DEF RequestStep, create_send_payment, HandlerPanics, payment_received,
              update_send_status, update_send_fee, payment_not_found, event_handled, Crash, node
<1>6. ASSUME NEW id, NEW e, SettleStep(id, e) PROVE UNCHANGED claimed
  BY <1>6 DEF SettleStep
<1> QED
  BY <1>1, <1>2, <1>3, <1>4, <1>5, <1>6 DEF LedgerStep

(* Sound is an invariant.                                                  *)
LEMMA SoundInvariant == Spec => []Sound
<1>1. Init => ClaimAmounts
  BY DEF Init, ClaimAmounts
<1>2. Base /\ ClaimAmounts /\ [Next]_vars => ClaimAmounts'
  BY StepCases, ClaimAmountsStep
<1> QED
  BY <1>1, <1>2, BaseInvariant, IdUseInvariant, TransfersAlwaysPaired, CreditedInvariant,
     SettlementInvariant, PTL DEF Spec, Sound

(* The row about to be inserted takes a non-negative amount, and counts.   *)
LEMMA TaskCharge ==
  ASSUME Sound, rpc # NULL
  PROVE  /\ rpc.id \in SendIds /\ rpc.row \in SendRow /\ rpc.row.user \in Users
         /\ Charge(rpc.row) \in Nat /\ Counts(rpc.row)
<1>1. rpc \in Task
  BY DEF Sound, Base, TypeOK
<1>2. rpc.id \in SendIds /\ rpc.row \in SendRow
  BY <1>1 DEF Task
<1>3. out[rpc.id] # NULL
  BY DEF Sound, IdUse, NodeKnows
<1>4. out[rpc.id] \in OutPayment
  BY <1>2, <1>3 DEF Sound, Base, TypeOK
<1>5. /\ RowFits(rpc.row, out[rpc.id])
      /\ rpc.row.status # "pending" => out[rpc.id].status = "broadcast"
  BY DEF Sound, Settlement, TaskFits
<1> QED
  BY <1>2, <1>4, <1>5 DEF RowFits, SendRow, OutPayment, Charge, Counts

(* A balance is an integer, which the row about to be inserted does not    *)
(* overdraw.                                                               *)
LEMMA ReservedType ==
  ASSUME Sound, NEW u \in Users
  PROVE  /\ RawBalance(u) \in Int /\ Reserved(u) \in Nat
         /\ FundsCover => RawBalance(u) >= 0
<1>1. RawBalance(u) \in Int
  <2>1. [w \in Users |-> RawBalance(w)] \in [Users -> Int]
    BY SolventState DEF Sound, Credited, Settlement
  <2> QED
    BY <2>1
<1>2. Reserved(u) \in Nat
  BY TaskCharge DEF Reserved
<1> QED
  BY <1>1, <1>2 DEF FundsCover

(* No user has half of the values of a word.                               *)
LEMMA BalanceBounded ==
  ASSUME Sound, FundsCover, NEW u \in Users
  PROVE  RawBalance(u) < U64 \div 2
<1> DEFINE raw == [w \in Users |-> RawBalance(w)]
<1>1. raw \in [Users -> Int] /\ Received \in Int /\ RecordedSpend \in Nat /\ Solvent
  BY SolventState DEF Sound, Credited, Settlement
<1>2. \A w \in Users : raw[w] >= 0
  BY ReservedType
<1>3. SumFunction(raw) <= Received - RecordedSpend
  BY <1>1 DEF Solvent
<1>4. raw[u] = RawBalance(u)
  OBVIOUS
<1>5. Received < U64 \div 2
  <2>1. ClaimedAmounts \in [Ids -> ReceiveAmounts \cup {0}]
    BY DEF ClaimedAmounts, Sound, ClaimAmounts
  <2>2. Received = SumFunction(ClaimedAmounts)
    BY DEF Received, ClaimedAmounts
  <2> QED
    BY <2>1, <2>2, MoneyBounded
<1>6. U64 \div 2 \in Int
  BY PaymentsConstants
<1> HIDE DEF raw
<1>7. raw[u] <= SumFunction(raw)
  BY <1>1, <1>2, SumMember, IdsFinite
<1>8. SumFunction(raw) \in Int /\ raw[u] \in Int
  BY <1>1, SumType, IdsFinite
<1> QED
  BY <1>1, <1>3, <1>4, <1>5, <1>6, <1>7, <1>8

(* What user_balance reports is what the user has.                         *)
LEMMA BalanceReported ==
  ASSUME Sound, FundsCover, NEW u \in Users
  PROVE  /\ user_balance(u) = RawBalance(u) /\ AsI64(user_balance(u)) = RawBalance(u)
<1>1. RawBalance(u) \in Int /\ RawBalance(u) >= 0 /\ RawBalance(u) < U64 \div 2
  BY BalanceBounded, ReservedType
<1>2. U64 \in Nat \ {0}
  BY PaymentsConstants
<1>3. ASSUME NEW x \in Nat, NEW m \in Nat \ {0}, x < m \div 2 PROVE x % m = x /\ ~(x >= m \div 2)
  BY <1>3
<1> QED
  BY <1>1, <1>2, <1>3 DEF user_balance, AsI64

(* What a transfer does to the balances.                                   *)
LEMMA TransferEffect ==
  ASSUME Sound, Base', FundsCover, NEW u \in Users, NEW v \in Users, NEW amount \in Int,
         NEW fee \in Nat, TransferStep(u, v, amount, fee)
  PROVE  /\ amount >= 0 /\ amount + fee <= RawBalance(u) /\ u # v
         /\ RawBalance(u)' = RawBalance(u) - amount - fee
         /\ RawBalance(v)' = RawBalance(v) + amount
         /\ \A w \in Users : w \notin {u, v} => RawBalance(w)' = RawBalance(w)
<1>b. Base
  BY DEF Sound
<1>1. /\ u # v /\ CanMint /\ create_internal_transfer(u, v, amount, fee)
      /\ \/ amount \in SendAmounts /\ fee = 1000 /\ check_send(u, amount)
         \/ /\ amount = AsI64(user_balance(u)) /\ fee = 0
            /\ user_balance(u) \in 1..(U64 - 1)
  BY DEF TransferStep, create_internal_transfer
<1>2. /\ Fresh \in Ids /\ Fresh \in SendIds /\ send[Fresh] = NULL /\ receive[Fresh] = NULL
  BY <1>b, <1>1, FreshNew
<1>3. /\ send'[Fresh] # NULL
      /\ send'[Fresh] = [user |-> u, amount |-> amount, fee |-> fee, status |-> "successful"]
      /\ \A id \in SendIds : id # Fresh => send'[id] = send[id]
      /\ receive'[Fresh] # NULL
      /\ receive'[Fresh] = [user |-> v, amount |-> amount]
      /\ \A id \in Ids : id # Fresh => receive'[id] = receive[id]
  BY <1>b, <1>1, TransferRows, Zenon
<1>4. /\ send'[Fresh].user = u /\ send'[Fresh].amount = amount /\ send'[Fresh].fee = fee
      /\ send'[Fresh].status = "successful"
      /\ receive'[Fresh].user = v /\ receive'[Fresh].amount = amount
  BY <1>3
<1>5. RawBalance(u) \in Int /\ RawBalance(u) >= 0
      /\ user_balance(u) = RawBalance(u) /\ AsI64(user_balance(u)) = RawBalance(u)
  BY ReservedType, BalanceReported
<1>6. amount >= 0 /\ amount + fee <= RawBalance(u)
  <2>1. CASE amount \in SendAmounts /\ fee = 1000 /\ check_send(u, amount)
    <3>1. amount \in Nat /\ fee_msat(amount) \in Nat /\ 1000 <= fee_msat(amount)
      BY <2>1, PaymentsConstants, FeeType, TransferFeeCovered
    <3>2. RawBalance(u) >= amount + fee_msat(amount)
      BY <1>5, <2>1 DEF check_send
    <3> QED
      BY <1>5, <2>1, <3>1, <3>2
  <2>2. CASE amount = AsI64(user_balance(u)) /\ fee = 0
    BY <1>5, <2>2
  <2> QED
    BY <1>1, <2>1, <2>2
<1>7. PICK id \in SendIds : id = Fresh
  BY <1>2
<1>8. ASSUME NEW w \in Users
      PROVE  RawBalance(w)' = RawBalance(w) + (IF w = v THEN amount ELSE 0)
                                            - (IF w = u THEN amount + fee ELSE 0)
  <2>1. /\ CreditOf(w, id) = 0 /\ CreditOf(w, id)' = (IF w = v THEN amount ELSE 0)
        /\ DebitOf(w, id) = 0 /\ DebitOf(w, id)' = (IF w = u THEN amount + fee ELSE 0)
    BY <1>2, <1>3, <1>4, <1>7 DEF CreditOf, DebitOf, Counts, Charge
  <2>2. /\ RawBalance(w) \in Int
        /\ RawBalance(w)' = RawBalance(w) + (CreditOf(w, id)' - CreditOf(w, id))
                                          - (DebitOf(w, id)' - DebitOf(w, id))
    BY <1>b, <1>3, <1>7, BalanceChange
  <2> QED
    BY <2>1, <2>2
<1>9. \A w \in Users : RawBalance(w) \in Int
  BY ReservedType
<1> QED
  BY <1>1, <1>6, <1>8, <1>9

(* What the insertion of a send row does to the balances.                  *)
LEMMA InsertEffect ==
  ASSUME Sound, Base', create_send_payment
  PROVE  /\ rpc # NULL
         /\ \A w \in Users : RawBalance(w)' =
              RawBalance(w) - (IF w = rpc.row.user THEN Charge(rpc.row) ELSE 0)
<1>b. Base
  BY DEF Sound
<1>1. /\ rpc # NULL /\ UNCHANGED receive /\ send' = [send EXCEPT ![rpc.id] = rpc.row]
      /\ send[rpc.id] = NULL
  BY DEF create_send_payment, Sound, Settlement, TaskFits
<1>2. /\ rpc.id \in SendIds /\ rpc.row \in SendRow /\ rpc.row.user \in Users
      /\ Charge(rpc.row) \in Nat /\ Counts(rpc.row)
  BY <1>1, TaskCharge
<1>3. PICK id \in SendIds : id = rpc.id
  BY <1>2
<1>4. PICK row \in SendRow : row = rpc.row
  BY <1>2
<1>5. /\ send'[id] = row /\ \A j \in SendIds : j # id => send'[j] = send[j]
      /\ send'[id] # NULL /\ send[id] = NULL
  BY <1>1, <1>3, <1>4, NullIsNoRecord DEF Base, TypeOK, Sound
<1>6. ASSUME NEW w \in Users
      PROVE  RawBalance(w)' = RawBalance(w) - (IF w = row.user THEN Charge(row) ELSE 0)
  <2>1. /\ CreditOf(w, id)' = CreditOf(w, id) /\ DebitOf(w, id) = 0
        /\ DebitOf(w, id)' = (IF w = row.user THEN Charge(row) ELSE 0)
    BY <1>1, <1>2, <1>4, <1>5 DEF CreditOf, DebitOf, Counts
  <2>2. /\ RawBalance(w) \in Int /\ CreditOf(w, id) \in Int /\ DebitOf(w, id)' \in Int
        /\ RawBalance(w)' = RawBalance(w) + (CreditOf(w, id)' - CreditOf(w, id))
                                          - (DebitOf(w, id)' - DebitOf(w, id))
    BY <1>b, <1>1, <1>5, BalanceChange
  <2> QED
    BY <2>1, <2>2
<1> QED
  BY <1>1, <1>4, <1>6

(* What crediting a receipt does to the balances.                          *)
LEMMA CreditEffect ==
  ASSUME Sound, Base', payment_received
  PROVE  \E payee \in Users :
           /\ RawBalance(payee)' \in Int /\ RawBalance(payee)' >= RawBalance(payee)
           /\ \A w \in Users : w # payee => RawBalance(w)' = RawBalance(w)
<1>b. Base
  BY DEF Sound
<1>1. events # <<>> /\ NextEvent.type = "received"
  BY DEF payment_received, Deliver
<1>2. NextEvent.id \in Ids /\ claimed[NextEvent.id] # NULL
  BY <1>b, <1>1, HeadEvent DEF Base, ReceiptsQueued
<1>3. PICK id \in Ids : id = NextEvent.id
  BY <1>2
<1>4. PICK payee : payee = PayeeRow(claimed[id].to).user
  OBVIOUS
<1>5. PICK amount : amount = claimed[id].amount
  OBVIOUS
<1>6. /\ UNCHANGED send
      /\ receive' = [receive EXCEPT ![id] = IF @ = NULL THEN [user |-> payee, amount |-> amount] ELSE @]
  BY <1>3, <1>4, <1>5 DEF payment_received, create_receive_payment
<1>7. payee \in Users /\ amount \in Nat
  <2>1. claimed[id] \in InPayment
    BY <1>2, <1>3 DEF Sound, Base, TypeOK
  <2>2. claimed[id].to \in Ids /\ amount \in Nat
    BY <1>5, <2>1 DEF InPayment
  <2>3. PayeeRow(claimed[id].to) \in InvoiceRow \cup OfferRow
    <3>1. invoice[claimed[id].to] # NULL \/ offer[claimed[id].to] # NULL
      BY <1>2, <1>3, <1>b DEF Base, ClaimsKnown
    <3> QED
      BY <1>b, <2>2, <3>1 DEF PayeeRow, Base, TypeOK
  <2> QED
    BY <1>4, <2>2, <2>3 DEF InvoiceRow, OfferRow
<1>8. /\ \A j \in Ids : j # id => receive'[j] = receive[j]
      /\ receive[id] # NULL => receive'[id] = receive[id]
      /\ receive[id] = NULL => receive'[id] = [user |-> payee, amount |-> amount]
  BY <1>b, <1>6 DEF Base, TypeOK
<1>9. receive[id] = NULL => receive'[id].user = payee /\ receive'[id].amount = amount
  BY <1>8
<1>10. id \in SendIds
  BY DEF SendIds
<1>11. ASSUME NEW w \in Users
       PROVE  /\ RawBalance(w)' \in Int /\ RawBalance(w)' >= RawBalance(w)
              /\ w # payee => RawBalance(w)' = RawBalance(w)
  <2>1. /\ DebitOf(w, id)' = DebitOf(w, id)
        /\ w # payee => CreditOf(w, id)' = CreditOf(w, id)
        /\ \/ CreditOf(w, id)' = CreditOf(w, id)
           \/ CreditOf(w, id) = 0 /\ CreditOf(w, id)' = amount
    BY <1>6, <1>8, <1>9, <1>7 DEF CreditOf, DebitOf
  <2>2. /\ RawBalance(w) \in Int /\ CreditOf(w, id) \in Int /\ CreditOf(w, id)' \in Int
        /\ DebitOf(w, id) \in Int
        /\ RawBalance(w)' = RawBalance(w) + (CreditOf(w, id)' - CreditOf(w, id))
                                          - (DebitOf(w, id)' - DebitOf(w, id))
    BY <1>b, <1>6, <1>8, <1>10, BalanceChange
  <2> QED
    BY <1>7, <2>1, <2>2
<1> QED
  BY <1>7, <1>11

(* What the two UPDATEs of a settlement do to the balances: the payer gets *)
(* back what the row held and does not cost, and nobody else is concerned. *)
LEMMA UpdateEffect ==
  ASSUME Sound, Base', update_send_status \/ update_send_fee, NEW id, id = NextEvent.id
  PROVE  /\ id \in SendIds /\ send[id] # NULL /\ out[id] # NULL /\ send[id].user \in Users
         /\ Charge(send[id]) \in Nat /\ Charge(send'[id]) \in Nat
         /\ Counts(send[id]) => (Counts(send'[id]) => Charge(send'[id]) <= Charge(send[id]))
         /\ Counts(send'[id]) => Counts(send[id])
         /\ \A w \in Users : RawBalance(w)' = RawBalance(w) +
              (IF w = send[id].user
               THEN (IF Counts(send[id]) THEN Charge(send[id]) ELSE 0) -
                    (IF Counts(send'[id]) THEN Charge(send'[id]) ELSE 0)
               ELSE 0)
<1>b. Base /\ IdUse
  BY DEF Sound
<1>1. /\ events # <<>> /\ NextEvent = events[1] /\ NextEvent.type \in Outcomes
      /\ id \in SendIds /\ NextEvent.fee \in Nat /\ out[id] # NULL
      /\ send[id] \in SendRow /\ send'[id] \in SendRow
      /\ send'[id].user = send[id].user /\ send'[id].amount = send[id].amount
      /\ update_send_status => send'[id].status = NextEvent.type /\ send'[id].fee = send[id].fee
      /\ update_send_fee => send'[id].status = send[id].status /\ send'[id].fee = NextEvent.fee
      /\ \A j \in SendIds : j # id => send'[j] = send[j]
      /\ UNCHANGED receive
  BY <1>b, UpdatedRow
<1>2. send[id] # NULL /\ send'[id] # NULL /\ out[id] \in OutPayment
  BY <1>b, <1>1, NullIsNoRecord DEF Base, TypeOK
<1>3. RowFits(send[id], out[id])
  BY <1>1, <1>2 DEF Sound, Settlement, RowsFit
<1>4. /\ NextEvent.type = "successful" => out[id].status = "succeeded" /\ out[id].fee = NextEvent.fee
      /\ NextEvent.type = "failed" => out[id].status = "failed"
  BY <1>b, <1>1, HeadEvent DEF Sound, Settlement, EventsTrue
<1>5. update_send_fee => send[id].status # "pending"
  BY <1>1, <1>b DEF update_send_fee, Base, LoopSound
<1>6. /\ send[id].amount \in Nat /\ send[id].fee \in Nat
      /\ send'[id].amount \in Nat /\ send'[id].fee \in Nat
      /\ send[id].user \in Users
  BY <1>1, <1>2, <1>3 DEF RowFits, OutPayment, SendRow
<1>7. Charge(send[id]) \in Nat /\ Charge(send'[id]) \in Nat
  BY <1>6 DEF Charge
<1>8. /\ Counts(send[id]) => (Counts(send'[id]) => Charge(send'[id]) <= Charge(send[id]))
      /\ Counts(send'[id]) => Counts(send[id])
  BY <1>1, <1>2, <1>3, <1>4, <1>5, <1>6 DEF Charge, Counts, RowFits, Outcomes
<1>9. ASSUME NEW w \in Users
      PROVE  RawBalance(w)' = RawBalance(w) +
              (IF w = send[id].user
               THEN (IF Counts(send[id]) THEN Charge(send[id]) ELSE 0) -
                    (IF Counts(send'[id]) THEN Charge(send'[id]) ELSE 0)
               ELSE 0)
  <2>1. /\ CreditOf(w, id)' = CreditOf(w, id)
        /\ DebitOf(w, id) = IF w = send[id].user /\ Counts(send[id])
                            THEN Charge(send[id]) ELSE 0
        /\ DebitOf(w, id)' = IF w = send[id].user /\ Counts(send'[id])
                             THEN Charge(send'[id]) ELSE 0
    BY <1>1, <1>2 DEF CreditOf, DebitOf, Counts, Charge
  <2>2. /\ RawBalance(w) \in Int /\ CreditOf(w, id) \in Int
        /\ RawBalance(w)' = RawBalance(w) + (CreditOf(w, id)' - CreditOf(w, id))
                                          - (DebitOf(w, id)' - DebitOf(w, id))
    BY <1>b, <1>1, BalanceChange
  <2> QED
    BY <1>7, <2>1, <2>2
<1> QED
  BY <1>1, <1>2, <1>6, <1>7, <1>8, <1>9

(* A step keeps every balance above what the payment about to be inserted  *)
(* takes: check_send and the connection kept since then see to it.         *)
LEMMA FundsCoverStep ==
  ASSUME Sound, Base', FundsCover, LedgerStep
  PROVE  FundsCover'
<1>b. Base
  BY DEF Sound
<1>0. \A u \in Users : /\ RawBalance(u) \in Int /\ Reserved(u) \in Nat
                       /\ RawBalance(u) >= Reserved(u) /\ RawBalance(u) >= 0
  BY ReservedType DEF FundsCover
<1>1. FundsCover' <=> \A u \in Users : RawBalance(u)' >= Reserved(u)'
  BY DEF FundsCover
<1>2. ASSUME UNCHANGED <<send, receive>>, rpc' = rpc \/ rpc' = NULL PROVE FundsCover'
  <2>1. ASSUME NEW u \in Users
        PROVE  RawBalance(u)' = RawBalance(u) /\ Reserved(u)' \in {0, Reserved(u)}
    BY <1>2, BalancesUnchanged DEF Reserved
  <2> QED
    BY <1>0, <1>1, <2>1
<1>3. ASSUME NEW u \in Users, NEW v \in Users, NEW amount \in Int, NEW fee \in Nat,
             TransferStep(u, v, amount, fee)
      PROVE  FundsCover'
  <2>1. \A w \in Users : Reserved(w)' = 0
    BY <1>3 DEF TransferStep, create_internal_transfer, DbFree, Reserved
  <2>2. /\ amount >= 0 /\ amount + fee <= RawBalance(u)
        /\ RawBalance(u)' = RawBalance(u) - amount - fee
        /\ RawBalance(v)' = RawBalance(v) + amount
        /\ \A w \in Users : w \notin {u, v} => RawBalance(w)' = RawBalance(w)
    BY <1>3, TransferEffect
  <2>3. \A w \in Users : RawBalance(w)' >= 0
    BY <1>0, <2>2
  <2> QED
    BY <1>1, <2>1, <2>3
<1>4. ASSUME NEW id \in SendIds, NEW u \in Users, NEW amount \in Nat, NEW fee \in Nat,
             NEW paid \in Nat, NEW rowStatus \in {"pending", "successful"},
             NEW outStatus \in {"inflight", "broadcast"},
             AcceptStep(id, u, amount, fee, rowStatus, outStatus, paid)
      PROVE  FundsCover'
  <2>1. UNCHANGED <<send, receive>>
    BY <1>4 DEF AcceptStep, NodeAccepts, tables
  <2>2. rpc'.row.user = u /\ rpc'.row.amount = amount /\ rpc'.row.fee = fee
    <3>1. /\ out'[id] # NULL /\ out'[id].user = u /\ out'[id].amount = amount
          /\ out'[id].fee = paid /\ out'[id].status = outStatus
          /\ rpc'.id = id /\ rpc'.row.user = u /\ rpc'.row.amount = amount
          /\ rpc'.row.fee = fee /\ rpc'.row.status = rowStatus
      BY <1>b, <1>4, AcceptedRecords
    <3> QED
      BY <3>1
  <2>3. RawBalance(u) >= amount + fee
    BY <1>4, BalanceReported DEF AcceptStep
  <2>4. ASSUME NEW w \in Users PROVE RawBalance(w)' >= Reserved(w)'
    <3>1. RawBalance(w)' = RawBalance(w)
      BY <2>1, BalancesUnchanged
    <3>2. Reserved(w)' \in {0, IF w = u THEN amount + fee ELSE 0}
      BY <2>2 DEF Reserved, Charge
    <3> QED
      BY <1>0, <2>3, <3>1, <3>2
  <2> QED
    BY <1>1, <2>4
<1>5. ASSUME RequestStep \/ HandlerPanics \/ payment_not_found \/ event_handled \/ Crash
      PROVE  FundsCover'
  BY <1>2, <1>5 DEF RequestStep, HandlerPanics, payment_not_found, event_handled, Crash, tables
<1>6. ASSUME create_send_payment PROVE FundsCover'
  <2>1. \A w \in Users : Reserved(w)' = 0
    BY <1>6 DEF create_send_payment, Reserved
  <2>2. /\ rpc # NULL
        /\ \A w \in Users : RawBalance(w)' =
             RawBalance(w) - (IF w = rpc.row.user THEN Charge(rpc.row) ELSE 0)
    BY <1>6, InsertEffect
  <2>3. \A w \in Users : RawBalance(w)' = RawBalance(w) - Reserved(w)
    BY <2>2 DEF Reserved
  <2> QED
    BY <1>0, <1>1, <2>1, <2>3
<1>7. ASSUME payment_received PROVE FundsCover'
  <2>1. \A w \in Users : Reserved(w)' = 0
    BY <1>7 DEF payment_received, DbFree, Reserved
  <2>2. PICK payee \in Users :
          /\ RawBalance(payee)' \in Int /\ RawBalance(payee)' >= RawBalance(payee)
          /\ \A w \in Users : w # payee => RawBalance(w)' = RawBalance(w)
    BY <1>7, CreditEffect
  <2> QED
    BY <1>0, <1>1, <2>1, <2>2
<1>8. ASSUME update_send_status \/ update_send_fee PROVE FundsCover'
  <2>1. \A w \in Users : Reserved(w)' = 0
    BY <1>8, <1>b DEF update_send_status, update_send_fee, DbFree, Reserved, Base, LoopSound
  <2>2. PICK id : id = NextEvent.id
    OBVIOUS
  <2>3. /\ Charge(send[id]) \in Nat /\ Charge(send'[id]) \in Nat
        /\ Counts(send[id]) => (Counts(send'[id]) => Charge(send'[id]) <= Charge(send[id]))
        /\ Counts(send'[id]) => Counts(send[id])
        /\ \A w \in Users : RawBalance(w)' = RawBalance(w) +
             (IF w = send[id].user
              THEN (IF Counts(send[id]) THEN Charge(send[id]) ELSE 0) -
                   (IF Counts(send'[id]) THEN Charge(send'[id]) ELSE 0)
              ELSE 0)
    BY <1>8, <2>2, UpdateEffect
  <2> QED
    BY <1>0, <1>1, <2>1, <2>3
<1>9. ASSUME NEW id, NEW e, SettleStep(id, e) PROVE FundsCover'
  BY <1>2, <1>9 DEF SettleStep
<1>10. ASSUME NEW id, NEW e, NEW off, NEW a, ReceiptStep(id, e, off, a) PROVE FundsCover'
  BY <1>2, <1>10 DEF ReceiptStep
<1> QED
  BY <1>3, <1>4, <1>5, <1>6, <1>7, <1>8, <1>9, <1>10 DEF LedgerStep

(* FundsCover is an invariant.                                             *)
LEMMA FundsCoverInvariant == Spec => []FundsCover
<1>1. Init => FundsCover
  <2> SUFFICES ASSUME Init, NEW u \in Users PROVE RawBalance(u) >= Reserved(u)
    BY DEF FundsCover
  <2>1. RawBalance(u) = 0
    BY NothingAtFirst
  <2> QED
    BY <2>1 DEF Reserved, Init
<1>2. Sound /\ Base' /\ FundsCover /\ [Next]_vars => FundsCover'
  BY StepCases, FundsCoverStep DEF Sound
<1> QED
  BY <1>1, <1>2, BaseInvariant, SoundInvariant, PTL DEF Spec

(* No user ever owes the daemon money, whatever settles, fails or crashes  *)
(* while payments are pending.                                             *)
THEOREM NeverOverdrawn == Spec => []NoOverdraft
<1>1. Sound /\ FundsCover => NoOverdraft
  BY ReservedType DEF NoOverdraft
<1> QED
  BY <1>1, SoundInvariant, FundsCoverInvariant, PTL

(* What users are shown is what they have: the cast in user_balance never  *)
(* changes a balance.                                                      *)
THEOREM ReportsAlwaysTrue == Spec => []ReportedBalanceTrue
<1>1. Sound /\ FundsCover => ReportedBalanceTrue
  BY BalanceReported DEF ReportedBalanceTrue
<1> QED
  BY <1>1, SoundInvariant, FundsCoverInvariant, PTL

-----------------------------------------------------------------------------
(* The daemon implements Wallet.                                           *)

(* A hold that Wallet sees is an open payment.                             *)
HoldsOpen == \A id \in SendIds : Unsettled(id) <=> Open(id)

(* The holds of Wallet are the payments not settled in full.               *)
LEMMA HoldsAreOpen == Sound => HoldsOpen
<1> SUFFICES ASSUME Sound, NEW id \in SendIds PROVE Unsettled(id) <=> Open(id)
  BY DEF HoldsOpen
<1>b. Base /\ IdUse /\ EventsTrue /\ FeeAwaited
  BY DEF Sound, Settlement
<1>1. \A i \in 1..Len(events) :
        /\ events[i].type = "successful" => /\ out[events[i].id] # NULL
                                            /\ out[events[i].id].status = "succeeded"
                                            /\ out[events[i].id].fee = events[i].fee
        /\ events[i].type = "failed" => out[events[i].id].status = "failed"
  BY <1>b DEF EventsTrue, IdUse, NodeKnows, Outcomes
<1>2. Unsettled(id) => Open(id)
  BY <1>1 DEF Unsettled, Open, FeeOpen
<1>3. FeeOpen(id) => Unsettled(id)
  <2> SUFFICES ASSUME FeeOpen(id) PROVE Unsettled(id)
    OBVIOUS
  <2>1. PICK i \in 1..Len(events) : events[i].id = id /\ events[i].type \in Outcomes
    BY <1>b DEF FeeAwaited, Awaiting
  <2>2. events[i].type = "successful" /\ events[i].fee # send[id].fee
    BY <1>1, <2>1 DEF FeeOpen, Outcomes
  <2> QED
    BY <2>1, <2>2 DEF Unsettled, FeeOpen
<1> QED
  BY <1>2, <1>3 DEF Open, Unsettled

(* Only the funds of the users whose balances changed change.              *)
LEMMA FundsOfOthers ==
  ASSUME NEW S, \A w \in Users : w \notin S => RawBalance(w)' = RawBalance(w)
  PROVE  W!OnlyFundsOf(S)
<1>1. \A w \in Users : Funds[w] = RawBalance(w) /\ Funds'[w] = RawBalance(w)'
  BY DEF Funds
<1>2. Funds' = [w \in Users |-> Funds'[w]]
  BY DEF Funds
<1> HIDE DEF Funds
<1> QED
  BY <1>1, <1>2 DEF W!OnlyFundsOf

(* A payment stays open, or closed, and holds what it held.                *)
HoldKept(id) ==
  /\ Open(id)' <=> Open(id)
  /\ Open(id) => /\ send'[id].user = send[id].user
                 /\ Charge(send'[id]) = Charge(send[id])

(* Where every hold is kept, Holds is unchanged.                           *)
LEMMA HoldsKept ==
  ASSUME HoldsOpen, HoldsOpen', \A id \in SendIds : HoldKept(id)
  PROVE  UNCHANGED Holds
BY DEF HoldsOpen, HoldKept, Holds, Charge

(* One payment gets a hold or loses it.                                    *)
LEMMA HoldsOthers ==
  ASSUME HoldsOpen, HoldsOpen', NEW id \in SendIds,
         \A j \in SendIds : j # id => HoldKept(j)
  PROVE  Holds' = [Holds EXCEPT ![id] = Holds'[id]]
<1>1. \A j \in SendIds : j # id => Holds'[j] = Holds[j]
  BY DEF HoldsOpen, HoldKept, Holds, Charge
<1>2. Holds = [j \in SendIds |-> Holds[j]] /\ Holds' = [j \in SendIds |-> Holds'[j]]
  BY DEF Holds
<1> HIDE DEF Holds
<1> QED
  BY <1>1, <1>2

(* What a hold is.                                                         *)
LEMMA HoldValue ==
  ASSUME Base, Base', HoldsOpen, HoldsOpen', NEW id \in SendIds
  PROVE  /\ Open(id) => /\ Holds[id] = [user |-> send[id].user, amount |-> Charge(send[id])]
                        /\ Holds[id] # NULL
         /\ ~Open(id) => Holds[id] = NULL
         /\ Open(id)' => Holds'[id] = [user |-> send'[id].user, amount |-> Charge(send'[id])]
         /\ ~Open(id)' => Holds'[id] = NULL
<1>1. Open(id) => [user |-> send[id].user, amount |-> Charge(send[id])] \in ReceiveRow
  <2>1. Open(id) => send[id] \in SendRow
    BY DEF Open, FeeOpen, Base, TypeOK
  <2> QED
    BY <2>1 DEF SendRow, ReceiveRow, Charge
<1>2. Open(id) => [user |-> send[id].user, amount |-> Charge(send[id])] # NULL
  BY <1>1, NullIsNoRecord
<1> QED
  BY <1>2 DEF HoldsOpen, Holds, Charge

(* A step that changes no balance and no hold.                             *)
LEMMA Stutters ==
  ASSUME HoldsOpen, HoldsOpen', \A id \in SendIds : HoldKept(id),
         \A w \in Users : RawBalance(w)' = RawBalance(w)
  PROVE  UNCHANGED W!wallet
<1>1. UNCHANGED Holds
  BY HoldsKept
<1>2. UNCHANGED Funds
  BY DEF Funds
<1> QED
  BY <1>1, <1>2 DEF W!wallet

(* A payment whose row and node's record stay as they are stays as it is.  *)
LEMMA SamePayment ==
  ASSUME NEW id \in SendIds, send'[id] = send[id], send[id] = NULL \/ out'[id] = out[id]
  PROVE  HoldKept(id)
BY DEF HoldKept, Open, FeeOpen

(* A transfer is a transfer.                                               *)
LEMMA TransferRefines ==
  ASSUME Sound, Base', HoldsOpen, HoldsOpen', FundsCover, NEW u \in Users, NEW v \in Users,
         NEW amount \in Int, NEW fee \in Nat, TransferStep(u, v, amount, fee)
  PROVE  W!Transfer(u, v)
<1>b. Base
  BY DEF Sound
<1>1. /\ amount >= 0 /\ amount + fee <= RawBalance(u) /\ u # v
      /\ RawBalance(u)' = RawBalance(u) - amount - fee
      /\ RawBalance(v)' = RawBalance(v) + amount
      /\ \A w \in Users : w \notin {u, v} => RawBalance(w)' = RawBalance(w)
  BY TransferEffect
<1>2. /\ RawBalance(u) \in Int /\ RawBalance(v) \in Int /\ RawBalance(v) >= 0
  BY ReservedType
<1>3. ASSUME NEW id \in SendIds PROVE HoldKept(id)
  <2>1. /\ create_internal_transfer(u, v, amount, fee) /\ CanMint
    BY DEF TransferStep, create_internal_transfer
  <2>2. /\ UNCHANGED out
        /\ \A j \in SendIds : j # Fresh => send'[j] = send[j]
    BY <1>b, <2>1 DEF create_internal_transfer, node, Base, TypeOK
  <2>3. send[Fresh] = NULL /\ out[Fresh] = NULL /\ Fresh \in SendIds
    BY <1>b, <2>1, FreshNew
  <2>4. send'[Fresh].status = "successful"
    BY <1>b, <2>1, <2>3 DEF create_internal_transfer, Base, TypeOK
  <2>5. CASE id = Fresh
    BY <2>2, <2>3, <2>4, <2>5 DEF HoldKept, Open, FeeOpen
  <2> QED
    BY <2>2, <2>5, SamePayment
<1>4. UNCHANGED Holds
  BY <1>3, HoldsKept
<1>5. W!OnlyFundsOf({u, v})
  BY <1>1, FundsOfOthers
<1>6. /\ Funds[u] = RawBalance(u) /\ Funds'[u] = RawBalance(u)'
      /\ Funds[v] = RawBalance(v) /\ Funds'[v] = RawBalance(v)'
  BY DEF Funds
<1> HIDE DEF Funds, Holds
<1>7. /\ Funds'[v] \in Nat /\ Funds'[v] >= Funds[v]
      /\ Funds'[u] \in 0..(Funds[u] - (Funds'[v] - Funds[v]))
  BY <1>1, <1>2, <1>6
<1> QED
  BY <1>1, <1>4, <1>5, <1>7 DEF W!Transfer

(* The insertion of a Lightning payment puts a hold on what it may cost,   *)
(* that of a withdrawal takes it for good.                                 *)
LEMMA InsertRefines ==
  ASSUME Sound, Base', HoldsOpen, HoldsOpen', FundsCover, create_send_payment
  PROVE  \E u \in Users : W!Withdraw(u) \/ \E id \in SendIds : W!Hold(id, u)
<1>b. Base
  BY DEF Sound
<1>1. /\ rpc # NULL /\ UNCHANGED out /\ send' = [send EXCEPT ![rpc.id] = rpc.row]
      /\ send[rpc.id] = NULL
      /\ rpc.row.status # "pending" => out[rpc.id].status = "broadcast"
  BY DEF create_send_payment, node, Sound, Settlement, TaskFits
<1>2. /\ rpc.id \in SendIds /\ rpc.row \in SendRow /\ rpc.row.user \in Users
      /\ Charge(rpc.row) \in Nat
  BY <1>1, TaskCharge
<1>3. PICK id \in SendIds, row \in SendRow, u \in Users :
        id = rpc.id /\ row = rpc.row /\ u = rpc.row.user
  BY <1>2
<1>4. /\ send'[id] = row /\ send'[id] # NULL
      /\ \A j \in SendIds : j # id => send'[j] = send[j]
  BY <1>b, <1>1, <1>3, NullIsNoRecord DEF Base, TypeOK
<1>5. /\ \A w \in Users : RawBalance(w)' = RawBalance(w) - (IF w = u THEN Charge(row) ELSE 0)
      /\ RawBalance(u) \in Int /\ RawBalance(u) >= Charge(row)
  <2>1. RawBalance(u) \in Int /\ RawBalance(u) >= Reserved(u)
    BY ReservedType DEF FundsCover
  <2> QED
    BY <1>1, <1>3, <2>1, InsertEffect DEF Reserved
<1>6. /\ W!OnlyFundsOf({u})
      /\ Funds[u] = RawBalance(u) /\ Funds'[u] = RawBalance(u) - Charge(row)
  <2>1. \A w \in Users : w # u => RawBalance(w)' = RawBalance(w)
    BY <1>5, ReservedType
  <2>2. Funds[u] = RawBalance(u) /\ Funds'[u] = RawBalance(u)'
    BY DEF Funds
  <2> QED
    BY <1>5, <2>1, <2>2, FundsOfOthers
<1>7. \A j \in SendIds : j # id => HoldKept(j)
  BY <1>1, <1>4, SamePayment
<1>8. CASE row.status = "pending"
  <2>1. ~Open(id) /\ Open(id)'
    BY <1>1, <1>3, <1>4, <1>8 DEF Open, FeeOpen
  <2>2. /\ Holds[id] = NULL
        /\ Holds'[id] = [user |-> u, amount |-> Charge(row)]
    BY <1>b, <1>3, <1>4, <2>1, HoldValue
  <2>3. Holds' = [Holds EXCEPT ![id] = Holds'[id]]
    BY <1>7, HoldsOthers
  <2> HIDE DEF Funds, Holds
  <2>4. Charge(row) \in Nat /\ Funds[u] - Funds'[u] = Charge(row) /\ Funds'[u] \in 0..Funds[u]
    <3>1. Charge(row) \in Nat
      BY <1>2, <1>3
    <3>2. RawBalance(u) \in Int /\ RawBalance(u) >= Charge(row)
      BY <1>5
    <3>3. Funds[u] = RawBalance(u) /\ Funds'[u] = RawBalance(u) - Charge(row)
      BY <1>6
    <3> QED
      BY <3>1, <3>2, <3>3
  <2>5. W!Hold(id, u)
    BY <1>6, <2>2, <2>3, <2>4 DEF W!Hold
  <2> QED
    BY <2>5
<1>9. CASE row.status # "pending"
  <2>1. HoldKept(id)
    BY <1>1, <1>3, <1>4, <1>9 DEF HoldKept, Open, FeeOpen
  <2>2. UNCHANGED Holds
    BY <1>7, <2>1, HoldsKept
  <2> HIDE DEF Funds, Holds
  <2>3. Funds'[u] \in 0..Funds[u]
    BY <1>2, <1>3, <1>5, <1>6
  <2>4. W!Withdraw(u)
    BY <1>6, <2>2, <2>3 DEF W!Withdraw
  <2> QED
    BY <2>4
<1> QED
  BY <1>8, <1>9

(* A credited receipt is a deposit.                                        *)
LEMMA CreditRefines ==
  ASSUME Sound, Base', HoldsOpen, HoldsOpen', FundsCover, payment_received
  PROVE  \E u \in Users : W!Deposit(u)
<1>1. PICK u \in Users :
        /\ RawBalance(u)' \in Int /\ RawBalance(u)' >= RawBalance(u)
        /\ \A w \in Users : w # u => RawBalance(w)' = RawBalance(w)
  BY CreditEffect
<1>2. RawBalance(u) \in Int /\ RawBalance(u) >= 0
  BY ReservedType
<1>3. UNCHANGED <<send, out>>
  BY DEF payment_received, node
<1>4. UNCHANGED Holds
  BY <1>3, SamePayment, HoldsKept
<1>5. W!OnlyFundsOf({u})
  BY <1>1, FundsOfOthers
<1>6. Funds[u] = RawBalance(u) /\ Funds'[u] = RawBalance(u)'
  BY DEF Funds
<1> HIDE DEF Funds, Holds
<1>7. Funds'[u] \in Nat /\ Funds'[u] >= Funds[u]
  BY <1>1, <1>2, <1>6
<1> QED
  BY <1>4, <1>5, <1>7 DEF W!Deposit

(* The UPDATEs of a settlement close the payment, or leave its hold and    *)
(* all balances as they are.                                               *)
LEMMA UpdateCloses ==
  ASSUME Sound, Base', update_send_status \/ update_send_fee, NEW id, id = NextEvent.id
  PROVE  \/ Open(id) /\ ~Open(id)'
         \/ /\ HoldKept(id)
            /\ Counts(send'[id]) <=> Counts(send[id])
            /\ Counts(send[id]) => Charge(send'[id]) = Charge(send[id])
<1>b. Base /\ IdUse
  BY DEF Sound
<1>1. /\ events # <<>> /\ NextEvent = events[1] /\ NextEvent.type \in Outcomes
      /\ id \in SendIds /\ NextEvent.fee \in Nat /\ out[id] # NULL
      /\ send[id] \in SendRow /\ send'[id] \in SendRow
      /\ send'[id].user = send[id].user /\ send'[id].amount = send[id].amount
      /\ update_send_status => send'[id].status = NextEvent.type /\ send'[id].fee = send[id].fee
      /\ update_send_fee => send'[id].status = send[id].status /\ send'[id].fee = NextEvent.fee
      /\ UNCHANGED out
  BY <1>b, UpdatedRow
<1>2. send[id] # NULL /\ send'[id] # NULL /\ out[id] \in OutPayment
  BY <1>b, <1>1, NullIsNoRecord DEF Base, TypeOK
<1>3. RowFits(send[id], out[id])
  BY <1>1, <1>2 DEF Sound, Settlement, RowsFit
<1>4. /\ NextEvent.type = "successful" => out[id].status = "succeeded" /\ out[id].fee = NextEvent.fee
      /\ NextEvent.type = "failed" => out[id].status = "failed"
  BY <1>b, <1>1, HeadEvent DEF Sound, Settlement, EventsTrue
<1>5. update_send_fee => send[id].status # "pending"
  BY <1>1, <1>b DEF update_send_fee, Base, LoopSound
<1>6. /\ Open(id) <=> \/ send[id].status = "pending"
                      \/ /\ send[id].status = "successful" /\ out[id].status = "succeeded"
                         /\ send[id].fee # out[id].fee
      /\ Open(id)' <=> \/ send'[id].status = "pending"
                       \/ /\ send'[id].status = "successful" /\ out[id].status = "succeeded"
                          /\ send'[id].fee # out[id].fee
  BY <1>1, <1>2 DEF Open, FeeOpen
<1>7. CASE update_send_status
  BY <1>1, <1>3, <1>4, <1>6, <1>7 DEF RowFits, Outcomes, HoldKept, Counts, Charge
<1>8. CASE update_send_fee
  BY <1>1, <1>3, <1>4, <1>5, <1>6, <1>8 DEF RowFits, Outcomes, HoldKept, Counts, Charge, SendRow
<1> QED
  BY <1>7, <1>8

(* They release a hold, or change no money.                                *)
LEMMA UpdateRefines ==
  ASSUME Sound, Base', HoldsOpen, HoldsOpen', FundsCover, update_send_status \/ update_send_fee
  PROVE  UNCHANGED W!wallet \/ \E id \in SendIds : W!Release(id)
<1>b. Base /\ IdUse
  BY DEF Sound
<1>0. PICK id : id = NextEvent.id
  OBVIOUS
<1>1. /\ id \in SendIds /\ send[id] # NULL /\ out[id] # NULL /\ send[id].user \in Users
      /\ Charge(send[id]) \in Nat /\ Charge(send'[id]) \in Nat
      /\ Counts(send[id]) => (Counts(send'[id]) => Charge(send'[id]) <= Charge(send[id]))
      /\ Counts(send'[id]) => Counts(send[id])
      /\ \A w \in Users : RawBalance(w)' = RawBalance(w) +
           (IF w = send[id].user
            THEN (IF Counts(send[id]) THEN Charge(send[id]) ELSE 0) -
                 (IF Counts(send'[id]) THEN Charge(send'[id]) ELSE 0)
            ELSE 0)
  BY <1>0, UpdateEffect
<1>2. \A j \in SendIds : j # id => HoldKept(j)
  <2>1. UNCHANGED out /\ \A j \in SendIds : j # id => send'[j] = send[j]
    BY <1>b, <1>0, UpdatedRow
  <2> QED
    BY <2>1, SamePayment
<1>3. \A w \in Users : RawBalance(w) \in Int /\ RawBalance(w) >= 0
  BY ReservedType
<1>4. CASE Open(id) /\ ~Open(id)'
  <2>1. PICK u \in Users : u = send[id].user
    BY <1>1
  <2>2. W!OnlyFundsOf({u})
    <3>1. \A w \in Users : w # u => RawBalance(w)' = RawBalance(w)
      BY <1>1, <1>3, <2>1
    <3> QED
      BY <3>1, FundsOfOthers
  <2>3. Funds[u] = RawBalance(u) /\ Funds'[u] = RawBalance(u)'
    BY DEF Funds
  <2>4. /\ Holds[id] # NULL /\ Holds[id].user = u /\ Holds[id].amount = Charge(send[id])
        /\ Holds'[id] = NULL
    <3>1. id \in SendIds
      BY <1>1
    <3>2. /\ Holds[id] = [user |-> send[id].user, amount |-> Charge(send[id])]
          /\ Holds[id] # NULL
      BY <1>b, <1>4, <3>1, HoldValue, Zenon
    <3>3. Holds'[id] = NULL
      BY <1>b, <1>4, <3>1, HoldValue, Zenon
    <3> QED
      BY <2>1, <3>2, <3>3
  <2>5. Holds' = [Holds EXCEPT ![id] = NULL]
    BY <1>1, <1>2, <2>4, HoldsOthers
  <2>6. Counts(send[id])
    BY <1>4 DEF Open, FeeOpen, Counts
  <2> HIDE DEF Funds, Holds
  <2>7. Funds'[u] \in Funds[u]..(Funds[u] + Charge(send[id]))
    BY <1>1, <1>3, <2>1, <2>3, <2>6
  <2>8. W!Release(id)
    BY <2>2, <2>4, <2>5, <2>7 DEF W!Release
  <2> QED
    BY <1>1, <2>8
<1>5. CASE /\ HoldKept(id)
           /\ Counts(send'[id]) <=> Counts(send[id])
           /\ Counts(send[id]) => Charge(send'[id]) = Charge(send[id])
  <2>1. \A w \in Users : RawBalance(w)' = RawBalance(w)
    BY <1>1, <1>3, <1>5
  <2> QED
    BY <1>2, <1>5, <2>1, Stutters
<1> QED
  BY <1>0, <1>4, <1>5, UpdateCloses

(* Every other step leaves rows and balances alone, and what it changes of *)
(* the node's payments closes none.                                        *)
LEMMA OthersStutter ==
  ASSUME Sound, HoldsOpen, HoldsOpen',
         \/ RequestStep \/ HandlerPanics \/ payment_not_found \/ event_handled \/ Crash
         \/ \E id \in SendIds, u \in Users, amount, fee, paid \in Nat,
               rowStatus \in {"pending", "successful"}, outStatus \in {"inflight", "broadcast"} :
              AcceptStep(id, u, amount, fee, rowStatus, outStatus, paid)
         \/ \E id \in SendIds, e \in Event : SettleStep(id, e)
         \/ \E id \in Ids, e \in Event, off \in Ids, a \in ReceiveAmounts :
              ReceiptStep(id, e, off, a)
  PROVE  UNCHANGED W!wallet
<1>b. Base /\ TransfersPaired
  BY DEF Sound
<1>1. ASSUME UNCHANGED <<send, receive>>, \A id \in SendIds : HoldKept(id)
      PROVE  UNCHANGED W!wallet
  <2>1. \A w \in Users : RawBalance(w)' = RawBalance(w)
    BY <1>1, BalancesUnchanged
  <2> QED
    BY <1>1, <2>1, Stutters
<1>2. ASSUME RequestStep \/ HandlerPanics \/ payment_not_found \/ event_handled \/ Crash
      PROVE  UNCHANGED W!wallet
  <2>1. UNCHANGED <<send, receive, out>>
    BY <1>2 DEF RequestStep, HandlerPanics, payment_not_found, event_handled, Crash, tables, node
  <2> QED
    BY <1>1, <2>1, SamePayment
<1>3. ASSUME NEW id \in SendIds, NEW u, NEW amount, NEW fee, NEW paid, NEW rowStatus,
             NEW outStatus, AcceptStep(id, u, amount, fee, rowStatus, outStatus, paid)
      PROVE  UNCHANGED W!wallet
  <2>1. /\ send[id] = NULL /\ \A j \in SendIds : j # id => out'[j] = out[j]
        /\ UNCHANGED <<send, receive, claimed, events, handler, crashes>>
    BY <1>b, <1>3, AcceptedNew
  <2>2. \A j \in SendIds : HoldKept(j)
    BY <2>1, SamePayment
  <2> QED
    BY <1>1, <2>1, <2>2
<1>4. ASSUME NEW id \in SendIds, NEW e \in Event, SettleStep(id, e)
      PROVE  UNCHANGED W!wallet
  <2>1. UNCHANGED <<send, receive>> /\ out[id] # NULL
    BY <1>4 DEF SettleStep
  <2>2. out[id].status = "inflight" /\ \A j \in SendIds : j # id => out'[j] = out[j]
    BY <1>b, <1>4, SettledPayment
  <2>3. HoldKept(id)
    <3>1. send[id] # NULL => send[id].status = "pending"
      BY <2>1, <2>2 DEF Sound, Settlement, RowsFit, RowFits
    <3> QED
      BY <2>1, <3>1 DEF HoldKept, Open, FeeOpen
  <2>4. \A j \in SendIds : HoldKept(j)
    BY <2>1, <2>2, <2>3, SamePayment
  <2> QED
    BY <1>1, <2>1, <2>4
<1>5. ASSUME NEW id, NEW e, NEW off, NEW a, ReceiptStep(id, e, off, a)
      PROVE  UNCHANGED W!wallet
  <2>1. UNCHANGED <<send, receive, out>>
    BY <1>5 DEF ReceiptStep
  <2> QED
    BY <1>1, <2>1, SamePayment
<1> QED
  BY <1>2, <1>3, <1>4, <1>5

(* A step of the daemon is a step of Wallet or changes no money.           *)
LEMMA StepRefines ==
  ASSUME Sound, Base', HoldsOpen, HoldsOpen', FundsCover, LedgerStep
  PROVE  [W!Next]_(W!wallet)
<1>1. ASSUME NEW u \in Users, NEW v \in Users, NEW amount \in Int, NEW fee \in Nat,
             TransferStep(u, v, amount, fee)
      PROVE  W!Next
  BY <1>1, TransferRefines DEF W!Next
<1>2. ASSUME create_send_payment PROVE W!Next
  BY <1>2, InsertRefines DEF W!Next
<1>3. ASSUME payment_received PROVE W!Next
  BY <1>3, CreditRefines DEF W!Next
<1>4. ASSUME update_send_status \/ update_send_fee PROVE UNCHANGED W!wallet \/ W!Next
  BY <1>4, UpdateRefines DEF W!Next
<1>5. \/ UNCHANGED W!wallet
      \/ \E u, v \in Users, amount \in Int, fee \in Nat : TransferStep(u, v, amount, fee)
      \/ create_send_payment \/ payment_received \/ update_send_status \/ update_send_fee
  BY OthersStutter, Zenon DEF LedgerStep
<1> QED
  BY <1>1, <1>2, <1>3, <1>4, <1>5

(* Whatever the daemon does, crashes and redelivered events included, is   *)
(* to its users a deposit, a withdrawal, a transfer, a hold or the release *)
(* of a hold, once per hold and of no more than was held.                  *)
THEOREM DaemonImplementsWallet == Spec => ImplementsWallet
<1>1. Init => W!Init
  <2> SUFFICES ASSUME Init PROVE W!Init
    OBVIOUS
  <2>1. \A u \in Users : RawBalance(u) = 0
    BY NothingAtFirst
  <2>2. \A id \in SendIds : ~Unsettled(id)
    BY DEF Init, Unsettled
  <2> QED
    BY <2>1, <2>2 DEF W!Init, Funds, Holds
<1>2. /\ Sound /\ Base' /\ HoldsOpen /\ HoldsOpen' /\ FundsCover /\ [Next]_vars
      => [W!Next]_(W!wallet)
  BY StepCases, StepRefines DEF Sound
<1>3. Spec => []HoldsOpen
  BY SoundInvariant, HoldsAreOpen, PTL
<1> QED
  BY <1>1, <1>2, <1>3, BaseInvariant, SoundInvariant, FundsCoverInvariant, PTL
     DEF Spec, ImplementsWallet, W!Spec
=============================================================================
