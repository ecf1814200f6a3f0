----------------------------- MODULE FeedProofs -----------------------------
(***************************************************************************)
(* Theorems about module Feed, for any users, amounts, limit of the        *)
(* snapshot, connections, retries and crashes.                             *)
(***************************************************************************)
EXTENDS Feed, PaymentsProofs, SequenceTheorems

-----------------------------------------------------------------------------
(* The facts the inductive invariants add.                                 *)

AppEvent ==
  [type : {"balance"}, amount : Int]
    \cup [type : {"payment"}, id : SendIds, payment : Payment, is_live : BOOLEAN]
    \cup [type : {"update"}, id : SendIds, fee : Nat,
          status : {"pending", "successful", "failed"}]

FeedTypeOK ==
  /\ clock \in Nat /\ created \in [SendIds -> Nat]
  /\ conn \in {"down", "subscribed", "live"}
  /\ inbox \in Seq(AppEvent)
  /\ conn = "down" => inbox = <<>>
  /\ view \in [SendIds -> Payment \cup {NULL}]
  /\ announced \in [SendIds -> Nat]
  /\ balanceFeed[Watcher] \in Int

(* The loop has still to credit this receipt, or to be told of it again.   *)
ReceiptDue(i) == events[i].type = "received" /\ ~(i = 1 /\ handler = "applied")

(* Only payments that exist were announced, and none whose receipt is      *)
(* still to be delivered on this connection.                               *)
Announcements ==
  /\ \A id \in SendIds : announced[id] # 0 => announced[id] = 1 /\ into_payment(id) # NULL
  /\ \A i \in 1..Len(events) : ReceiptDue(i) => announced[events[i].id] = 0

(* The node queues one event for a payment it received.                    *)
ReceiptsDistinct ==
  \A i, j \in 1..Len(events) :
    events[i].type = "received" /\ events[j].type = "received"
      /\ events[i].id = events[j].id => i = j

(* The last Balance event on its way says what was last published; if none *)
(* is on its way the application shows it.                                 *)
BalanceFollows ==
  /\ \A i \in 1..Len(inbox) :
       inbox[i].type = "balance"
         /\ (\A j \in (i + 1)..Len(inbox) : inbox[j].type # "balance")
         => inbox[i].amount = balanceFeed[Watcher]
  /\ conn = "live" /\ (\A i \in 1..Len(inbox) : inbox[i].type # "balance")
       => shownBalance = balanceFeed[Watcher]

(* What is on its way to the client.                                       *)
OnItsWay == {inbox[i] : i \in 1..Len(inbox)}

(* The event speaks of this payment.                                       *)
About(e, id) == e.type # "balance" /\ e.id = id

(* The last event on its way that does.                                    *)
LastAbout(id) ==
  {inbox[i] : i \in {k \in 1..Len(inbox) :
                       /\ About(inbox[k], id)
                       /\ \A j \in (k + 1)..Len(inbox) : ~About(inbox[j], id)}}

(* A payment that was told of never changes its kind or its amount.        *)
Alike(p, id) ==
  /\ into_payment(id) # NULL
  /\ p.kind = into_payment(id).kind /\ p.amount = into_payment(id).amount

EventAlike(e) ==
  /\ e.type = "payment" => Alike(e.payment, e.id)
  /\ e.type = "update" => into_payment(e.id) # NULL

PaymentsAlike ==
  /\ \A e \in OnItsWay : EventAlike(e)
  /\ \A id \in SendIds : view[id] # NULL => Alike(view[id], id)

(* Status and fee, as the event gives them, are those of a payment.        *)
Says(e, p) ==
  IF e.type = "payment" THEN e.payment.status = p.status /\ e.payment.fee = p.fee
                        ELSE e.status = p.status /\ e.fee = p.fee

(* The loop is between the two UPDATEs of this payment.                    *)
Settling(id) == handler = "fee" /\ events[1].id = id

(* The last event of a payment on its way is up to date.                   *)
LastCurrent ==
  \A id \in SendIds :
    ~Settling(id) => \A e \in LastAbout(id) : Says(e, into_payment(id))

(* The application knows the payment, or is about to.                      *)
Known(id) ==
  view[id] # NULL \/ \E e \in OnItsWay : e.type = "payment" /\ e.id = id

(* A recent payment is known, and is shown as it is stored if nothing      *)
(* about it is on its way.                                                 *)
RecentFollows ==
  conn = "live" =>
    \A id \in SendIds :
      into_payment(id) # NULL /\ Recent(id) =>
        /\ Known(id)
        /\ ~Settling(id) /\ (\A e \in OnItsWay : ~About(e, id))
             => view[id] = into_payment(id)

ViewInv == BalanceFollows /\ PaymentsAlike /\ LastCurrent /\ RecentFollows

-----------------------------------------------------------------------------
(* The daemon of Feed is that of Payments.                                 *)

(* Every step of Feed is one of Payments, or leaves the daemon as it is.   *)
LEMMA FeedStepIsStep == FeedNext => [Next]_vars
<1> SUFFICES ASSUME FeedNext PROVE [Next]_vars
  OBVIOUS
<1>1. ASSUME NEW u \in Users, TransferAnnounced(u) PROVE Next
  <2>1. ASSUME NEW a \in SendAmounts, NEW id \in Ids,
               bolt11_send_internal(u, id, a) \/ bolt12_send_internal(u, id, a)
        PROVE  ClientSends(u)
    BY <2>1, Zenon DEF ClientSends
  <2>2. ASSUME NEW v \in Users, recover(u, v) PROVE Recovery(u)
    BY <2>2, Zenon DEF Recovery
  <2>3. ClientSends(u) \/ Recovery(u)
    BY <1>1, <2>1, <2>2, Zenon DEF TransferAnnounced
  <2> QED
    BY <2>3, Zenon DEF Next
<1>2. InsertAnnounced \/ ReceiptAnnounced \/ OutcomeAnnounced => Next
  BY Zenon DEF InsertAnnounced, ReceiptAnnounced, OutcomeAnnounced, HandlerEnds,
     process_ldk_event, process_ldk_events, Next
<1>3. ASSUME Unpublished PROVE Next
  <2>1. ASSUME NEW u \in Users,
               \/ \E a \in SendAmounts :
                    \/ \E pr \in ExtInvoices : bolt11_send_external(u, pr, a)
                    \/ \E d \in OfferDescribed : bolt12_send_external(u, a, d)
               \/ \E s \in OnchainSats, f \in OnchainFees : onchain_send(u, s, f)
               \/ ClientReceives(u)
               \/ create_recovery(u)
        PROVE  Next
    <3>1. ClientSends(u) \/ ClientReceives(u) \/ Recovery(u)
      BY <2>1, Zenon DEF ClientSends, Recovery
    <3> QED
      BY <3>1, Zenon DEF Next
  <2>2. \/ HandlerPanics \/ update_send_status \/ payment_not_found \/ event_handled
        \/ \E id \in SendIds : NodeSettles(id)
        \/ \E id \in Ids : NodeReceives(id)
        => Next
    BY Zenon DEF HandlerEnds, process_ldk_event, process_ldk_events, Next
  <2> QED
    BY <1>3, <2>1, <2>2, Zenon DEF Unpublished
<1>4. DaemonCrashes => Next
  BY Zenon DEF DaemonCrashes, Next
<1>5. subscribe_to_events \/ take_snapshot \/ ConnectionLost \/ accept_event
        => UNCHANGED vars
  BY Zenon DEF subscribe_to_events, take_snapshot, ConnectionLost, accept_event
<1> QED
  BY <1>1, <1>2, <1>3, <1>4, <1>5, Zenon DEF FeedNext

(* Whatever is proved of the ledger of Payments holds here too: connecting *)
(* a client changes nothing that the daemon does (events.rs, the bus has   *)
(* no effect on those who send on it).                                     *)
THEOREM FeedRunsTheDaemon == FeedSpec => Spec
<1>1. FeedInit => Init
  BY DEF FeedInit
<1>2. [FeedNext]_feedVars => [Next]_vars
  <2>1. UNCHANGED feedVars => UNCHANGED vars
    BY DEF feedVars
  <2> QED
    BY <2>1, FeedStepIsStep
<1> QED
  BY <1>1, <1>2, PTL DEF FeedSpec, Spec

Ledger == Base /\ IdUse /\ Credited /\ FeedCurrent

(* What is proved of the ledger in PaymentsProofs is invariant in Feed.    *)
LEMMA LedgerInvariant == FeedSpec => []Ledger
BY FeedRunsTheDaemon, BaseInvariant, IdUseInvariant, CreditedInvariant,
   FeedAlwaysCurrent, PTL DEF Ledger

(* user_balance is an integer.                                             *)
LEMMA BalanceType == TypeOK => user_balance(Watcher) \in Int
<1> SUFFICES ASSUME TypeOK PROVE user_balance(Watcher) \in Int
  OBVIOUS
<1>1. /\ CreditTerms(Watcher) \in [Ids -> Int]
      /\ DebitTerms(Watcher) \in [SendIds -> Int]
  <2>1. \A id \in Ids : receive[id] # NULL => receive[id].amount \in Int
    BY DEF TypeOK, ReceiveRow
  <2>2. \A id \in SendIds : send[id] # NULL => Charge(send[id]) \in Int
    BY DEF TypeOK, SendRow, Charge
  <2> QED
    BY <2>1, <2>2 DEF CreditTerms, DebitTerms
<1>2. RawBalance(Watcher) \in Int
  BY <1>1, IdsFinite, SumType DEF RawBalance, Credits, Debits, CreditTerms, DebitTerms
<1> QED
  BY <1>2, PaymentsConstants DEF user_balance

-----------------------------------------------------------------------------
(* What the daemon's steps do to the payments the watcher sees.            *)

SeenTyped == \A id \in SendIds : into_payment(id) \in Payment \cup {NULL}

(* What into_payment makes of a row is a payment.                          *)
LEMMA PaymentType == TypeOK => SeenTyped
<1> SUFFICES ASSUME TypeOK, NEW id \in SendIds
             PROVE  into_payment(id) \in Payment \cup {NULL}
  BY DEF SeenTyped
<1>1. /\ send[id] # NULL => send[id] \in SendRow
      /\ id \in Ids /\ receive[id] # NULL => receive[id] \in ReceiveRow
  BY DEF TypeOK
<1> QED
  BY <1>1 DEF into_payment, Payment, Kinds, SendRow, ReceiveRow

(* Rows that name the watcher are payments the watcher sees.               *)
WatcherSees ==
  \A id \in SendIds :
    /\ send[id] # NULL /\ send[id].user = Watcher => into_payment(id) # NULL
    /\ id \in Ids /\ receive[id] # NULL /\ receive[id].user = Watcher
         => into_payment(id) # NULL

(* No row of the watcher is hidden from the watcher.                       *)
LEMMA SeenBy == TypeOK => WatcherSees
<1> SUFFICES ASSUME TypeOK, NEW id \in SendIds
             PROVE  /\ send[id] # NULL /\ send[id].user = Watcher => into_payment(id) # NULL
                    /\ id \in Ids /\ receive[id] # NULL /\ receive[id].user = Watcher
                         => into_payment(id) # NULL
  BY DEF WatcherSees
<1>1. /\ send[id] # NULL => send[id] \in SendRow
      /\ id \in Ids /\ receive[id] # NULL => receive[id] \in ReceiveRow
  BY DEF TypeOK
<1>2. send[id] # NULL /\ send[id].user = Watcher => into_payment(id) \in Payment
  BY <1>1 DEF into_payment, Payment, Kinds, SendRow
<1>3. id \in Ids /\ receive[id] # NULL /\ receive[id].user = Watcher
        => into_payment(id) \in Payment
  BY <1>1, <1>2 DEF into_payment, Payment, Kinds, ReceiveRow
<1> QED
  BY <1>2, <1>3, NullIsNoPayment

(* The same rows are the same payment.                                     *)
LEMMA SameRows ==
  ASSUME NEW id \in SendIds, send'[id] = send[id], id \in Ids => receive'[id] = receive[id]
  PROVE  into_payment(id)' = into_payment(id)
BY DEF into_payment

(* A payment of the watcher comes into being, or is announced again.       *)
Appears(id) ==
  /\ id \in SendIds
  /\ \A j \in SendIds : j # id => into_payment(j)' = into_payment(j)
  /\ into_payment(id) # NULL => into_payment(id)' = into_payment(id)
  /\ into_payment(id)' = NULL => balanceFeed'[Watcher] = balanceFeed[Watcher]
  /\ handler # "fee" /\ handler' # "fee" /\ UNCHANGED events
  /\ \/ /\ into_payment(id) = NULL /\ UNCHANGED handler
        /\ \A i \in 1..Len(events) : events[i].type = "received" => events[i].id # id
     \/ /\ handler = "idle" /\ handler' = "applied"
        /\ events # <<>> /\ events[1].type = "received" /\ events[1].id = id

(* Users who are not told of a new balance have the one they had.          *)
LEMMA NotTold ==
  ASSUME NEW S, PublishBalances(S), Watcher \notin S
  PROVE  balanceFeed'[Watcher] = balanceFeed[Watcher]
BY FeedConstants DEF PublishBalances

(* An internal transfer makes at most one payment of the watcher appear.   *)
LEMMA TransferAppears ==
  ASSUME Ledger, TypeOK', NEW u \in Users, NEW v \in Users, NEW amount \in Int,
         NEW fee \in Nat, TransferStep(u, v, amount, fee), NEW id, id = Fresh
  PROVE  Appears(id)
<1>0. TypeOK /\ Base /\ \A x \in Ids : x \in SendIds
  BY DEF Ledger, Base, SendIds
<1>1. create_internal_transfer(u, v, amount, fee) /\ DbFree
  BY DEF TransferStep
<1>2. /\ id \in Ids /\ id \in SendIds /\ send[id] = NULL /\ receive[id] = NULL
      /\ UNCHANGED <<events, handler>>
  BY <1>0, <1>1, FreshNew, TransferRows DEF create_internal_transfer
<1>3. /\ send'[id] # NULL /\ send'[id].user = u
      /\ \A j \in SendIds : j # id => send'[j] = send[j]
      /\ receive'[id] # NULL /\ receive'[id].user = v
      /\ \A j \in Ids : j # id => receive'[j] = receive[j]
  <2>1. /\ send'[id] # NULL
        /\ send'[id] = [user |-> u, amount |-> amount, fee |-> fee,
                        status |-> "successful"]
        /\ \A j \in SendIds : j # id => send'[j] = send[j]
        /\ receive'[id] # NULL
        /\ receive'[id] = [user |-> v, amount |-> amount]
        /\ \A j \in Ids : j # id => receive'[j] = receive[j]
    BY <1>0, <1>1, TransferRows, Zenon
  <2> QED
    BY <2>1
<1>4. into_payment(id) = NULL
  BY <1>2 DEF into_payment
<1>5. \A j \in SendIds : j # id => into_payment(j)' = into_payment(j)
  BY <1>3, SameRows
<1>6. ASSUME into_payment(id)' = NULL
      PROVE  balanceFeed'[Watcher] = balanceFeed[Watcher]
  <2>1. Watcher # u /\ Watcher # v
    <3>1. TypeOK' => WatcherSees'
      BY SeenBy, PTL
    <3> QED
      BY <1>2, <1>3, <1>6, <3>1 DEF WatcherSees
  <2>2. PublishBalances({u, v})
    BY <1>1 DEF create_internal_transfer, TransferAudience
  <2> QED
    BY <2>1, <2>2, NotTold
<1>7. handler # "fee"
  BY <1>1 DEF DbFree
<1>8. \A i \in 1..Len(events) : events[i].type = "received" => events[i].id # id
  BY <1>0, <1>1, FreshNew DEF create_internal_transfer, Base, ReceiptsQueued
<1> QED
  BY <1>2, <1>4, <1>5, <1>6, <1>7, <1>8 DEF Appears

(* The INSERT of a send row makes at most one payment of the watcher       *)
(* appear.                                                                 *)
LEMMA InsertAppears ==
  ASSUME Ledger, TypeOK', create_send_payment, NEW id, id = rpc.id
  PROVE  Appears(id)
<1>0. TypeOK /\ Base /\ IdUse /\ \A x \in Ids : x \in SendIds
  BY DEF Ledger, Base, SendIds
<1>1. /\ rpc # NULL /\ id \in SendIds /\ send[id] = NULL /\ rpc.row \in SendRow
      /\ send' = [send EXCEPT ![id] = rpc.row]
      /\ UNCHANGED <<receive, events, handler>>
      /\ PublishBalances({rpc.row.user})
  BY <1>0 DEF create_send_payment, Panics, TypeOK, Task
<1>2. id \in Ids => receive[id] = NULL
  BY <1>0, <1>1 DEF IdUse, OneUse, NodeKnows
<1>3. into_payment(id) = NULL
  BY <1>1, <1>2 DEF into_payment
<1>4. /\ send'[id] = rpc.row /\ send'[id] # NULL
      /\ \A j \in SendIds : j # id => send'[j] = send[j]
  BY <1>0, <1>1, NullIsNoRecord DEF TypeOK
<1>5. \A j \in SendIds : j # id => into_payment(j)' = into_payment(j)
  BY <1>1, <1>4, SameRows
<1>6. ASSUME into_payment(id)' = NULL
      PROVE  balanceFeed'[Watcher] = balanceFeed[Watcher]
  <2>1. TypeOK' => WatcherSees'
    BY SeenBy, PTL
  <2>2. Watcher # rpc.row.user
    BY <1>1, <1>4, <1>6, <2>1 DEF WatcherSees
  <2> QED
    BY <1>1, <2>2, NotTold
<1>7. handler # "fee"
  BY <1>0, <1>1 DEF Base, LoopSound
<1>8. \A i \in 1..Len(events) : events[i].type = "received" => events[i].id # id
  <2>1. id \in Ids => claimed[id] = NULL
    BY <1>0, <1>1 DEF IdUse, OneUse, NodeKnows
  <2> QED
    BY <1>0, <2>1 DEF Base, ReceiptsQueued
<1> QED
  BY <1>1, <1>3, <1>5, <1>6, <1>7, <1>8 DEF Appears

(* The loop's receipt makes a payment of the watcher appear, or repeats    *)
(* one when the event was delivered again.                                 *)
LEMMA ReceiptAppears ==
  ASSUME Ledger, TypeOK', payment_received, NEW id, id = NextEvent.id
  PROVE  Appears(id)
<1>0. /\ TypeOK /\ Base /\ IdUse /\ ReceiptsCredited
      /\ \A x \in Ids : x \in SendIds
  BY DEF Ledger, Base, SendIds, Credited
<1> DEFINE payee == PayeeRow(claimed[id].to).user
           row == [user |-> payee, amount |-> claimed[id].amount]
<1>1. /\ handler = "idle" /\ handler' = "applied" /\ UNCHANGED <<send, events>>
      /\ events # <<>> /\ events[1].type = "received" /\ events[1].id = id
      /\ PublishBalances({payee})
      /\ receive' = [receive EXCEPT ![id] = IF @ = NULL THEN row ELSE @]
  BY DEF payment_received, create_receive_payment, Deliver, NextEvent
<1>2. id \in Ids /\ id \in SendIds /\ claimed[id] # NULL
  BY <1>0, <1>1, HeadEvent DEF Base, ReceiptsQueued
<1>3. send[id] = NULL
  BY <1>0, <1>2 DEF IdUse, OneUse
<1>4. receive[id] # NULL => receive[id].user = payee
  <2>1. receive[id] = row \/ receive[id] = NULL
    BY <1>0, <1>2 DEF ReceiptsCredited
  <2>2. row.user = payee
    OBVIOUS
  <2> QED
    BY <2>1, <2>2, Zenon
<1>r. row.user = payee
  OBVIOUS
<1> HIDE DEF payee, row
<1>5. \A j \in Ids : j # id => receive'[j] = receive[j]
  BY <1>0, <1>1 DEF TypeOK
<1>6. \A j \in SendIds : j # id => into_payment(j)' = into_payment(j)
  BY <1>1, <1>5, SameRows
<1>7. receive[id] # NULL => receive'[id] = receive[id]
  BY <1>0, <1>1, <1>2 DEF TypeOK
<1>8. into_payment(id) # NULL => into_payment(id)' = into_payment(id)
  <2>1. into_payment(id) # NULL => receive[id] # NULL
    BY <1>3 DEF into_payment
  <2> QED
    BY <1>1, <1>2, <1>7, <2>1, SameRows
<1>9. ASSUME into_payment(id)' = NULL
      PROVE  balanceFeed'[Watcher] = balanceFeed[Watcher]
  <2>1. TypeOK' => WatcherSees'
    BY SeenBy, PTL
  <2>2. receive'[id] = NULL \/ receive'[id].user # Watcher
    BY <1>2, <1>9, <2>1 DEF WatcherSees
  <2>3. receive[id] = NULL => receive'[id] = row
    BY <1>0, <1>1, <1>2 DEF TypeOK
  <2>4. row # NULL
    <3>1. claimed[id] \in InPayment /\ claimed[id].to \in Ids /\ claimed[id].amount \in Nat
      BY <1>0, <1>2 DEF TypeOK, InPayment
    <3>2. payee \in Users
      BY <1>0, <1>2, <3>1 DEF Base, ClaimsKnown, TypeOK, InvoiceRow, OfferRow, PayeeRow, payee
    <3> QED
      BY <3>1, <3>2, NullIsNoRecord DEF row, ReceiveRow
  <2>5. Watcher # payee
    BY <1>r, <1>4, <1>7, <2>2, <2>3, <2>4
  <2> QED
    BY <1>1, <2>5, NotTold
<1> QED
  BY <1>1, <1>2, <1>6, <1>8, <1>9 DEF Appears

(* Every step that announces a payment lets one appear.                    *)
LEMMA AnnouncedSteps ==
  ASSUME Ledger, TypeOK',
         \/ \E u \in Users : TransferAnnounced(u)
         \/ InsertAnnounced \/ ReceiptAnnounced
  PROVE  \E id \in SendIds : Appears(id) /\ Announce(id)
<1>0. TypeOK
  BY DEF Ledger, Base
<1>1. ASSUME NEW u \in Users, NEW v \in Users, NEW amount \in Int, NEW fee \in Nat,
             TransferStep(u, v, amount, fee), \E id \in {Fresh} : Announce(id)
      PROVE  \E id \in SendIds : Appears(id) /\ Announce(id)
  <2>1. PICK id \in {Fresh} : Announce(id)
    BY <1>1
  <2>2. id = Fresh
    BY <2>1
  <2>3. Appears(id)
    BY <1>1, <2>2, TransferAppears
  <2>4. id \in SendIds
    BY <2>3 DEF Appears
  <2> QED
    BY <2>1, <2>3, <2>4
<1>2. ASSUME NEW u \in Users, TransferAnnounced(u)
      PROVE  \E id \in SendIds : Appears(id) /\ Announce(id)
  <2>0. \E id \in {Fresh} : Announce(id)
    BY <1>2 DEF TransferAnnounced
  <2>1. ASSUME NEW a \in SendAmounts, NEW inv \in Ids, bolt11_send_internal(u, inv, a)
        PROVE  \E v \in Users, amount \in Int, fee \in Nat : TransferStep(u, v, amount, fee)
    <3>1. TransferStep(u, invoice[inv].user, a, 1000)
      BY <2>1 DEF bolt11_send_internal, TransferStep
    <3>2. invoice[inv].user \in Users /\ a \in Int /\ 1000 \in Nat
      BY <1>0, <2>1, PaymentsConstants DEF bolt11_send_internal, TypeOK, InvoiceRow
    <3> QED
      BY <3>1, <3>2
  <2>2. ASSUME NEW a \in SendAmounts, NEW off \in Ids, bolt12_send_internal(u, off, a)
        PROVE  \E v \in Users, amount \in Int, fee \in Nat : TransferStep(u, v, amount, fee)
    <3>1. TransferStep(u, offer[off].user, a, 1000)
      BY <2>2 DEF bolt12_send_internal, TransferStep
    <3>2. offer[off].user \in Users /\ a \in Int /\ 1000 \in Nat
      BY <1>0, <2>2, PaymentsConstants DEF bolt12_send_internal, TypeOK, OfferRow
    <3> QED
      BY <3>1, <3>2
  <2>3. ASSUME NEW v \in Users, recover(u, v)
        PROVE  \E w, x \in Users, amount \in Int, fee \in Nat : TransferStep(w, x, amount, fee)
    <3>1. AsI64(user_balance(v)) \in Int /\ 0 \in Nat
      BY <2>3, PaymentsConstants DEF recover, AsI64
    <3>2. TransferStep(v, u, AsI64(user_balance(v)), 0)
      BY <2>3 DEF recover, TransferStep, MayRecover
    <3> QED
      BY <3>1, <3>2
  <2>4. \E w, x \in Users, amount \in Int, fee \in Nat : TransferStep(w, x, amount, fee)
    BY <1>2, <2>1, <2>2, <2>3, Zenon DEF TransferAnnounced
  <2> QED
    BY <1>1, <2>0, <2>4
<1>3. ASSUME InsertAnnounced PROVE \E id \in SendIds : Appears(id) /\ Announce(id)
  <2>1. PICK id \in {rpc.id} : Announce(id)
    BY <1>3 DEF InsertAnnounced
  <2>2. id = rpc.id /\ create_send_payment
    BY <1>3, <2>1 DEF InsertAnnounced
  <2>3. Appears(id)
    BY <2>2, InsertAppears
  <2> QED
    BY <2>1, <2>3 DEF Appears
<1>4. ASSUME ReceiptAnnounced PROVE \E id \in SendIds : Appears(id) /\ Announce(id)
  <2>1. PICK id \in {NextEvent.id} : Announce(id)
    BY <1>4 DEF ReceiptAnnounced
  <2>2. id = NextEvent.id /\ payment_received
    BY <1>4, <2>1 DEF ReceiptAnnounced
  <2>3. Appears(id)
    BY <2>2, ReceiptAppears
  <2> QED
    BY <2>1, <2>3 DEF Appears
<1> QED
  BY <1>2, <1>3, <1>4

(* A payment keeps its kind and amount, and is not forgotten.              *)
Kept(id) ==
  /\ (into_payment(id)' = NULL) = (into_payment(id) = NULL)
  /\ into_payment(id) # NULL => /\ into_payment(id)'.kind = into_payment(id).kind
                                /\ into_payment(id)'.amount = into_payment(id).amount

(* The UPDATEs change status and fee of a payment the watcher sees, or     *)
(* nothing the watcher sees.                                               *)
LEMMA UpdateKeeps ==
  ASSUME Ledger, update_send_status \/ update_send_fee
  PROVE  /\ \A j \in SendIds : j # NextEvent.id => into_payment(j)' = into_payment(j)
         /\ \A j \in SendIds : j = NextEvent.id => Kept(j)
         /\ \A j \in SendIds : j = NextEvent.id /\ send[j].user # Watcher
              => into_payment(j) = NULL /\ into_payment(j)' = NULL
         /\ \A j \in SendIds : j = NextEvent.id /\ send[j].user = Watcher
              => /\ into_payment(j) # NULL
                 /\ into_payment(j)'.status = send'[j].status
                 /\ into_payment(j)'.fee = send'[j].fee
<1>0. TypeOK /\ Base /\ IdUse
  BY DEF Ledger, Base
<1>1. \A j \in SendIds : j # NextEvent.id => send'[j] = send[j]
  BY <1>0, UpdatedRow
<1>2. UNCHANGED receive
  BY DEF update_send_status, update_send_fee
<1>3. \A j \in SendIds : j # NextEvent.id => into_payment(j)' = into_payment(j)
  BY <1>1, <1>2, SameRows
<1>4. ASSUME NEW j \in SendIds, j = NextEvent.id
      PROVE  /\ Kept(j)
             /\ send[j].user # Watcher => into_payment(j) = NULL /\ into_payment(j)' = NULL
             /\ send[j].user = Watcher => /\ into_payment(j) # NULL
                                          /\ into_payment(j)'.status = send'[j].status
                                          /\ into_payment(j)'.fee = send'[j].fee
  <2>1. /\ send[j] \in SendRow /\ send'[j] \in SendRow
        /\ send'[j].user = send[j].user /\ send'[j].amount = send[j].amount
        /\ send[j] # NULL /\ send'[j] # NULL
    BY <1>0, <1>4, UpdatedRow, NullIsNoRecord
  <2>2. CASE send[j].user = Watcher
    <3>1. /\ into_payment(j) = [kind |-> "send", amount |-> send[j].amount,
                               fee |-> send[j].fee, status |-> send[j].status]
          /\ into_payment(j)' = [kind |-> "send", amount |-> send'[j].amount,
                                fee |-> send'[j].fee, status |-> send'[j].status]
      BY <2>1, <2>2 DEF into_payment
    <3>2. into_payment(j) \in Payment /\ into_payment(j)' \in Payment
      BY <2>1, <3>1 DEF Payment, Kinds, SendRow
    <3> QED
      BY <2>1, <2>2, <3>1, <3>2, NullIsNoPayment DEF Kept
  <2>3. CASE send[j].user # Watcher
    <3>1. j \in Ids => receive[j] = NULL
      BY <1>0, <1>4, UpdatedRow DEF IdUse, OneUse
    <3>2. into_payment(j) = NULL /\ into_payment(j)' = NULL
      BY <1>2, <2>1, <2>3, <3>1 DEF into_payment
    <3> QED
      BY <2>3, <3>2 DEF Kept
  <2> QED
    BY <2>2, <2>3
<1> QED
  BY <1>3, <1>4

(* The second UPDATE brings a payment up to date and says so.              *)
Settles(id) ==
  /\ id \in SendIds /\ Kept(id)
  /\ \A j \in SendIds : j # id => into_payment(j)' = into_payment(j)
  /\ handler = "fee" /\ handler' = "applied"
  /\ events # <<>> /\ events[1].id = id /\ UNCHANGED events
  /\ \/ /\ into_payment(id) = NULL /\ into_payment(id)' = NULL
        /\ UNCHANGED inbox /\ balanceFeed'[Watcher] = balanceFeed[Watcher]
     \/ /\ into_payment(id) # NULL
        /\ SendEvents(<<BalanceEvent(balanceFeed[Watcher]'),
                        UpdateEvent(id, into_payment(id)'.status, into_payment(id)'.fee)>>)

(* The second UPDATE ends the settling of one payment.                     *)
LEMMA OutcomeSettles ==
  ASSUME Ledger, OutcomeAnnounced PROVE \E id \in SendIds : Settles(id)
<1>0. TypeOK /\ Base /\ IdUse
  BY DEF Ledger, Base
<1>1. update_send_fee
  BY DEF OutcomeAnnounced
<1>2. PICK id \in {NextEvent.id} :
        IF send[id].user = Watcher
          THEN SendEvents(<<BalanceEvent(balanceFeed[Watcher]'),
                            UpdateEvent(id, send[id].status, send'[id].fee)>>)
          ELSE UNCHANGED inbox
  BY Zenon DEF OutcomeAnnounced
<1>3. id = NextEvent.id
  BY <1>2
<1>4. /\ id \in SendIds /\ events # <<>> /\ events[1].id = id /\ UNCHANGED events
      /\ send'[id].status = send[id].status
  BY <1>0, <1>1, <1>3, UpdatedRow
<1>5. handler = "fee" /\ handler' = "applied" /\ PublishBalances({send[id].user})
  BY <1>1, <1>3 DEF update_send_fee
<1>6. /\ Kept(id)
      /\ \A j \in SendIds : j # id => into_payment(j)' = into_payment(j)
      /\ send[id].user # Watcher => into_payment(id) = NULL /\ into_payment(id)' = NULL
      /\ send[id].user = Watcher => /\ into_payment(id) # NULL
                                    /\ into_payment(id)'.status = send'[id].status
                                    /\ into_payment(id)'.fee = send'[id].fee
  BY <1>1, <1>3, <1>4, UpdateKeeps
<1>7. CASE send[id].user = Watcher
  <2>1. SendEvents(<<BalanceEvent(balanceFeed[Watcher]'),
                     UpdateEvent(id, into_payment(id)'.status, into_payment(id)'.fee)>>)
    BY <1>2, <1>4, <1>6, <1>7, Zenon
  <2> QED
    BY <1>4, <1>5, <1>6, <1>7, <2>1, Zenon DEF Settles
<1>8. CASE send[id].user # Watcher
  <2>1. UNCHANGED inbox
    BY <1>2, <1>8, Zenon
  <2>2. balanceFeed'[Watcher] = balanceFeed[Watcher]
    BY <1>5, <1>8, NotTold
  <2> QED
    BY <1>4, <1>5, <1>6, <1>8, <2>1, <2>2, Zenon DEF Settles
<1> QED
  BY <1>7, <1>8

(* A step that nobody is told of changes no payment, unless the loop is    *)
(* about to tell of it.                                                    *)
Quiet ==
  /\ \A j \in SendIds : Kept(j)
  /\ \A j \in SendIds : \/ handler' = "fee" /\ events'[1].id = j
                        \/ ~Settling(j) /\ into_payment(j)' = into_payment(j)
  /\ UNCHANGED balanceFeed

(* Steps that leave both tables alone are quiet.                           *)
LEMMA UntouchedIsQuiet ==
  ASSUME UNCHANGED <<send, receive, balanceFeed>>,
         handler = "fee" => handler' = "fee" /\ events'[1] = events[1]
  PROVE  Quiet
<1>1. \A j \in SendIds : into_payment(j)' = into_payment(j)
  BY SameRows
<1> QED
  BY <1>1 DEF Quiet, Kept, Settling

(* How such a step moves the queue.                                        *)
QueueMoves ==
  \/ /\ UNCHANGED events
     /\ \/ UNCHANGED handler
        \/ handler = "idle" /\ events # <<>> /\ events[1].type # "received"
  \/ /\ UNCHANGED handler
     /\ \E e \in Event :
          /\ events' = Append(events, e)
          /\ e.type = "received" =>
               e.id \in Ids /\ claimed[e.id] = NULL /\ into_payment(e.id) = NULL
  \/ events # <<>> /\ events' = Tail(events) /\ handler = "applied" /\ handler' = "idle"

(* An event queued behind the head does not disturb the loop.              *)
LEMMA QueuedAppends ==
  ASSUME Ledger, NEW e \in Event, events' = Append(events, e), UNCHANGED handler
  PROVE  handler = "fee" => handler' = "fee" /\ events'[1] = events[1]
BY QueueAppend DEF Ledger, Base, TypeOK, LoopSound

(* A request the node has not been paid for is nobody's payment yet.       *)
LEMMA UnclaimedUnseen ==
  ASSUME Ledger, NEW id \in Ids, claimed[id] = NULL,
         invoice[id] # NULL \/ id > minted
  PROVE  into_payment(id) = NULL
<1>1. receive[id] = NULL
  BY DEF Ledger, Base, FreshUnused, Credited, InvoiceReceipts
<1>2. send[id] = NULL
  BY DEF Ledger, Base, FreshUnused, IdUse, OneUse
<1> QED
  BY <1>1, <1>2 DEF into_payment

(* Steps that publish nothing change nothing the watcher was told of,      *)
(* except that the first UPDATE begins to settle a payment.                *)
LEMMA UnpublishedSteps ==
  ASSUME Ledger, Unpublished PROVE Quiet /\ QueueMoves /\ Unannounced
<1>0. TypeOK /\ Base /\ IdUse
  BY DEF Ledger, Base
<1>u. Unannounced
  BY Zenon DEF Unpublished
<1>1. ASSUME UNCHANGED <<send, receive, balanceFeed, events, handler>>
      PROVE  Quiet /\ QueueMoves
  <2>1. Quiet
    BY <1>1, UntouchedIsQuiet
  <2> QED
    BY <1>1, <2>1 DEF QueueMoves
<1>2. ASSUME NEW u \in Users,
             \/ \E a \in SendAmounts :
                  \/ \E pr \in ExtInvoices : bolt11_send_external(u, pr, a)
                  \/ \E d \in OfferDescribed : bolt12_send_external(u, a, d)
             \/ \E s \in OnchainSats, f \in OnchainFees : onchain_send(u, s, f)
             \/ ClientReceives(u)
             \/ create_recovery(u)
      PROVE  Quiet /\ QueueMoves
  <2>1. ASSUME \/ \E a \in SendAmounts :
                    \/ \E pr \in ExtInvoices : bolt11_send_external(u, pr, a)
                    \/ \E d \in OfferDescribed : bolt12_send_external(u, a, d)
               \/ \E s \in OnchainSats, f \in OnchainFees : onchain_send(u, s, f)
        PROVE  UNCHANGED <<send, receive, balanceFeed, events, handler>>
    BY <2>1 DEF bolt11_send_external, bolt12_send_external, onchain_send, NodeAccepts,
                tables, feed
  <2>2. ASSUME ClientReceives(u) \/ create_recovery(u)
        PROVE  UNCHANGED <<send, receive, balanceFeed, events, handler>>
    BY <2>2 DEF ClientReceives, bolt11_receive, bolt12_receive, create_recovery, feed
  <2> QED
    BY <1>1, <1>2, <2>1, <2>2
<1>3. ASSUME HandlerPanics PROVE Quiet /\ QueueMoves
  BY <1>1, <1>3 DEF HandlerPanics, tables, feed
<1>4. ASSUME payment_not_found PROVE Quiet /\ QueueMoves
  <2>1. /\ UNCHANGED <<send, receive, balanceFeed, events>> /\ handler = "idle"
        /\ events # <<>> /\ events[1].type # "received"
    BY <1>4 DEF payment_not_found, Deliver, NextEvent, tables, feed
  <2>2. Quiet
    BY <2>1, UntouchedIsQuiet
  <2> QED
    BY <2>1, <2>2 DEF QueueMoves
<1>5. ASSUME event_handled PROVE Quiet /\ QueueMoves
  <2>1. /\ UNCHANGED <<send, receive, balanceFeed>> /\ events' = Tail(events)
        /\ handler = "applied" /\ handler' = "idle" /\ events # <<>>
    BY <1>0, <1>5 DEF event_handled, tables, feed, Base, LoopSound
  <2>2. Quiet
    BY <2>1, UntouchedIsQuiet
  <2> QED
    BY <2>1, <2>2 DEF QueueMoves
<1>6. ASSUME update_send_status PROVE Quiet /\ QueueMoves
  <2>1. /\ handler = "idle" /\ handler' = "fee" /\ UNCHANGED <<balanceFeed, events>>
        /\ events # <<>> /\ events[1].type # "received" /\ NextEvent = events'[1]
    BY <1>6 DEF update_send_status, Deliver, NextEvent, feed
  <2>2. Quiet
    <3>1. \A j \in SendIds : j # NextEvent.id => into_payment(j)' = into_payment(j)
      BY <1>6, UpdateKeeps
    <3>2. \A j \in SendIds : j = NextEvent.id => Kept(j)
      BY <1>6, UpdateKeeps
    <3>3. \A j \in SendIds : into_payment(j)' = into_payment(j) => Kept(j)
      BY DEF Kept
    <3> QED
      BY <2>1, <3>1, <3>2, <3>3 DEF Quiet, Settling
  <2> QED
    BY <2>1, <2>2 DEF QueueMoves
<1>7. ASSUME NEW e \in Event, events' = Append(events, e),
             UNCHANGED <<send, receive, balanceFeed, handler>>,
             e.type = "received" =>
               e.id \in Ids /\ claimed[e.id] = NULL /\ into_payment(e.id) = NULL
      PROVE  Quiet /\ QueueMoves
  <2>1. Quiet
    BY <1>7, QueuedAppends, UntouchedIsQuiet
  <2> QED
    BY <1>7, <2>1 DEF QueueMoves
<1>8. ASSUME NEW id \in SendIds, NodeSettles(id) PROVE Quiet /\ QueueMoves
  <2>1. PICK type \in {"successful", "failed"}, fee \in Nat : Emit(type, id, fee)
    BY <1>8, PaymentsConstants DEF NodeSettles, NodeGivesUp, NodePays
  <2> DEFINE e == [type |-> type, id |-> id, fee |-> fee]
  <2>2. e \in Event /\ e.type # "received"
    BY DEF Event
  <2>3. events' = Append(events, e) /\ UNCHANGED <<send, receive, balanceFeed, handler>>
    BY <1>8, <2>1 DEF Emit, NodeSettles, NodeGivesUp, NodePays, tables, feed
  <2> QED
    BY <1>7, <2>2, <2>3
<1>9. ASSUME NEW id \in Ids, NodeReceives(id) PROVE Quiet /\ QueueMoves
  <2>1. PICK x \in Ids : /\ Emit("received", x, 0) /\ claimed[x] = NULL
                         /\ invoice[x] # NULL \/ x > minted
    <3>1. CASE \E a \in ReceiveAmounts : NodeReceivesInvoice(id, a)
      BY <3>1 DEF NodeReceivesInvoice
    <3>2. CASE \E a \in ReceiveAmounts : NodeReceivesOffer(id, a)
      BY <1>0, <3>2, FreshNew DEF NodeReceivesOffer
    <3> QED
      BY <1>9, <3>1, <3>2 DEF NodeReceives
  <2> DEFINE e == [type |-> "received", id |-> x, fee |-> 0]
  <2>2. e \in Event /\ e.id = x
    BY DEF Event, SendIds
  <2>3. events' = Append(events, e) /\ UNCHANGED <<send, receive, balanceFeed, handler>>
    BY <1>9, <2>1 DEF Emit, NodeReceives, NodeReceivesInvoice, NodeReceivesOffer, tables, feed
  <2>4. into_payment(x) = NULL
    BY <2>1, UnclaimedUnseen
  <2> QED
    BY <1>7, <2>1, <2>2, <2>3, <2>4
<1> QED
  BY <1>u, <1>2, <1>3, <1>4, <1>5, <1>6, <1>8, <1>9, Zenon DEF Unpublished

-----------------------------------------------------------------------------
(* Types.                                                                  *)

(* A published balance is an integer.                                      *)
LEMMA BalanceFeedType ==
  ASSUME Ledger, TypeOK', [Next]_vars, balanceFeed[Watcher] \in Int
  PROVE  balanceFeed'[Watcher] \in Int
<1>0. TypeOK /\ Base
  BY DEF Ledger, Base
<1>1. user_balance(Watcher) \in Int
  BY <1>0, BalanceType
<1>2. user_balance(Watcher)' \in Int
  <2>1. TypeOK' => (user_balance(Watcher) \in Int)'
    BY BalanceType, PTL
  <2> QED
    BY <2>1
<1>3. ASSUME NEW S, PublishBalances(S) PROVE balanceFeed'[Watcher] \in Int
  BY <1>2, <1>3, FeedConstants DEF PublishBalances
<1>4. LedgerStep
  BY <1>0, StepCases
<1>5. ASSUME \E u, v \in Users, amount \in Int, fee \in Nat : TransferStep(u, v, amount, fee)
      PROVE  balanceFeed'[Watcher] \in Int
  BY <1>3, <1>5 DEF TransferStep, create_internal_transfer
<1>6. ASSUME create_send_payment \/ payment_received \/ update_send_fee
      PROVE  balanceFeed'[Watcher] \in Int
  BY <1>3, <1>6 DEF create_send_payment, payment_received, update_send_fee
<1>7. ASSUME Crash PROVE balanceFeed'[Watcher] \in Int
  BY <1>1, <1>7, FeedConstants DEF Crash
<1>8. ASSUME NEW id \in SendIds, NEW u \in Users, NEW amount \in Nat, NEW fee \in Nat,
             NEW paid \in Nat, NEW rowStatus, NEW outStatus,
             AcceptStep(id, u, amount, fee, rowStatus, outStatus, paid)
      PROVE  UNCHANGED balanceFeed
  BY <1>8 DEF AcceptStep, NodeAccepts, feed
<1>9. ASSUME RequestStep \/ HandlerPanics \/ update_send_status \/ payment_not_found
             \/ event_handled
      PROVE  UNCHANGED balanceFeed
  BY <1>9 DEF RequestStep, HandlerPanics, update_send_status, payment_not_found,
              event_handled, feed
<1>10. ASSUME \/ \E id \in SendIds, e \in Event : SettleStep(id, e)
              \/ \E id \in Ids, e \in Event, off \in Ids, a \in ReceiveAmounts :
                   ReceiptStep(id, e, off, a)
       PROVE  UNCHANGED balanceFeed
  BY <1>10 DEF SettleStep, ReceiptStep
<1>11. UNCHANGED balanceFeed => balanceFeed'[Watcher] \in Int
  OBVIOUS
<1> QED
  BY <1>4, <1>5, <1>6, <1>7, <1>8, <1>9, <1>10, <1>11, Zenon DEF LedgerStep

(* What a connection that is up is sent.                                   *)
LEMMA Sent ==
  ASSUME inbox \in Seq(AppEvent), NEW a \in AppEvent, NEW b \in AppEvent,
         conn # "down", SendEvents(<<a, b>>)
  PROVE  /\ inbox' \in Seq(AppEvent) /\ Len(inbox) \in Nat
         /\ Len(inbox') = Len(inbox) + 2
         /\ \A i \in 1..Len(inbox) : inbox'[i] = inbox[i]
         /\ inbox'[Len(inbox) + 1] = a /\ inbox'[Len(inbox) + 2] = b
<1>1. <<a, b>> \in Seq(AppEvent) /\ Len(<<a, b>>) = 2
  OBVIOUS
<1>2. inbox' = inbox \o <<a, b>>
  BY DEF SendEvents
<1>3. Len(inbox) \in Nat
  BY LenProperties
<1>4. /\ inbox' \in Seq(AppEvent) /\ Len(inbox') = Len(inbox) + 2
      /\ \A i \in 1..(Len(inbox) + 2) :
           inbox'[i] = IF i <= Len(inbox) THEN inbox[i] ELSE <<a, b>>[i - Len(inbox)]
  BY <1>1, <1>2, ConcatProperties
<1>5. /\ Len(inbox) + 1 \in 1..(Len(inbox) + 2) /\ Len(inbox) + 2 \in 1..(Len(inbox) + 2)
      /\ ~(Len(inbox) + 1 <= Len(inbox)) /\ ~(Len(inbox) + 2 <= Len(inbox))
      /\ (Len(inbox) + 1) - Len(inbox) = 1 /\ (Len(inbox) + 2) - Len(inbox) = 2
      /\ \A i \in 1..Len(inbox) : i \in 1..(Len(inbox) + 2) /\ i <= Len(inbox)
  BY <1>3
<1> QED
  BY <1>3, <1>4, <1>5

(* The three constructors make AppEvents.                                  *)
LEMMA AppEvents ==
  /\ \A a \in Int : BalanceEvent(a) \in AppEvent
  /\ \A id \in SendIds, p \in Payment, live \in BOOLEAN :
       PaymentEvent(id, p, live) \in AppEvent
  /\ \A id \in SendIds, p \in Payment : UpdateEvent(id, p.status, p.fee) \in AppEvent
BY DEF AppEvent, BalanceEvent, PaymentEvent, UpdateEvent, Payment

(* What the two steps that send events send.                               *)
LEMMA AnnouncedEvents ==
  ASSUME FeedTypeOK, TypeOK', balanceFeed'[Watcher] \in Int,
         NEW id \in SendIds, Announce(id)
  PROVE  \/ /\ into_payment(id)' = NULL /\ UNCHANGED <<inbox, announced>>
         \/ /\ into_payment(id)' \in Payment
            /\ BalanceEvent(balanceFeed'[Watcher]) \in AppEvent
            /\ PaymentEvent(id, into_payment(id)', TRUE) \in AppEvent
            /\ SendEvents(<<BalanceEvent(balanceFeed'[Watcher]),
                            PaymentEvent(id, into_payment(id)', TRUE)>>)
            /\ announced' = IF conn = "down" THEN announced
                            ELSE [announced EXCEPT ![id] = @ + 1]
<1>1. into_payment(id)' \in Payment \cup {NULL}
  <2>1. TypeOK' => SeenTyped'
    BY PaymentType, PTL
  <2> QED
    BY <2>1 DEF SeenTyped
<1> QED
  BY <1>1, AppEvents, NullIsNoPayment DEF Announce

(* The end of a sorted list that goes into the snapshot.                   *)
CutAt(n) == IF n > SnapshotLimit THEN n - SnapshotLimit + 1 ELSE 1

(* split_off keeps the end of the list, from CutAt on.                     *)
LEMMA SplitOff ==
  ASSUME NEW n \in Nat, NEW S, NEW q \in [1..n -> S]
  PROVE  /\ CutAt(n) \in 1..(n + 1)
         /\ split_off(q) \in Seq(S) /\ Len(split_off(q)) = n - CutAt(n) + 1
         /\ \A i \in 1..(n - CutAt(n) + 1) : split_off(q)[i] = q[CutAt(n) + i - 1]
<1>0. SnapshotLimit \in Nat
  BY FeedConstants
<1>1. q \in Seq(S) /\ Len(q) = n
  OBVIOUS
<1>2. split_off(q) = SubSeq(q, CutAt(n), n)
  BY <1>1 DEF split_off, CutAt
<1>3. CutAt(n) \in 1..(n + 1) /\ CutAt(n) \in Int /\ n \in Int
  BY <1>0 DEF CutAt
<1>4. \A i \in CutAt(n)..n : q[i] \in S
  BY <1>3
<1>5. /\ SubSeq(q, CutAt(n), n) \in Seq(S)
      /\ Len(SubSeq(q, CutAt(n), n)) = IF CutAt(n) <= n THEN n - CutAt(n) + 1 ELSE 0
      /\ \A i \in 1..(n - CutAt(n) + 1) :
           SubSeq(q, CutAt(n), n)[i] = q[CutAt(n) + i - 1]
  BY <1>3, <1>4, SubSeqProperties
<1>6. CutAt(n) <= n \/ n - CutAt(n) + 1 = 0
  BY <1>3
<1> QED
  BY <1>2, <1>3, <1>5, <1>6

(* The watcher's payments are finitely many, those of each table too.      *)
LEMMA ListedFinite ==
  /\ Listed \subseteq SendIds /\ IsFiniteSet(Listed)
  /\ \A kind : Table(kind) \subseteq Listed /\ IsFiniteSet(Table(kind))
<1>1. Listed \subseteq SendIds
  BY DEF Listed
<1>2. IsFiniteSet(Listed)
  BY <1>1, IdsFinite, FS_Subset
<1>3. \A kind : Table(kind) \subseteq Listed
  BY DEF Table
<1> QED
  BY <1>1, <1>2, <1>3, FS_Subset

(* The sorted list a snapshot is cut from has each of its rows once.       *)
LEMMA SortedRows ==
  ASSUME NEW r \in Newest(Table("receive"), SnapshotLimit),
         NEW s \in Newest(Table("send"), SnapshotLimit)
  PROVE  /\ r \cup s \subseteq Listed /\ IsFiniteSet(r \cup s)
         /\ Cardinality(r \cup s) \in Nat
         /\ \A q \in SortedSeqs(r \cup s) : q \in [1..Cardinality(r \cup s) -> r \cup s]
<1>1. r \subseteq Table("receive") /\ s \subseteq Table("send")
  BY DEF Newest
<1>2. r \cup s \subseteq Listed
  BY <1>1, ListedFinite
<1>3. IsFiniteSet(r \cup s) /\ Cardinality(r \cup s) \in Nat
  BY <1>2, ListedFinite, FS_Subset, FS_CardinalityType
<1> QED
  BY <1>2, <1>3 DEF SortedSeqs

(* A snapshot lists payments of the watcher.                               *)
LEMMA PaymentsListed ==
  ASSUME NEW q \in user_payments PROVE q \in Seq(Listed)
<1>1. PICK r \in Newest(Table("receive"), SnapshotLimit),
           s \in Newest(Table("send"), SnapshotLimit) :
        \E p \in SortedSeqs(r \cup s) : q = split_off(p)
  BY DEF user_payments
<1>2. PICK p \in SortedSeqs(r \cup s) : q = split_off(p)
  BY <1>1
<1>3. /\ r \cup s \subseteq Listed /\ Cardinality(r \cup s) \in Nat
      /\ p \in [1..Cardinality(r \cup s) -> r \cup s]
  BY <1>2, SortedRows
<1>4. q \in Seq(r \cup s)
  BY <1>2, <1>3, SplitOff
<1> QED
  BY <1>3, <1>4, SeqMonotonic

(* A snapshot: the balance, then payments as they are stored.              *)
LEMMA SnapshotShape ==
  ASSUME TypeOK, NEW q \in Seq(Listed)
  PROVE  /\ Snapshot(q) \in Seq(AppEvent) /\ Len(q) \in Nat
         /\ Len(Snapshot(q)) = Len(q) + 1
         /\ Snapshot(q)[1] = BalanceEvent(user_balance(Watcher))
         /\ \A i \in 1..Len(q) :
              /\ q[i] \in SendIds /\ into_payment(q[i]) # NULL
              /\ Snapshot(q)[i + 1] = PaymentEvent(q[i], into_payment(q[i]), FALSE)
<1> DEFINE head == <<BalanceEvent(user_balance(Watcher))>>
           rows == [i \in DOMAIN q |-> PaymentEvent(q[i], into_payment(q[i]), FALSE)]
<1>1. Len(q) \in Nat /\ DOMAIN q = 1..Len(q)
  BY LenProperties
<1>2. \A i \in 1..Len(q) : q[i] \in SendIds /\ into_payment(q[i]) # NULL
  BY ElementOfSeq DEF Listed
<1>3. \A i \in 1..Len(q) : PaymentEvent(q[i], into_payment(q[i]), FALSE) \in AppEvent
  BY <1>2, PaymentType, AppEvents DEF SeenTyped
<1>4. rows \in Seq(AppEvent) /\ Len(rows) = Len(q)
      /\ \A i \in 1..Len(q) : rows[i] = PaymentEvent(q[i], into_payment(q[i]), FALSE)
  <2>1. rows = [i \in 1..Len(q) |-> PaymentEvent(q[i], into_payment(q[i]), FALSE)]
    BY <1>1, Zenon
  <2>2. rows \in [1..Len(q) -> AppEvent]
    BY <1>3, <2>1, Zenon
  <2>3. rows \in Seq(AppEvent) /\ Len(rows) = Len(q)
    <3> HIDE DEF rows
    <3> QED
      BY <1>1, <2>2
  <2>4. \A i \in 1..Len(q) : rows[i] = PaymentEvent(q[i], into_payment(q[i]), FALSE)
    BY <2>1, Zenon
  <2> QED
    BY <2>3, <2>4, Zenon
<1>5. head \in Seq(AppEvent) /\ Len(head) = 1 /\ head[1] = BalanceEvent(user_balance(Watcher))
  BY BalanceType, AppEvents
<1>6. Snapshot(q) = head \o rows
  BY DEF Snapshot
<1> HIDE DEF head, rows
<1>7. /\ Snapshot(q) \in Seq(AppEvent) /\ Len(Snapshot(q)) = 1 + Len(q)
      /\ \A i \in 1..(1 + Len(q)) :
           Snapshot(q)[i] = IF i <= 1 THEN head[i] ELSE rows[i - 1]
  <2>1. /\ head \o rows \in Seq(AppEvent)
        /\ Len(head \o rows) = Len(head) + Len(rows)
        /\ \A i \in 1..(Len(head) + Len(rows)) :
             (head \o rows)[i] = IF i <= Len(head) THEN head[i] ELSE rows[i - Len(head)]
    <3>1. head \in Seq(AppEvent) /\ rows \in Seq(AppEvent)
      BY <1>4, <1>5
    <3> QED
      BY <3>1, ConcatProperties, Zenon
  <2>2. Len(head) = 1 /\ Len(rows) = Len(q)
    BY <1>4, <1>5
  <2> QED
    BY <1>6, <2>1, <2>2
<1>8. /\ 1 \in 1..(1 + Len(q))
      /\ \A i \in 1..Len(q) : i + 1 \in 1..(1 + Len(q)) /\ ~(i + 1 <= 1) /\ (i + 1) - 1 = i
  BY <1>1
<1>9. Snapshot(q)[1] = BalanceEvent(user_balance(Watcher))
  BY <1>5, <1>7, <1>8
<1>10. \A i \in 1..Len(q) :
         Snapshot(q)[i + 1] = PaymentEvent(q[i], into_payment(q[i]), FALSE)
  BY <1>4, <1>7, <1>8
<1>11. Len(Snapshot(q)) = Len(q) + 1
  BY <1>1, <1>7
<1> QED
  BY <1>1, <1>2, <1>7, <1>9, <1>10, <1>11, Zenon

-----------------------------------------------------------------------------
(* The steps, as the proofs tell them apart.                               *)

Rests == QuietSession /\ UNCHANGED <<clock, created, announced>>

FeedMoves ==
  \/ \E id \in SendIds : Appears(id) /\ Announce(id)
  \/ \E id \in SendIds : Settles(id) /\ Rests
  \/ Quiet /\ QueueMoves /\ Rests /\ UNCHANGED inbox
  \/ DaemonCrashes
  \/ subscribe_to_events \/ take_snapshot \/ ConnectionLost \/ accept_event
  \/ UNCHANGED feedVars

(* Every step is one of the moves.                                         *)
LEMMA FeedCases == Ledger /\ TypeOK' /\ [FeedNext]_feedVars => FeedMoves
<1> SUFFICES ASSUME Ledger, TypeOK', [FeedNext]_feedVars PROVE FeedMoves
  OBVIOUS
<1>1. ASSUME \/ \E u \in Users : TransferAnnounced(u)
             \/ InsertAnnounced \/ ReceiptAnnounced
      PROVE  FeedMoves
  <2>1. \E id \in SendIds : Appears(id) /\ Announce(id)
    BY <1>1, AnnouncedSteps, Zenon
  <2> QED
    BY <2>1, Zenon DEF FeedMoves
<1>2. ASSUME OutcomeAnnounced PROVE FeedMoves
  <2>1. \E id \in SendIds : Settles(id)
    BY <1>2, OutcomeSettles
  <2>2. Rests
    BY <1>2, Zenon DEF OutcomeAnnounced, Rests
  <2> QED
    BY <2>1, <2>2, Zenon DEF FeedMoves
<1>3. ASSUME Unpublished PROVE FeedMoves
  <2>1. Quiet /\ QueueMoves /\ Unannounced
    BY <1>3, UnpublishedSteps
  <2>2. Rests /\ UNCHANGED inbox
    BY <2>1 DEF Unannounced, Rests
  <2> QED
    BY <2>1, <2>2, Zenon DEF FeedMoves
<1> QED
  BY <1>1, <1>2, <1>3, Zenon DEF FeedNext, FeedMoves

(* The two cases of accepting an event: the rest of the queue is left.     *)
LEMMA RestOfInbox ==
  ASSUME inbox \in Seq(AppEvent), inbox # <<>>
  PROVE  /\ Head(inbox) = inbox[1] /\ inbox[1] \in AppEvent /\ 1 \in 1..Len(inbox)
         /\ Tail(inbox) \in Seq(AppEvent) /\ Len(Tail(inbox)) = Len(inbox) - 1
         /\ Len(inbox) \in Nat
         /\ \A i \in 1..Len(Tail(inbox)) :
              Tail(inbox)[i] = inbox[i + 1] /\ i + 1 \in 1..Len(inbox)
OBVIOUS

(* The fields an AppEvent has by its type.                                 *)
LEMMA EventTyped ==
  ASSUME NEW e \in AppEvent
  PROVE  /\ e.type \in {"balance", "payment", "update"}
         /\ e.type = "balance" => e.amount \in Int
         /\ e.type = "payment" => e.id \in SendIds /\ e.payment \in Payment
         /\ e.type = "update" => e.id \in SendIds /\ e.fee \in Nat
                                   /\ e.status \in {"pending", "successful", "failed"}
BY DEF AppEvent

(* A payment is determined by its four fields.                             *)
LEMMA SamePayment ==
  ASSUME NEW p \in Payment, NEW r \in Payment, p.kind = r.kind, p.amount = r.amount,
         p.status = r.status, p.fee = r.fee
  PROVE  p = r
BY DEF Payment

(* What the application makes of an event.                                 *)
LEMMA AppliedView ==
  ASSUME view \in [SendIds -> Payment \cup {NULL}], NEW e \in AppEvent
  PROVE  /\ Applied(e) \in [SendIds -> Payment \cup {NULL}]
         /\ \A id \in SendIds : ~About(e, id) => Applied(e)[id] = view[id]
         /\ e.type = "payment" => Applied(e)[e.id] = e.payment
         /\ e.type = "update" =>
              /\ view[e.id] = NULL => Applied(e)[e.id] = NULL
              /\ view[e.id] # NULL =>
                   /\ Applied(e)[e.id] \in Payment
                   /\ Applied(e)[e.id].kind = view[e.id].kind
                   /\ Applied(e)[e.id].amount = view[e.id].amount
                   /\ Applied(e)[e.id].status = e.status /\ Applied(e)[e.id].fee = e.fee
<1>1. CASE e.type = "payment"
  <2>1. Applied(e) = [view EXCEPT ![e.id] = e.payment]
    BY <1>1, Zenon DEF Applied
  <2>2. e.id \in SendIds /\ e.payment \in Payment
    BY <1>1, EventTyped
  <2> QED
    BY <1>1, <2>1, <2>2 DEF About
<1>2. CASE e.type = "update" /\ view[e.id] # NULL
  <2>0. e.id \in SendIds /\ e.fee \in Nat /\ e.status \in {"pending", "successful", "failed"}
    BY <1>2, EventTyped
  <2>1. Applied(e) = [view EXCEPT ![e.id].status = e.status, ![e.id].fee = e.fee]
    BY <1>2 DEF Applied
  <2>2. view[e.id] \in Payment
    BY <1>2, <2>0
  <2> DEFINE p == [view[e.id] EXCEPT !.status = e.status, !.fee = e.fee]
  <2>3. /\ p \in Payment /\ p.kind = view[e.id].kind /\ p.amount = view[e.id].amount
        /\ p.status = e.status /\ p.fee = e.fee
    BY <2>0, <2>2 DEF Payment
  <2>4. Applied(e) = [view EXCEPT ![e.id] = p]
    <3>1. e.id \in DOMAIN view
      BY <2>0
    <3> QED
      BY <2>1, <2>2, <3>1 DEF Payment
  <2> HIDE DEF p
  <2>5. /\ Applied(e) \in [SendIds -> Payment \cup {NULL}]
        /\ \A id \in SendIds : id # e.id => Applied(e)[id] = view[id]
        /\ Applied(e)[e.id] = p
    BY <2>0, <2>3, <2>4
  <2> QED
    BY <1>2, <2>3, <2>5 DEF About
<1>3. CASE e.type # "payment" /\ ~(e.type = "update" /\ view[e.id] # NULL)
  <2>1. Applied(e) = view
    BY <1>3 DEF Applied
  <2> QED
    BY <1>3, <2>1
<1> QED
  BY <1>1, <1>2, <1>3

(* A stamp is a time.                                                      *)
LEMMA StampType ==
  ASSUME NEW id \in SendIds, clock \in Nat, created \in [SendIds -> Nat], Stamp(id)
  PROVE  clock' \in Nat /\ created' \in [SendIds -> Nat]
BY DEF Stamp

(* A connection that is up is sent the two events, another is sent none.   *)
LEMMA SentType ==
  ASSUME FeedTypeOK, NEW a \in AppEvent, NEW b \in AppEvent, SendEvents(<<a, b>>)
  PROVE  /\ inbox' \in Seq(AppEvent)
         /\ conn = "down" => inbox' = <<>>
<1>1. CASE conn = "down"
  BY <1>1 DEF SendEvents, FeedTypeOK
<1>2. CASE conn # "down"
  BY <1>2, Sent DEF FeedTypeOK
<1> QED
  BY <1>1, <1>2

(* The types hold initially.                                               *)
LEMMA FeedTypeInit == FeedInit => FeedTypeOK
<1> SUFFICES ASSUME FeedInit PROVE FeedTypeOK
  OBVIOUS
<1>1. balanceFeed[Watcher] = 0
  BY FeedConstants DEF FeedInit, Init
<1>2. inbox \in Seq(AppEvent)
  BY DEF FeedInit
<1> QED
  BY <1>1, <1>2 DEF FeedInit, FeedTypeOK

(* Every step preserves the types.                                         *)
LEMMA FeedTypeStep ==
  Ledger /\ TypeOK' /\ FeedTypeOK /\ [FeedNext]_feedVars => FeedTypeOK'
<1> SUFFICES ASSUME Ledger, TypeOK', FeedTypeOK, [FeedNext]_feedVars
             PROVE  FeedTypeOK'
  OBVIOUS
<1>0. TypeOK /\ FeedMoves
  BY FeedCases DEF Ledger, Base
<1>1. balanceFeed'[Watcher] \in Int
  <2>1. [Next]_vars
    <3>1. UNCHANGED feedVars => UNCHANGED vars
      BY DEF feedVars
    <3> QED
      BY <3>1, FeedStepIsStep
  <2> QED
    BY <2>1, BalanceFeedType DEF FeedTypeOK
<1>2. ASSUME NEW id \in SendIds, Announce(id) PROVE FeedTypeOK'
  <2>1. clock' \in Nat /\ created' \in [SendIds -> Nat]
    BY <1>2, StampType DEF Announce, FeedTypeOK
  <2>2. UNCHANGED <<conn, view>>
    BY <1>2 DEF Announce, QuietSession
  <2>3. /\ inbox' \in Seq(AppEvent) /\ (conn = "down" => inbox' = <<>>)
        /\ announced' \in [SendIds -> Nat]
    <3>1. CASE UNCHANGED <<inbox, announced>>
      BY <3>1 DEF FeedTypeOK
    <3>2. CASE /\ BalanceEvent(balanceFeed'[Watcher]) \in AppEvent
               /\ PaymentEvent(id, into_payment(id)', TRUE) \in AppEvent
               /\ SendEvents(<<BalanceEvent(balanceFeed'[Watcher]),
                               PaymentEvent(id, into_payment(id)', TRUE)>>)
               /\ announced' = IF conn = "down" THEN announced
                               ELSE [announced EXCEPT ![id] = @ + 1]
      <4>1. inbox' \in Seq(AppEvent) /\ (conn = "down" => inbox' = <<>>)
        BY <3>2, SentType
      <4>2. announced' \in [SendIds -> Nat]
        BY <3>2 DEF FeedTypeOK
      <4> QED
        BY <4>1, <4>2
    <3> QED
      BY <1>1, <1>2, <3>1, <3>2, AnnouncedEvents, Zenon
  <2> QED
    BY <1>1, <2>1, <2>2, <2>3 DEF FeedTypeOK
<1>3. ASSUME NEW id \in SendIds, Settles(id), Rests PROVE FeedTypeOK'
  <2>1. UNCHANGED <<clock, created, conn, view, announced>>
    BY <1>3 DEF Rests, QuietSession
  <2>2. inbox' \in Seq(AppEvent) /\ (conn = "down" => inbox' = <<>>)
    <3>1. CASE UNCHANGED inbox
      BY <3>1 DEF FeedTypeOK
    <3>2. CASE /\ into_payment(id) # NULL
               /\ SendEvents(<<BalanceEvent(balanceFeed[Watcher]'),
                               UpdateEvent(id, into_payment(id)'.status,
                                           into_payment(id)'.fee)>>)
      <4>1. into_payment(id)' \in Payment
        <5>1. TypeOK' => SeenTyped'
          BY PaymentType, PTL
        <5> QED
          BY <1>3, <3>2, <5>1 DEF SeenTyped, Settles, Kept
      <4>2. /\ BalanceEvent(balanceFeed[Watcher]') \in AppEvent
            /\ UpdateEvent(id, into_payment(id)'.status, into_payment(id)'.fee) \in AppEvent
        BY <1>1, <4>1, AppEvents
      <4> QED
        BY <3>2, <4>2, SentType
    <3> QED
      BY <1>3, <3>1, <3>2, Zenon DEF Settles
  <2> QED
    BY <1>1, <2>1, <2>2 DEF FeedTypeOK
<1>4. ASSUME Rests, UNCHANGED inbox PROVE FeedTypeOK'
  BY <1>1, <1>4 DEF Rests, QuietSession, FeedTypeOK
<1>5. ASSUME DaemonCrashes \/ ConnectionLost PROVE FeedTypeOK'
  <2>1. /\ UNCHANGED <<clock, created, view>> /\ conn' = "down" /\ inbox' = <<>>
        /\ announced' = [id \in SendIds |-> 0]
    BY <1>5 DEF DaemonCrashes, ConnectionLost, Disconnected
  <2>2. <<>> \in Seq(AppEvent)
    OBVIOUS
  <2> QED
    BY <1>1, <2>1, <2>2 DEF FeedTypeOK
<1>6. ASSUME subscribe_to_events PROVE FeedTypeOK'
  BY <1>1, <1>6 DEF subscribe_to_events, FeedTypeOK
<1>7. ASSUME take_snapshot PROVE FeedTypeOK'
  <2>1. PICK q \in user_payments : inbox' = ChainAfter(Snapshot(q), inbox)
    BY <1>7 DEF take_snapshot
  <2>2. Snapshot(q) \in Seq(AppEvent)
    BY <1>0, <2>1, PaymentsListed, SnapshotShape
  <2>3. inbox' \in Seq(AppEvent)
    BY <2>1, <2>2, ConcatProperties DEF ChainAfter, FeedTypeOK
  <2>4. UNCHANGED <<clock, created, view, announced>> /\ conn' = "live"
    BY <1>7 DEF take_snapshot
  <2> QED
    BY <1>1, <2>3, <2>4 DEF FeedTypeOK
<1>8. ASSUME accept_event PROVE FeedTypeOK'
  <2>1. /\ inbox # <<>> /\ inbox' = Tail(inbox) /\ view' = Applied(Head(inbox))
        /\ conn = "live" /\ UNCHANGED <<clock, created, conn, announced>>
    BY <1>8 DEF accept_event
  <2>2. Head(inbox) \in AppEvent /\ inbox' \in Seq(AppEvent)
    BY <2>1, RestOfInbox DEF FeedTypeOK
  <2>3. view' \in [SendIds -> Payment \cup {NULL}]
    BY <2>1, <2>2, AppliedView DEF FeedTypeOK
  <2> QED
    BY <1>1, <2>1, <2>2, <2>3 DEF FeedTypeOK
<1>9. ASSUME UNCHANGED feedVars PROVE FeedTypeOK'
  BY <1>9 DEF feedVars, vars, session, FeedTypeOK
<1> QED
  BY <1>0, <1>2, <1>3, <1>4, <1>5, <1>6, <1>7, <1>8, <1>9, Zenon DEF FeedMoves

-----------------------------------------------------------------------------
(* A payment is announced once.                                            *)

Announced == Announcements /\ ReceiptsDistinct

(* The node queues no second receipt of a payment: it had none claimed.    *)
LEMMA DistinctMoves ==
  ASSUME Ledger, ReceiptsDistinct, UNCHANGED events \/ QueueMoves
  PROVE  ReceiptsDistinct'
<1>0. events \in Seq(Event) /\ Len(events) \in Nat
  BY LenProperties DEF Ledger, Base, TypeOK
<1>1. CASE UNCHANGED events
  BY <1>1 DEF ReceiptsDistinct
<1>2. ASSUME NEW e \in Event, events' = Append(events, e),
             e.type = "received" => e.id \in Ids /\ claimed[e.id] = NULL
      PROVE  ReceiptsDistinct'
  <2>1. /\ Len(events') = Len(events) + 1 /\ events'[Len(events) + 1] = e
        /\ \A i \in 1..Len(events) : events'[i] = events[i]
    BY <1>0, <1>2, QueueAppend
  <2>2. \A i \in 1..Len(events') : i \in 1..Len(events) \/ i = Len(events) + 1
    BY <1>0, <2>1
  <2>3. ASSUME NEW i \in 1..Len(events), events[i].type = "received", e.type = "received"
        PROVE  events[i].id # e.id
    BY <1>2, <2>3 DEF Ledger, Base, ReceiptsQueued
  <2> QED
    BY <2>1, <2>2, <2>3 DEF ReceiptsDistinct
<1>3. ASSUME events # <<>>, events' = Tail(events) PROVE ReceiptsDistinct'
  <2>1. /\ Len(events') = Len(events) - 1
        /\ \A i \in 1..Len(events') : events'[i] = events[i + 1] /\ i + 1 \in 1..Len(events)
    BY <1>0, <1>3, QueueTail
  <2>2. ASSUME NEW i \in 1..Len(events'), NEW j \in 1..Len(events'), i + 1 = j + 1
        PROVE  i = j
    BY <2>2
  <2> QED
    BY <2>1, <2>2, ZenonT(30) DEF ReceiptsDistinct
<1> QED
  BY <1>1, <1>2, <1>3 DEF QueueMoves

(* No receipt that is due was announced, whatever the step made due.       *)
NoneDue == \A i \in 1..Len(events') : ReceiptDue(i)' => announced'[events'[i].id] = 0

(* Announcements is kept by steps that announce nothing and keep the       *)
(* payments.                                                               *)
LEMMA AnnouncementsKept ==
  ASSUME Announcements, UNCHANGED announced, \A j \in SendIds : Kept(j), NoneDue
  PROVE  Announcements'
BY DEF Announcements, Kept, NoneDue

(* A move of the queue makes no receipt due that was announced: the one    *)
(* the node queues belongs to a payment nobody sees yet.                   *)
LEMMA MovesDue ==
  ASSUME Ledger, Announcements, UNCHANGED announced, QueueMoves
  PROVE  NoneDue
<1>0. events \in Seq(Event) /\ Len(events) \in Nat
  BY LenProperties DEF Ledger, Base, TypeOK
<1>1. CASE UNCHANGED events
  BY <1>0, <1>1 DEF QueueMoves, NoneDue, Announcements, ReceiptDue
<1>2. ASSUME NEW e \in Event, events' = Append(events, e), UNCHANGED handler,
             e.type = "received" => e.id \in Ids /\ into_payment(e.id) = NULL
      PROVE  NoneDue
  <2>1. /\ Len(events') = Len(events) + 1 /\ events'[Len(events) + 1] = e
        /\ \A i \in 1..Len(events) : events'[i] = events[i]
    BY <1>0, <1>2, QueueAppend
  <2>2. \A i \in 1..Len(events') : i \in 1..Len(events) \/ i = Len(events) + 1
    BY <1>0, <2>1
  <2>3. e.type = "received" => announced[e.id] = 0
    BY <1>2 DEF Announcements, SendIds
  <2>4. ASSUME NEW i \in 1..Len(events), ReceiptDue(i)'
        PROVE  announced'[events'[i].id] = 0
    <3>1. ReceiptDue(i) /\ events'[i] = events[i]
      BY <1>2, <2>1, <2>4 DEF ReceiptDue
    <3> QED
      BY <3>1 DEF Announcements
  <2>5. ASSUME NEW i \in 1..Len(events'), i = Len(events) + 1, ReceiptDue(i)'
        PROVE  announced'[events'[i].id] = 0
    BY <2>1, <2>3, <2>5 DEF ReceiptDue
  <2> QED
    BY <2>2, <2>4, <2>5 DEF NoneDue
<1>3. ASSUME events # <<>>, events' = Tail(events), handler' = "idle" PROVE NoneDue
  <2>1. \A i \in 1..Len(events') : events'[i] = events[i + 1] /\ i + 1 \in 1..Len(events)
    BY <1>0, <1>3, QueueTail
  <2>2. ASSUME NEW i \in 1..Len(events'), ReceiptDue(i)'
        PROVE  announced'[events'[i].id] = 0
    <3>1. ReceiptDue(i + 1)
      BY <2>1, <2>2 DEF ReceiptDue
    <3> QED
      BY <2>1, <3>1 DEF Announcements
  <2> QED
    BY <2>2 DEF NoneDue
<1> QED
  BY <1>1, <1>2, <1>3 DEF QueueMoves

(* An announcement is the first of its payment on this connection, and the *)
(* receipt it came from, if any, is no longer due.                         *)
LEMMA AppearsOnce ==
  ASSUME Ledger, TypeOK', FeedTypeOK, FeedTypeOK', Announced, NEW id \in SendIds,
         Appears(id), Announce(id)
  PROVE  Announcements'
<1>0. Announcements /\ ReceiptsDistinct /\ UNCHANGED events
  BY DEF Announced, Appears
<1>1. announced[id] = 0 \/ into_payment(id)' = NULL
  BY DEF Appears, Announced, Announcements, ReceiptDue
<1>2. \A j \in SendIds : into_payment(j) # NULL => into_payment(j)' = into_payment(j)
  BY DEF Appears
<1>3. CASE UNCHANGED announced
  <2>1. NoneDue
    BY <1>0, <1>3 DEF Appears, NoneDue, Announcements, ReceiptDue
  <2> QED
    BY <1>0, <1>2, <1>3, <2>1 DEF Announcements, NoneDue
<1>4. CASE announced' = [announced EXCEPT ![id] = @ + 1] /\ into_payment(id)' # NULL
  <2>1. /\ announced'[id] = 1
        /\ \A j \in SendIds : j # id => announced'[j] = announced[j]
    BY <1>1, <1>4 DEF FeedTypeOK
  <2>2. \A j \in SendIds : announced'[j] # 0 => announced'[j] = 1 /\ into_payment(j)' # NULL
    BY <1>0, <1>2, <1>4, <2>1 DEF Announcements
  <2>3. ASSUME NEW i \in 1..Len(events), ReceiptDue(i)'
        PROVE  announced'[events[i].id] = 0
    <3>1. ReceiptDue(i) /\ events[i].id # id
      <4>1. CASE \A k \in 1..Len(events) : events[k].type = "received" => events[k].id # id
        BY <1>0, <2>3, <4>1 DEF Appears, ReceiptDue
      <4>2. CASE /\ handler = "idle" /\ handler' = "applied"
                 /\ events # <<>> /\ events[1].type = "received" /\ events[1].id = id
        <5>1. i # 1 /\ events[i].type = "received"
          BY <1>0, <2>3, <4>2 DEF ReceiptDue
        <5>2. 1 \in 1..Len(events)
          BY <4>2, QueueTail DEF Ledger, Base, TypeOK
        <5> QED
          BY <1>0, <4>2, <5>1, <5>2 DEF ReceiptDue, ReceiptsDistinct
      <4> QED
        BY <4>1, <4>2, Zenon DEF Appears
    <3>2. events[i].id \in SendIds
      BY QueueType DEF Ledger, Base
    <3> QED
      BY <1>0, <2>1, <3>1, <3>2 DEF Announcements
  <2> QED
    BY <1>0, <2>2, <2>3 DEF Announcements
<1>5. \/ UNCHANGED announced
      \/ announced' = [announced EXCEPT ![id] = @ + 1] /\ into_payment(id)' # NULL
  <2>1. CASE into_payment(id)' = NULL
    <3>1. UNCHANGED <<inbox, announced>>
      BY <2>1, Zenon DEF Announce
    <3>2. announced' = announced
      BY <3>1
    <3> QED
      BY <3>2, Zenon
  <2>2. CASE into_payment(id)' # NULL
    <3>1. announced' = IF conn = "down" THEN announced
                       ELSE [announced EXCEPT ![id] = @ + 1]
      BY <2>2, Zenon DEF Announce
    <3> QED
      BY <2>2, <3>1
  <2> QED
    BY <2>1, <2>2
<1> QED
  BY <1>3, <1>4, <1>5

(* Every step preserves Announced.                                         *)
LEMMA AnnouncedStep ==
  Ledger /\ TypeOK' /\ FeedTypeOK /\ Announced /\ [FeedNext]_feedVars => Announced'
<1> SUFFICES ASSUME Ledger, TypeOK', FeedTypeOK, Announced, [FeedNext]_feedVars
             PROVE  Announced'
  OBVIOUS
<1>0. FeedMoves /\ FeedTypeOK' /\ Announcements /\ ReceiptsDistinct
  BY FeedCases, FeedTypeStep DEF Announced
<1>1. ASSUME NEW id \in SendIds, Appears(id), Announce(id) PROVE Announced'
  <2>1. ReceiptsDistinct'
    BY <1>0, <1>1, DistinctMoves DEF Appears
  <2> QED
    BY <1>0, <1>1, <2>1, AppearsOnce DEF Announced
<1>2. ASSUME NEW id \in SendIds, Settles(id), Rests PROVE Announced'
  <2>1. UNCHANGED <<announced, events>> /\ handler = "fee"
    BY <1>2 DEF Rests, Settles
  <2>2. \A j \in SendIds : Kept(j)
    BY <1>2 DEF Settles, Kept
  <2>3. NoneDue
    BY <1>0, <2>1 DEF NoneDue, Announcements, ReceiptDue
  <2> QED
    BY <1>0, <2>1, <2>2, <2>3, AnnouncementsKept, DistinctMoves DEF Announced
<1>3. ASSUME Quiet, QueueMoves, Rests PROVE Announced'
  <2>1. UNCHANGED announced /\ \A j \in SendIds : Kept(j)
    BY <1>3 DEF Rests, Quiet
  <2> QED
    BY <1>0, <1>3, <2>1, MovesDue, AnnouncementsKept, DistinctMoves DEF Announced
<1>4. ASSUME DaemonCrashes \/ ConnectionLost PROVE Announced'
  <2>1. UNCHANGED events /\ announced' = [id \in SendIds |-> 0]
    <3>1. DaemonCrashes => UNCHANGED events
      BY DEF DaemonCrashes, Crash
    <3>2. ConnectionLost => UNCHANGED events
      BY DEF ConnectionLost, vars
    <3>3. Disconnected
      BY <1>4, Zenon DEF DaemonCrashes, ConnectionLost
    <3> QED
      BY <1>4, <3>1, <3>2, <3>3 DEF Disconnected
  <2>2. \A i \in 1..Len(events) : events[i].id \in SendIds
    BY QueueType DEF Ledger, Base
  <2>3. Announcements'
    BY <2>1, <2>2 DEF Announcements
  <2> QED
    BY <1>0, <2>1, <2>3, DistinctMoves DEF Announced
<1>5. ASSUME UNCHANGED <<send, receive, events, handler, announced>> PROVE Announced'
  <2>1. \A j \in SendIds : Kept(j)
    BY <1>5, SameRows DEF Kept
  <2>2. NoneDue
    BY <1>0, <1>5 DEF NoneDue, Announcements, ReceiptDue
  <2> QED
    BY <1>0, <1>5, <2>1, <2>2, AnnouncementsKept, DistinctMoves DEF Announced
<1>6. subscribe_to_events \/ take_snapshot \/ accept_event \/ UNCHANGED feedVars
        => UNCHANGED <<send, receive, events, handler, announced>>
  BY DEF subscribe_to_events, take_snapshot, accept_event, feedVars, vars, session
<1> QED
  BY <1>0, <1>1, <1>2, <1>3, <1>4, <1>5, <1>6, Zenon DEF FeedMoves

(* The types and Announced are invariants.                                 *)
LEMMA FeedTypeInvariant == FeedSpec => [](FeedTypeOK /\ Announced)
<1>1. FeedInit => Announced
  <2> SUFFICES ASSUME FeedInit PROVE Announced
    OBVIOUS
  <2>1. Len(events) = 0 /\ \A id \in SendIds : announced[id] = 0
    BY DEF FeedInit, Init
  <2> QED
    BY <2>1 DEF Announced, Announcements, ReceiptsDistinct
<1>2. Ledger => TypeOK
  BY DEF Ledger, Base
<1> QED
  BY <1>1, <1>2, FeedTypeInit, FeedTypeStep, AnnouncedStep, LedgerInvariant, PTL DEF FeedSpec

(* No payment is announced as live twice on one connection: not by the     *)
(* event that is delivered again after a crash, nor by the handler that    *)
(* runs when the node settles (main.rs process_ldk_event, client/rpc.rs    *)
(* push_events).                                                           *)
THEOREM AlwaysAnnouncedOnce == FeedSpec => []AnnouncedOnce
<1>1. FeedTypeOK /\ Announced => AnnouncedOnce
  BY DEF Announced, Announcements, AnnouncedOnce
<1> QED
  BY <1>1, FeedTypeInvariant, PTL

-----------------------------------------------------------------------------
(* A snapshot has every recent payment.                                    *)

(* The other payments that are as new or newer.                            *)
Rivals(id) == {d \in Listed \ {id} : created[d] >= created[id]}

(* The rivals are finitely many, and some of them no more than all.        *)
LEMMA RivalsFinite ==
  ASSUME NEW id, NEW T \in SUBSET Rivals(id)
  PROVE  /\ IsFiniteSet(Rivals(id)) /\ Cardinality(Rivals(id)) \in Nat
         /\ IsFiniteSet(T) /\ Cardinality(T) \in Nat
         /\ Cardinality(T) <= Cardinality(Rivals(id))
<1>1. Rivals(id) \in SUBSET Listed
  BY DEF Rivals
<1>2. IsFiniteSet(Rivals(id))
  BY <1>1, ListedFinite, FS_Subset
<1> QED
  BY <1>2, FS_Subset, FS_CardinalityType

(* A recent payment has fewer than SnapshotLimit rivals in any set.        *)
LEMMA FewRivals ==
  ASSUME NEW id, Recent(id), NEW T \in SUBSET Rivals(id)
  PROVE  Cardinality(T) < SnapshotLimit
<1>1. Cardinality(Rivals(id)) < SnapshotLimit
  BY DEF Recent, Rivals
<1>2. SnapshotLimit \in Int
  BY FeedConstants
<1>3. /\ Cardinality(Rivals(id)) \in Nat /\ Cardinality(T) \in Nat
      /\ Cardinality(T) <= Cardinality(Rivals(id))
  BY RivalsFinite
<1> QED
  BY <1>1, <1>2, <1>3

(* The query of its table returns it.                                      *)
LEMMA RecentInTable ==
  ASSUME NEW id, Recent(id), NEW kind, id \in Table(kind),
         NEW T \in Newest(Table(kind), SnapshotLimit)
  PROVE  id \in T
<1> SUFFICES ASSUME id \notin T PROVE FALSE
  OBVIOUS
<1>0. T \subseteq Table(kind) /\ Table(kind) \subseteq Listed /\ IsFiniteSet(Table(kind))
  BY ListedFinite DEF Newest
<1>1. T \in SUBSET Rivals(id)
  BY <1>0 DEF Newest, Rivals
<1>2. Cardinality(T) < SnapshotLimit
  BY <1>1, FewRivals
<1>3. Cardinality(Table(kind)) \in Nat /\ Cardinality(T) \in Nat /\ SnapshotLimit \in Nat
  BY <1>0, FS_CardinalityType, FS_Subset, FeedConstants
<1>4. Cardinality(T) = IF Cardinality(Table(kind)) < SnapshotLimit
                       THEN Cardinality(Table(kind)) ELSE SnapshotLimit
  BY DEF Newest
<1>5. Cardinality(Table(kind)) = Cardinality(T)
  BY <1>2, <1>3, <1>4
<1>6. Table(kind) = T
  BY <1>0, <1>5, FS_Subset
<1> QED
  BY <1>6

(* The sorted list has each of its rows.                                   *)
LEMMA SortedHas ==
  ASSUME NEW rows, IsFiniteSet(rows), NEW p \in SortedSeqs(rows), NEW id \in rows
  PROVE  \E k \in 1..Cardinality(rows) : p[k] = id
<1> DEFINE n == Cardinality(rows)
<1>1. n \in Nat
  BY FS_CardinalityType
<1>2. /\ p \in [1..n -> rows]
      /\ \A i, j \in 1..n : i < j => p[i] # p[j]
  BY DEF SortedSeqs
<1>3. IsFiniteSet(1..n) /\ Cardinality(1..n) = n
  BY <1>1, FS_Interval
<1> HIDE DEF n
<1>4. \A i, j \in 1..n : p[i] = p[j] => i = j
  <2> SUFFICES ASSUME NEW i \in 1..n, NEW j \in 1..n, p[i] = p[j], i # j PROVE FALSE
    OBVIOUS
  <2>1. i < j \/ j < i
    OBVIOUS
  <2> QED
    BY <1>2, <2>1
<1>5. p \in Injection(1..n, rows)
  BY <1>2, <1>4 DEF Injection, IsInjective
<1>6. p \in Surjection(1..n, rows)
  BY <1>3, <1>5, FS_Injection DEF n
<1> QED
  BY <1>6 DEF Surjection, n

(* What the cut takes off has too many rivals to be recent.                *)
LEMMA RecentKept ==
  ASSUME NEW rows, IsFiniteSet(rows), rows \subseteq Listed,
         created \in [SendIds -> Nat],
         NEW p \in SortedSeqs(rows), NEW k \in 1..Cardinality(rows), Recent(p[k])
  PROVE  k >= CutAt(Cardinality(rows))
<1> DEFINE n == Cardinality(rows)
           L == SnapshotLimit
           J == (n - L + 1)..n
           later == {p[j] : j \in J}
<1> SUFFICES ASSUME ~(k >= CutAt(n)) PROVE FALSE
  OBVIOUS
<1>0. n \in Nat /\ L \in Nat /\ k \in 1..n /\ k \in Int
  BY FS_CardinalityType, FeedConstants
<1>1. /\ p \in [1..n -> rows]
      /\ \A i, j \in 1..n : i < j => p[i] # p[j] /\ Before(p[i], p[j])
  BY DEF SortedSeqs
<1>t. CutAt(n) = IF n > L THEN n - L + 1 ELSE 1
  BY DEF CutAt
<1> HIDE DEF n, L
<1>2. n > L /\ k < n - L + 1
  BY <1>0, <1>t
<1>3. IsFiniteSet(J) /\ Cardinality(J) = L
  BY <1>0, <1>2, FS_Interval
<1>4. \A j \in J : j \in 1..n /\ k < j
  BY <1>0, <1>2
<1> HIDE DEF J
<1>5. later \in SUBSET Rivals(p[k])
  <2> SUFFICES ASSUME NEW j \in J PROVE p[j] \in Rivals(p[k])
    OBVIOUS
  <2>1. p[k] \in Listed /\ p[j] \in Listed /\ p[k] # p[j] /\ Before(p[k], p[j])
    BY <1>0, <1>1, <1>4
  <2>2. created[p[k]] \in Nat /\ created[p[j]] \in Nat
    BY <2>1, ListedFinite
  <2>3. created[p[j]] >= created[p[k]]
    BY <2>1, <2>2 DEF Before
  <2> QED
    BY <2>1, <2>3 DEF Rivals
<1>6. IsFiniteSet(later)
  BY <1>5, RivalsFinite
<1>7. [j \in J |-> p[j]] \in Injection(J, later)
  <2>1. [j \in J |-> p[j]] \in [J -> later]
    OBVIOUS
  <2>2. ASSUME NEW i \in J, NEW j \in J, p[i] = p[j] PROVE i = j
    <3>1. i \in 1..n /\ j \in 1..n
      BY <1>4
    <3>2. ~(i < j) /\ ~(j < i)
      BY <1>1, <2>2, <3>1
    <3> QED
      BY <1>0, <3>1, <3>2
  <2> QED
    BY <2>1, <2>2 DEF Injection, IsInjective
<1>8. Cardinality(J) <= Cardinality(later)
  BY <1>6, <1>7, FS_Injection
<1>9. Cardinality(later) < L /\ Cardinality(later) \in Nat
  BY <1>5, RivalsFinite, FewRivals DEF L
<1> QED
  BY <1>0, <1>3, <1>8, <1>9

(* A snapshot has every recent payment: neither the LIMIT of its query nor *)
(* the cut after sorting takes it off.                                     *)
LEMMA SnapshotHasRecent ==
  ASSUME created \in [SendIds -> Nat], TypeOK, NEW q \in user_payments,
         NEW id \in Listed, Recent(id)
  PROVE  \E i \in 1..Len(q) : q[i] = id
<1>1. PICK r \in Newest(Table("receive"), SnapshotLimit),
           s \in Newest(Table("send"), SnapshotLimit) :
        \E p \in SortedSeqs(r \cup s) : q = split_off(p)
  BY DEF user_payments
<1>2. PICK p \in SortedSeqs(r \cup s) : q = split_off(p)
  BY <1>1
<1> DEFINE rows == r \cup s
           n == Cardinality(rows)
<1>3. /\ rows \subseteq Listed /\ IsFiniteSet(rows) /\ n \in Nat
      /\ p \in [1..n -> rows]
  BY <1>2, SortedRows
<1>4. id \in rows
  <2>1. id \in Table("receive") \/ id \in Table("send")
    <3>1. into_payment(id) \in Payment
      BY PaymentType DEF SeenTyped, Listed
    <3> QED
      BY <3>1 DEF Table, Payment, Kinds
  <2> QED
    BY <1>1, <2>1, RecentInTable
<1>5. p \in SortedSeqs(rows) /\ q = split_off(p)
  BY <1>2
<1> HIDE DEF rows
<1>6. PICK k \in 1..n : p[k] = id
  BY <1>3, <1>4, <1>5, SortedHas
<1>7. k >= CutAt(n)
  BY <1>3, <1>5, <1>6, RecentKept
<1> HIDE DEF n
<1>8. /\ CutAt(n) \in 1..(n + 1) /\ Len(q) = n - CutAt(n) + 1
      /\ \A i \in 1..(n - CutAt(n) + 1) : q[i] = p[CutAt(n) + i - 1]
  BY <1>3, <1>5, SplitOff
<1>9. /\ k - CutAt(n) + 1 \in 1..Len(q)
      /\ CutAt(n) + (k - CutAt(n) + 1) - 1 = k
  BY <1>3, <1>7, <1>8
<1> QED
  BY <1>6, <1>8, <1>9

-----------------------------------------------------------------------------
(* The balance that is shown.                                              *)

(* Nothing was sent, and the balance is the same.                          *)
LEMMA BalanceRests ==
  ASSUME BalanceFollows, UNCHANGED <<inbox, shownBalance>>,
         balanceFeed'[Watcher] = balanceFeed[Watcher], conn' = "live" => conn = "live"
  PROVE  BalanceFollows'
BY DEF BalanceFollows

(* The new balance was sent, before something else.                        *)
LEMMA BalanceSent ==
  ASSUME FeedTypeOK, NEW b \in AppEvent, b.type # "balance", UNCHANGED conn,
         BalanceEvent(balanceFeed'[Watcher]) \in AppEvent,
         SendEvents(<<BalanceEvent(balanceFeed'[Watcher]), b>>)
  PROVE  BalanceFollows'
<1>1. CASE conn = "down"
  <2>1. inbox' = <<>> /\ conn' # "live"
    BY <1>1 DEF SendEvents, FeedTypeOK
  <2>2. Len(inbox') = 0
    BY <2>1
  <2> QED
    BY <2>1, <2>2 DEF BalanceFollows
<1>2. CASE conn # "down"
  <2> DEFINE a == BalanceEvent(balanceFeed'[Watcher])
             n == Len(inbox)
  <2>1. a.type = "balance" /\ a.amount = balanceFeed'[Watcher]
    BY DEF BalanceEvent
  <2> HIDE DEF a
  <2>2. /\ n \in Nat /\ Len(inbox') = n + 2
        /\ \A i \in 1..n : inbox'[i] = inbox[i]
        /\ inbox'[n + 1] = a /\ inbox'[n + 2] = b
    BY <1>2, Sent DEF FeedTypeOK, a
  <2> HIDE DEF n
  <2>3. ASSUME NEW i \in 1..Len(inbox'), inbox'[i].type = "balance",
               \A j \in (i + 1)..Len(inbox') : inbox'[j].type # "balance"
        PROVE  inbox'[i].amount = balanceFeed'[Watcher]
    <3>1. i = n + 1
      <4>1. i = n + 1 \/ i = n + 2 \/ n + 1 \in (i + 1)..Len(inbox')
        BY <2>2
      <4> QED
        BY <2>1, <2>2, <2>3, <4>1
    <3> QED
      BY <2>1, <2>2, <3>1
  <2>4. ~(\A i \in 1..Len(inbox') : inbox'[i].type # "balance")
    <3>1. n + 1 \in 1..Len(inbox')
      BY <2>2
    <3> QED
      BY <2>1, <2>2, <3>1
  <2> QED
    BY <2>3, <2>4 DEF BalanceFollows
<1> QED
  BY <1>1, <1>2

(* An event is taken off.                                                  *)
LEMMA BalanceShown ==
  ASSUME FeedTypeOK, BalanceFollows, accept_event
  PROVE  BalanceFollows'
<1>1. /\ inbox # <<>> /\ inbox' = Tail(inbox) /\ conn = "live" /\ UNCHANGED balanceFeed
      /\ shownBalance' = IF Head(inbox).type = "balance" THEN Head(inbox).amount
                         ELSE shownBalance
  BY DEF accept_event, vars
<1>2. /\ Head(inbox) = inbox[1] /\ 1 \in 1..Len(inbox) /\ Len(inbox) \in Nat
      /\ Len(inbox') = Len(inbox) - 1
      /\ \A i \in 1..Len(inbox') : inbox'[i] = inbox[i + 1] /\ i + 1 \in 1..Len(inbox)
  BY <1>1, RestOfInbox DEF FeedTypeOK
<1>3. \A j \in 2..Len(inbox) : j - 1 \in 1..Len(inbox') /\ inbox'[j - 1] = inbox[j]
  BY <1>2
<1>4. ASSUME NEW i \in 1..Len(inbox'), inbox'[i].type = "balance",
             \A j \in (i + 1)..Len(inbox') : inbox'[j].type # "balance"
      PROVE  inbox'[i].amount = balanceFeed'[Watcher]
  <2>1. ASSUME NEW j \in (i + 2)..Len(inbox) PROVE inbox[j].type # "balance"
    <3>1. j \in 2..Len(inbox) /\ j - 1 \in (i + 1)..Len(inbox')
      BY <1>2
    <3> QED
      BY <1>3, <1>4, <3>1
  <2>2. i + 1 \in 1..Len(inbox) /\ (i + 1) + 1 = i + 2 /\ inbox'[i] = inbox[i + 1]
    BY <1>2
  <2> QED
    BY <1>1, <1>4, <2>1, <2>2 DEF BalanceFollows
<1>5. ASSUME \A i \in 1..Len(inbox') : inbox'[i].type # "balance"
      PROVE  shownBalance' = balanceFeed'[Watcher]
  <2>1. \A j \in 2..Len(inbox) : inbox[j].type # "balance"
    BY <1>3, <1>5
  <2>2. CASE inbox[1].type = "balance"
    <3>1. inbox[1].amount = balanceFeed[Watcher]
      <4>1. 1 + 1 = 2
        OBVIOUS
      <4> QED
        BY <1>2, <2>1, <2>2, <4>1 DEF BalanceFollows
    <3> QED
      BY <1>1, <1>2, <2>2, <3>1
  <2>3. CASE inbox[1].type # "balance"
    <3>1. \A j \in 1..Len(inbox) : j = 1 \/ j \in 2..Len(inbox)
      BY <1>2
    <3>2. \A j \in 1..Len(inbox) : inbox[j].type # "balance"
      BY <2>1, <2>3, <3>1
    <3>3. shownBalance = balanceFeed[Watcher]
      BY <1>1, <3>2 DEF BalanceFollows
    <3> QED
      BY <1>1, <1>2, <2>3, <3>3
  <2> QED
    BY <2>2, <2>3
<1> QED
  BY <1>4, <1>5 DEF BalanceFollows

(* What a connection finds in front of it when the snapshot was taken.     *)
LEMMA SnapshotFirst ==
  ASSUME FeedTypeOK, TypeOK, NEW q \in Seq(Listed),
         inbox' = ChainAfter(Snapshot(q), inbox)
  PROVE  /\ Len(inbox) \in Nat /\ Len(q) \in Nat
         /\ Len(inbox') = Len(q) + 1 + Len(inbox)
         /\ inbox'[1] = BalanceEvent(user_balance(Watcher))
         /\ \A i \in 1..Len(q) :
              /\ q[i] \in SendIds /\ into_payment(q[i]) # NULL
              /\ inbox'[i + 1] = PaymentEvent(q[i], into_payment(q[i]), FALSE)
         /\ \A i \in 1..Len(inbox) : inbox'[Len(q) + 1 + i] = inbox[i]
<1> DEFINE front == Snapshot(q)
<1>1. /\ front \in Seq(AppEvent) /\ Len(q) \in Nat /\ Len(front) = Len(q) + 1
      /\ front[1] = BalanceEvent(user_balance(Watcher))
      /\ \A i \in 1..Len(q) :
           /\ q[i] \in SendIds /\ into_payment(q[i]) # NULL
           /\ front[i + 1] = PaymentEvent(q[i], into_payment(q[i]), FALSE)
  BY SnapshotShape
<1> HIDE DEF front
<1>2. inbox \in Seq(AppEvent) /\ inbox' = front \o inbox /\ Len(inbox) \in Nat
  BY LenProperties DEF FeedTypeOK, ChainAfter, front
<1>3. /\ Len(inbox') = Len(front) + Len(inbox)
      /\ \A i \in 1..(Len(front) + Len(inbox)) :
           inbox'[i] = IF i <= Len(front) THEN front[i] ELSE inbox[i - Len(front)]
  <2>1. /\ Len(front \o inbox) = Len(front) + Len(inbox)
        /\ \A i \in 1..(Len(front) + Len(inbox)) :
             (front \o inbox)[i] = IF i <= Len(front) THEN front[i]
                                   ELSE inbox[i - Len(front)]
    <3> HIDE <1>1, <1>2
    <3>1. front \in Seq(AppEvent) /\ inbox \in Seq(AppEvent)
      BY <1>1, <1>2
    <3> QED
      BY <3>1, ConcatProperties
  <2> QED
    BY <1>2, <2>1, Zenon
<1>4. /\ 1 \in 1..(Len(front) + Len(inbox)) /\ 1 <= Len(front)
      /\ \A i \in 1..Len(q) :
           i + 1 \in 1..(Len(front) + Len(inbox)) /\ i + 1 <= Len(front)
      /\ \A i \in 1..Len(inbox) : /\ Len(q) + 1 + i \in 1..(Len(front) + Len(inbox))
                                  /\ ~(Len(q) + 1 + i <= Len(front))
                                  /\ (Len(q) + 1 + i) - Len(front) = i
  BY <1>1, <1>2
<1>5. inbox'[1] = BalanceEvent(user_balance(Watcher))
  BY <1>1, <1>3, <1>4
<1>6. \A i \in 1..Len(q) : inbox'[i + 1] = PaymentEvent(q[i], into_payment(q[i]), FALSE)
  BY <1>1, <1>3, <1>4
<1>7. \A i \in 1..Len(inbox) : inbox'[Len(q) + 1 + i] = inbox[i]
  BY <1>3, <1>4
<1> QED
  BY <1>1, <1>2, <1>3, <1>5, <1>6, <1>7

(* Who is not connected has nothing to follow.                             *)
Away == inbox = <<>> /\ conn # "live"

(* A connection with nothing on its way that is not live satisfies the     *)
(* three.                                                                  *)
LEMMA AwayFollows == Away => BalanceFollows /\ LastCurrent /\ RecentFollows
<1> SUFFICES ASSUME Away PROVE BalanceFollows /\ LastCurrent /\ RecentFollows
  OBVIOUS
<1>1. Len(inbox) = 0 /\ conn # "live"
  BY DEF Away
<1> QED
  BY <1>1 DEF BalanceFollows, LastCurrent, LastAbout, RecentFollows

(* Connections begin and end with nothing on its way.                      *)
LEMMA AwaySteps ==
  ASSUME FeedTypeOK, DaemonCrashes \/ ConnectionLost \/ subscribe_to_events
  PROVE  Away'
<1>1. CASE DaemonCrashes \/ ConnectionLost
  <2>1. Disconnected
    BY <1>1, Zenon DEF DaemonCrashes, ConnectionLost
  <2> QED
    BY <2>1 DEF Disconnected, Away
<1>2. CASE subscribe_to_events
  BY <1>2 DEF subscribe_to_events, FeedTypeOK, Away
<1> QED
  BY <1>1, <1>2

(* So do connections that begin or end.                                    *)
LEMMA AwayNext ==
  ASSUME FeedTypeOK, DaemonCrashes \/ ConnectionLost \/ subscribe_to_events
  PROVE  BalanceFollows' /\ LastCurrent' /\ RecentFollows'
<1>1. Away'
  BY AwaySteps
<1>2. Away' => BalanceFollows' /\ LastCurrent' /\ RecentFollows'
  BY AwayFollows, PTL
<1> QED
  BY <1>1, <1>2

(* What the second UPDATE sends.                                           *)
LEMMA SettledEvents ==
  ASSUME TypeOK', FeedTypeOK', NEW id \in SendIds, Settles(id), into_payment(id) # NULL
  PROVE  /\ into_payment(id)' \in Payment
         /\ BalanceEvent(balanceFeed[Watcher]') \in AppEvent
         /\ UpdateEvent(id, into_payment(id)'.status, into_payment(id)'.fee) \in AppEvent
         /\ SendEvents(<<BalanceEvent(balanceFeed[Watcher]'),
                         UpdateEvent(id, into_payment(id)'.status, into_payment(id)'.fee)>>)
<1>1. into_payment(id)' \in Payment
  <2>1. TypeOK' => SeenTyped'
    BY PaymentType, PTL
  <2> QED
    BY <2>1 DEF SeenTyped, Settles, Kept
<1>2. balanceFeed[Watcher]' \in Int
  BY DEF FeedTypeOK
<1>3. SendEvents(<<BalanceEvent(balanceFeed[Watcher]'),
                   UpdateEvent(id, into_payment(id)'.status, into_payment(id)'.fee)>>)
  BY Zenon DEF Settles
<1> QED
  BY <1>1, <1>2, <1>3, AppEvents

(* The snapshot has the balance that was published last, since it is read  *)
(* while the connection to the database is free.                           *)
LEMMA BalanceSnapshot ==
  ASSUME Ledger, FeedTypeOK, BalanceFollows, take_snapshot PROVE BalanceFollows'
<1>0. TypeOK /\ DbFree /\ UNCHANGED balanceFeed
  BY DEF Ledger, Base, take_snapshot, vars
<1>1. PICK q \in user_payments : inbox' = ChainAfter(Snapshot(q), inbox)
  BY DEF take_snapshot
<1> DEFINE m == Len(q) + 1
           n == Len(inbox)
<1>2. /\ n \in Nat /\ m \in Nat /\ Len(inbox') = m + n
      /\ inbox'[1] = BalanceEvent(user_balance(Watcher))
      /\ \A i \in 1..Len(q) :
           inbox'[i + 1] = PaymentEvent(q[i], into_payment(q[i]), FALSE)
      /\ \A i \in 1..n : inbox'[m + i] = inbox[i]
      /\ Len(q) \in Nat
  <2>1. q \in Seq(Listed)
    BY <1>1, PaymentsListed
  <2>2. /\ Len(inbox) \in Nat /\ Len(q) \in Nat
        /\ Len(inbox') = Len(q) + 1 + Len(inbox)
        /\ inbox'[1] = BalanceEvent(user_balance(Watcher))
        /\ \A i \in 1..Len(q) :
             /\ q[i] \in SendIds /\ into_payment(q[i]) # NULL
             /\ inbox'[i + 1] = PaymentEvent(q[i], into_payment(q[i]), FALSE)
        /\ \A i \in 1..Len(inbox) : inbox'[Len(q) + 1 + i] = inbox[i]
    BY <1>0, <1>1, <2>1, SnapshotFirst
  <2>3. m \in Nat
    BY <2>2
  <2>4. \A i \in 1..Len(q) : inbox'[i + 1] = PaymentEvent(q[i], into_payment(q[i]), FALSE)
    BY <2>2, Zenon
  <2> QED
    BY <2>2, <2>3, <2>4, Zenon
<1>3. inbox'[1].type = "balance" /\ inbox'[1].amount = balanceFeed[Watcher]
  BY <1>0, <1>2, FeedConstants DEF BalanceEvent, Ledger, FeedCurrent
<1>4. \A i \in 2..m : inbox'[i].type # "balance"
  <2> SUFFICES ASSUME NEW i \in 2..m PROVE inbox'[i].type # "balance"
    OBVIOUS
  <2>1. PICK k \in 1..Len(q) : i = k + 1
    <3>1. i - 1 \in 1..Len(q) /\ i = (i - 1) + 1
      BY <1>2
    <3> QED
      BY <3>1
  <2>2. inbox'[i] = PaymentEvent(q[k], into_payment(q[k]), FALSE)
    BY <1>2, <2>1
  <2> QED
    BY <2>2 DEF PaymentEvent
<1> HIDE DEF m, n
<1>5. ASSUME NEW i \in 1..Len(inbox'), inbox'[i].type = "balance",
             \A j \in (i + 1)..Len(inbox') : inbox'[j].type # "balance"
      PROVE  inbox'[i].amount = balanceFeed'[Watcher]
  <2>1. CASE i \in 1..m
    <3>1. i = 1
      BY <1>2, <1>4, <1>5, <2>1
    <3> QED
      BY <1>0, <1>3, <3>1
  <2>2. CASE i > m
    <3>1. i - m \in 1..n /\ m + (i - m) = i
      BY <1>2, <2>2
    <3>2. ASSUME NEW j \in ((i - m) + 1)..n PROVE inbox[j].type # "balance"
      <4>1. j \in 1..n /\ m + j \in (i + 1)..Len(inbox')
        BY <1>2, <3>1, <3>2
      <4> QED
        BY <1>2, <1>5, <4>1
    <3>3. inbox'[i] = inbox[i - m]
      BY <1>2, <3>1
    <3>4. inbox[i - m].amount = balanceFeed[Watcher]
      BY <1>5, <3>1, <3>2, <3>3 DEF BalanceFollows, n
    <3> QED
      BY <1>0, <3>3, <3>4
  <2> QED
    BY <1>2, <2>1, <2>2
<1>6. 1 \in 1..Len(inbox')
  BY <1>2 DEF m
<1> QED
  BY <1>3, <1>5, <1>6 DEF BalanceFollows

(* Every step preserves BalanceFollows.                                    *)
LEMMA BalanceStep ==
  ASSUME Ledger, TypeOK', FeedTypeOK, FeedTypeOK', BalanceFollows, FeedMoves
  PROVE  BalanceFollows'
<1>0. balanceFeed'[Watcher] \in Int
  BY DEF FeedTypeOK
<1>1. ASSUME NEW id \in SendIds, Appears(id), Announce(id) PROVE BalanceFollows'
  <2>0. UNCHANGED <<conn, shownBalance>>
    BY <1>1 DEF Announce, QuietSession
  <2>1. CASE into_payment(id)' = NULL /\ UNCHANGED <<inbox, announced>>
    BY <1>1, <2>0, <2>1, BalanceRests DEF Appears
  <2>2. CASE /\ BalanceEvent(balanceFeed'[Watcher]) \in AppEvent
             /\ PaymentEvent(id, into_payment(id)', TRUE) \in AppEvent
             /\ SendEvents(<<BalanceEvent(balanceFeed'[Watcher]),
                             PaymentEvent(id, into_payment(id)', TRUE)>>)
    <3>1. PaymentEvent(id, into_payment(id)', TRUE).type # "balance"
      BY DEF PaymentEvent
    <3> QED
      BY <2>0, <2>2, <3>1, BalanceSent
  <2> QED
    BY <1>0, <1>1, <2>1, <2>2, AnnouncedEvents, Zenon
<1>2. ASSUME NEW id \in SendIds, Settles(id), Rests PROVE BalanceFollows'
  <2>0. UNCHANGED <<conn, shownBalance>>
    BY <1>2 DEF Rests, QuietSession
  <2>1. CASE into_payment(id) = NULL
    BY <1>2, <2>0, <2>1, BalanceRests DEF Settles
  <2>2. CASE into_payment(id) # NULL
    <3>1. UpdateEvent(id, into_payment(id)'.status, into_payment(id)'.fee).type # "balance"
      BY DEF UpdateEvent
    <3> QED
      BY <1>2, <2>0, <2>2, <3>1, SettledEvents, BalanceSent
  <2> QED
    BY <2>1, <2>2
<1>3. ASSUME Quiet, Rests, UNCHANGED inbox PROVE BalanceFollows'
  BY <1>3, BalanceRests DEF Quiet, Rests, QuietSession
<1>4. ASSUME UNCHANGED feedVars PROVE BalanceFollows'
  BY <1>4, BalanceRests DEF feedVars, vars, session
<1> QED
  BY <1>1, <1>2, <1>3, <1>4, AwayNext, BalanceSnapshot, BalanceShown, Zenon DEF FeedMoves

-----------------------------------------------------------------------------
(* The payments that are shown.                                            *)

(* How what is on its way changes: two events are sent,                    *)
LEMMA SentMoves ==
  ASSUME FeedTypeOK, NEW a \in AppEvent, NEW b \in AppEvent, a.type = "balance",
         conn # "down", SendEvents(<<a, b>>), NEW id
  PROVE  /\ OnItsWay' = OnItsWay \cup {a, b}
         /\ About(b, id) => LastAbout(id)' \subseteq {b}
         /\ ~About(b, id) => LastAbout(id)' \subseteq LastAbout(id)
<1> DEFINE n == Len(inbox)
<1>1. /\ n \in Nat /\ Len(inbox') = n + 2
      /\ \A i \in 1..n : inbox'[i] = inbox[i]
      /\ inbox'[n + 1] = a /\ inbox'[n + 2] = b
  BY Sent DEF FeedTypeOK
<1> HIDE DEF n
<1>2. /\ \A i \in 1..Len(inbox') : i \in 1..n \/ i = n + 1 \/ i = n + 2
      /\ \A i \in 1..n : i \in 1..Len(inbox')
      /\ n + 1 \in 1..Len(inbox') /\ n + 2 \in 1..Len(inbox')
      /\ \A i \in 1..(n + 1) : n + 2 \in (i + 1)..Len(inbox')
      /\ \A i \in 1..n : \A j \in (i + 1)..n : j \in (i + 1)..Len(inbox') /\ j \in 1..n
  BY <1>1
<1>3. OnItsWay' = OnItsWay \cup {a, b}
  <2>1. ASSUME NEW e \in OnItsWay' PROVE e \in OnItsWay \cup {a, b}
    BY <1>1, <1>2, <2>1 DEF OnItsWay, n
  <2>2. ASSUME NEW e \in OnItsWay \cup {a, b} PROVE e \in OnItsWay'
    <3>1. PICK i \in 1..Len(inbox') : e = inbox'[i]
      BY <1>1, <1>2, <2>2 DEF OnItsWay, n
    <3> QED
      BY <3>1 DEF OnItsWay
  <2> QED
    BY <2>1, <2>2
<1>4. ASSUME NEW e \in LastAbout(id)'
      PROVE  \/ About(b, id) /\ e = b
             \/ ~About(b, id) /\ e \in LastAbout(id)
  <2>1. PICK i \in 1..Len(inbox') :
          /\ e = inbox'[i] /\ About(e, id)
          /\ \A j \in (i + 1)..Len(inbox') : ~About(inbox'[j], id)
    BY <1>4 DEF LastAbout
  <2>2. ~About(a, id)
    BY DEF About
  <2>3. i = n + 2 \/ i \in 1..n
    BY <1>1, <1>2, <2>1, <2>2
  <2>4. ASSUME i \in 1..n PROVE ~About(b, id) /\ e \in LastAbout(id)
    <3>1. ~About(b, id)
      <4>1. i \in 1..(n + 1)
        BY <1>1, <2>4
      <4> QED
        BY <1>1, <1>2, <2>1, <4>1
    <3>2. e = inbox[i] /\ i \in 1..Len(inbox)
      BY <1>1, <2>1, <2>4 DEF n
    <3>3. \A j \in (i + 1)..Len(inbox) : ~About(inbox[j], id)
      BY <1>1, <1>2, <2>1, <2>4 DEF n
    <3> QED
      BY <2>1, <3>1, <3>2, <3>3 DEF LastAbout
  <2> QED
    BY <1>1, <2>1, <2>3, <2>4
<1> QED
  BY <1>3, <1>4

(* the first is taken off,                                                 *)
LEMMA TakenMoves ==
  ASSUME FeedTypeOK, inbox # <<>>, inbox' = Tail(inbox), NEW id
  PROVE  /\ inbox[1] \in AppEvent /\ Head(inbox) = inbox[1]
         /\ OnItsWay = OnItsWay' \cup {inbox[1]}
         /\ LastAbout(id)' \subseteq LastAbout(id)
         /\ About(inbox[1], id) /\ (\A e \in OnItsWay' : ~About(e, id))
              => inbox[1] \in LastAbout(id)
<1> DEFINE n == Len(inbox')
<1>1. /\ Head(inbox) = inbox[1] /\ inbox[1] \in AppEvent /\ 1 \in 1..Len(inbox)
      /\ Len(inbox) = n + 1 /\ n \in Nat
      /\ \A i \in 1..n : inbox'[i] = inbox[i + 1] /\ i + 1 \in 1..Len(inbox)
  BY RestOfInbox DEF FeedTypeOK
<1> HIDE DEF n
<1>2. \A i \in 1..Len(inbox) : i # 1 =>
        i - 1 \in 1..n /\ (i - 1) + 1 = i
  BY <1>1
<1>3. \A i \in 1..Len(inbox) : i # 1 => i - 1 \in 1..n /\ inbox'[i - 1] = inbox[i]
  BY <1>1, <1>2
<1>4. OnItsWay = OnItsWay' \cup {inbox[1]}
  <2>1. ASSUME NEW e \in OnItsWay PROVE e \in OnItsWay' \cup {inbox[1]}
    <3>1. PICK i \in 1..Len(inbox) : e = inbox[i]
      BY <2>1 DEF OnItsWay
    <3>2. CASE i = 1
      BY <3>1, <3>2
    <3>3. CASE i # 1
      BY <1>3, <3>1, <3>3 DEF OnItsWay, n
    <3> QED
      BY <3>2, <3>3
  <2>2. ASSUME NEW e \in OnItsWay' PROVE e \in OnItsWay
    <3>1. PICK i \in 1..n : e = inbox'[i]
      BY <2>2 DEF OnItsWay, n
    <3>2. PICK k \in 1..Len(inbox) : e = inbox[k]
      BY <1>1, <3>1
    <3> QED
      BY <3>2 DEF OnItsWay
  <2>3. inbox[1] \in OnItsWay
    BY <1>1 DEF OnItsWay
  <2> QED
    BY <2>1, <2>2, <2>3
<1>5. ASSUME NEW e \in LastAbout(id)' PROVE e \in LastAbout(id)
  <2>1. PICK i \in 1..n :
          /\ e = inbox'[i] /\ About(e, id)
          /\ \A j \in (i + 1)..n : ~About(inbox'[j], id)
    BY <1>5 DEF LastAbout, n
  <2>2. PICK k \in 1..Len(inbox) : k = i + 1 /\ e = inbox[k]
    BY <1>1, <2>1
  <2>3. ASSUME NEW j \in (k + 1)..Len(inbox) PROVE ~About(inbox[j], id)
    <3>1. j \in 1..Len(inbox) /\ j # 1 /\ j - 1 \in (i + 1)..n
      BY <1>1, <2>1, <2>2
    <3> QED
      BY <1>3, <2>1, <3>1
  <2> QED
    BY <2>1, <2>2, <2>3 DEF LastAbout
<1>6. ASSUME About(inbox[1], id), \A e \in OnItsWay' : ~About(e, id)
      PROVE  inbox[1] \in LastAbout(id)
  <2>1. ASSUME NEW j \in (1 + 1)..Len(inbox) PROVE ~About(inbox[j], id)
    <3>1. j \in 1..Len(inbox) /\ j # 1
      BY <1>1
    <3>2. inbox[j] \in OnItsWay'
      BY <1>3, <3>1 DEF OnItsWay, n
    <3> QED
      BY <1>6, <3>2
  <2> QED
    BY <1>1, <1>6, <2>1 DEF LastAbout
<1> QED
  BY <1>1, <1>4, <1>5, <1>6

(* What a balance and an event of a payment change about what is on its    *)
(* way.                                                                    *)
LEMMA SendMoves ==
  ASSUME FeedTypeOK, NEW a \in AppEvent, NEW b \in AppEvent, a.type = "balance",
         SendEvents(<<a, b>>), NEW id
  PROVE  /\ OnItsWay \subseteq OnItsWay' /\ OnItsWay' \subseteq OnItsWay \cup {a, b}
         /\ conn # "down" => b \in OnItsWay'
         /\ About(b, id) => LastAbout(id)' \subseteq {b}
         /\ ~About(b, id) => LastAbout(id)' \subseteq LastAbout(id)
<1>1. CASE conn # "down"
  BY <1>1, SentMoves
<1>2. CASE conn = "down"
  <2>1. inbox = <<>> /\ inbox' = <<>>
    BY <1>2 DEF FeedTypeOK, SendEvents
  <2>2. Len(inbox) = 0 /\ Len(inbox') = 0
    BY <2>1
  <2> QED
    BY <1>2, <2>2 DEF OnItsWay, LastAbout
<1> QED
  BY <1>1, <1>2

(* or a snapshot is put in front.                                          *)
SnapshotOf(id) == PaymentEvent(id, into_payment(id), FALSE)

(* What is on its way after a snapshot: rows as they are stored, then what *)
(* was on its way before.                                                  *)
LEMMA SnapshotMoves ==
  ASSUME FeedTypeOK, TypeOK, NEW q \in Seq(Listed),
         inbox' = ChainAfter(Snapshot(q), inbox)
  PROVE  /\ \A e \in OnItsWay' :
              \/ e \in OnItsWay
              \/ e.type = "balance"
              \/ \E j \in SendIds : into_payment(j) # NULL /\ e = SnapshotOf(j)
         /\ \A i \in 1..Len(q) : SnapshotOf(q[i]) \in OnItsWay'
         /\ \A id \in SendIds : \A e \in LastAbout(id)' :
              e \in LastAbout(id) \/ e = SnapshotOf(id)
<1> DEFINE m == Len(q) + 1
           n == Len(inbox)
<1>1. /\ n \in Nat /\ Len(q) \in Nat /\ Len(inbox') = m + n
      /\ inbox'[1].type = "balance"
      /\ \A i \in 1..Len(q) : /\ q[i] \in SendIds /\ into_payment(q[i]) # NULL
                              /\ inbox'[i + 1] = SnapshotOf(q[i])
      /\ \A i \in 1..n : inbox'[m + i] = inbox[i]
  <2>1. /\ Len(inbox) \in Nat /\ Len(q) \in Nat
        /\ Len(inbox') = Len(q) + 1 + Len(inbox)
        /\ inbox'[1] = BalanceEvent(user_balance(Watcher))
        /\ \A i \in 1..Len(q) :
             /\ q[i] \in SendIds /\ into_payment(q[i]) # NULL
             /\ inbox'[i + 1] = PaymentEvent(q[i], into_payment(q[i]), FALSE)
        /\ \A i \in 1..Len(inbox) : inbox'[Len(q) + 1 + i] = inbox[i]
    BY SnapshotFirst
  <2>2. inbox'[1].type = "balance"
    BY <2>1 DEF BalanceEvent
  <2> QED
    BY <2>1, <2>2, Zenon DEF SnapshotOf
<1>m. m \in Nat /\ m = Len(q) + 1
  BY <1>1
<1> HIDE DEF m, n
<1>2. ASSUME NEW i \in 1..Len(inbox')
      PROVE  \/ i = 1 \/ \E k \in 1..Len(q) : i = k + 1
             \/ \E k \in 1..n : i = m + k
  <2>1. i = 1 \/ i - 1 \in 1..Len(q) \/ i - m \in 1..n
    BY <1>1, <1>m
  <2>2. i = (i - 1) + 1 /\ i = m + (i - m)
    BY <1>m
  <2> QED
    BY <2>1, <2>2
<1>3. ASSUME NEW e \in OnItsWay'
      PROVE  \/ e \in OnItsWay
             \/ e.type = "balance"
             \/ \E j \in SendIds : into_payment(j) # NULL /\ e = SnapshotOf(j)
  <2>1. PICK i \in 1..Len(inbox') : e = inbox'[i]
    BY <1>3 DEF OnItsWay
  <2>2. CASE i = 1
    BY <1>1, <2>1, <2>2
  <2>3. ASSUME NEW k \in 1..Len(q), i = k + 1
        PROVE  \E j \in SendIds : into_payment(j) # NULL /\ e = SnapshotOf(j)
    <3>1. q[k] \in SendIds /\ into_payment(q[k]) # NULL /\ e = SnapshotOf(q[k])
      BY <1>1, <2>1, <2>3
    <3> QED
      BY <3>1, Zenon
  <2>4. ASSUME NEW k \in 1..n, i = m + k PROVE e \in OnItsWay
    BY <1>1, <2>1, <2>4 DEF OnItsWay, n
  <2> QED
    BY <1>2, <2>2, <2>3, <2>4
<1>4. ASSUME NEW i \in 1..Len(q) PROVE SnapshotOf(q[i]) \in OnItsWay'
  <2>1. i + 1 \in 1..Len(inbox')
    BY <1>1, <1>m
  <2>2. SnapshotOf(q[i]) = inbox'[i + 1]
    BY <1>1
  <2>3. inbox'[i + 1] \in OnItsWay'
    BY <2>1 DEF OnItsWay
  <2> QED
    BY <2>2, <2>3
<1>5. ASSUME NEW id \in SendIds, NEW e \in LastAbout(id)'
      PROVE  e \in LastAbout(id) \/ e = SnapshotOf(id)
  <2>1. PICK i \in 1..Len(inbox') :
          /\ e = inbox'[i] /\ About(e, id)
          /\ \A j \in (i + 1)..Len(inbox') : ~About(inbox'[j], id)
    BY <1>5 DEF LastAbout
  <2>2. i # 1
    BY <1>1, <2>1 DEF About
  <2>3. ASSUME NEW k \in 1..Len(q), i = k + 1 PROVE e = SnapshotOf(id)
    <3>1. e = SnapshotOf(q[k])
      BY <1>1, <2>1, <2>3
    <3>2. q[k] = id
      BY <2>1, <3>1 DEF About, SnapshotOf, PaymentEvent
    <3> QED
      BY <3>1, <3>2
  <2>4. ASSUME NEW k \in 1..n, i = m + k PROVE e \in LastAbout(id)
    <3>1. ASSUME NEW j \in (k + 1)..n PROVE ~About(inbox[j], id)
      <4>1. j \in 1..n /\ m + j \in (i + 1)..Len(inbox')
        BY <1>1, <1>m, <2>4, <3>1
      <4>2. inbox'[m + j] = inbox[j]
        BY <1>1, <4>1
      <4> QED
        BY <2>1, <4>1, <4>2
    <3>2. e = inbox[k]
      BY <1>1, <2>1, <2>4
    <3> QED
      BY <2>1, <3>1, <3>2 DEF LastAbout, n
  <2> QED
    BY <1>2, <2>2, <2>3, <2>4
<1> QED
  BY <1>3, <1>4, <1>5

(* No payment is forgotten or becomes another.                             *)
Stays ==
  \A j \in SendIds :
    into_payment(j) # NULL =>
      /\ into_payment(j)' # NULL
      /\ into_payment(j)'.kind = into_payment(j).kind
      /\ into_payment(j)'.amount = into_payment(j).amount

(* Steps that leave both tables alone keep every payment.                  *)
LEMMA SameStays ==
  ASSUME UNCHANGED <<send, receive>>
  PROVE  Stays /\ \A j \in SendIds : into_payment(j)' = into_payment(j)
BY SameRows DEF Stays

(* No step takes a payment away or changes its kind or amount.             *)
LEMMA MovesStay == FeedMoves => Stays
<1> SUFFICES ASSUME FeedMoves PROVE Stays
  OBVIOUS
<1>1. ASSUME NEW id \in SendIds, Appears(id) PROVE Stays
  <2>1. \A j \in SendIds : into_payment(j) # NULL => into_payment(j)' = into_payment(j)
    BY <1>1 DEF Appears
  <2> QED
    BY <2>1 DEF Stays
<1>2. ASSUME NEW id \in SendIds, Settles(id) PROVE Stays
  BY <1>2 DEF Stays, Settles, Kept
<1>3. Quiet => Stays
  BY DEF Stays, Quiet, Kept
<1>4. ASSUME \/ DaemonCrashes \/ subscribe_to_events \/ take_snapshot
             \/ ConnectionLost \/ accept_event \/ UNCHANGED feedVars
      PROVE  Stays
  <2>1. UNCHANGED <<send, receive>>
    <3>1. DaemonCrashes => UNCHANGED <<send, receive>>
      BY DEF DaemonCrashes, Crash, tables
    <3>2. ConnectionLost \/ subscribe_to_events => UNCHANGED <<send, receive>>
      BY DEF ConnectionLost, subscribe_to_events, vars
    <3>3. take_snapshot \/ accept_event => UNCHANGED <<send, receive>>
      BY DEF take_snapshot, accept_event, vars
    <3>4. UNCHANGED feedVars => UNCHANGED <<send, receive>>
      BY DEF feedVars, vars
    <3> QED
      BY <1>4, <3>1, <3>2, <3>3, <3>4
  <2> QED
    BY <2>1, SameStays
<1> QED
  BY <1>1, <1>2, <1>3, <1>4, Zenon DEF FeedMoves

(* An event that is alike stays so.                                        *)
LEMMA AlikeStays ==
  ASSUME Stays, NEW e \in AppEvent, EventAlike(e) PROVE EventAlike(e)'
<1>1. e.type = "payment" \/ e.type = "update" => e.id \in SendIds
  BY EventTyped
<1> QED
  BY <1>1 DEF Stays, EventAlike, Alike

(* What is on its way are AppEvents.                                       *)
LEMMA WayTyped == FeedTypeOK => OnItsWay \subseteq AppEvent
<1> SUFFICES ASSUME FeedTypeOK PROVE OnItsWay \subseteq AppEvent
  OBVIOUS
<1>1. \A i \in 1..Len(inbox) : inbox[i] \in AppEvent
  BY ElementOfSeq DEF FeedTypeOK
<1> QED
  BY <1>1 DEF OnItsWay

(* What is new on the way must be a payment as it is stored.               *)
LEMMA AlikeSent ==
  ASSUME FeedTypeOK, PaymentsAlike, Stays, UNCHANGED view,
         \A e \in OnItsWay' : e \in OnItsWay \/ EventAlike(e)'
  PROVE  PaymentsAlike'
<1>1. \A e \in OnItsWay' : EventAlike(e)'
  <2> SUFFICES ASSUME NEW e \in OnItsWay', e \in OnItsWay PROVE EventAlike(e)'
    OBVIOUS
  <2>1. e \in AppEvent /\ EventAlike(e)
    BY WayTyped DEF PaymentsAlike
  <2> QED
    BY <2>1, AlikeStays
<1>2. \A id \in SendIds : view'[id] # NULL => Alike(view[id], id)'
  BY DEF PaymentsAlike, Stays, Alike
<1> QED
  BY <1>1, <1>2 DEF PaymentsAlike

(* An application that applies alike events shows alike payments.          *)
LEMMA AlikeShown ==
  ASSUME FeedTypeOK, PaymentsAlike, Stays, accept_event
  PROVE  PaymentsAlike'
<1> DEFINE h == inbox[1]
<1>1. inbox # <<>> /\ inbox' = Tail(inbox) /\ view' = Applied(Head(inbox))
  BY DEF accept_event
<1>2. /\ h \in AppEvent /\ Head(inbox) = h
      /\ OnItsWay = OnItsWay' \cup {h}
  BY <1>1, TakenMoves
<1>3. EventAlike(h)
  BY <1>2 DEF PaymentsAlike
<1> HIDE DEF h
<1>4. ASSUME NEW e \in OnItsWay' PROVE EventAlike(e)'
  <2>1. e \in AppEvent /\ EventAlike(e)
    BY <1>2, <1>4, WayTyped DEF PaymentsAlike
  <2> QED
    BY <2>1, AlikeStays
<1>5. ASSUME NEW id \in SendIds, view'[id] # NULL PROVE Alike(view'[id], id)
  <2>0. /\ \A j \in SendIds : ~About(h, j) => view'[j] = view[j]
        /\ h.type = "payment" => view'[h.id] = h.payment
        /\ h.type = "update" =>
             /\ view[h.id] = NULL => view'[h.id] = NULL
             /\ view[h.id] # NULL =>
                  /\ view'[h.id].kind = view[h.id].kind
                  /\ view'[h.id].amount = view[h.id].amount
    BY <1>1, <1>2, AppliedView DEF FeedTypeOK
  <2>1. CASE ~About(h, id)
    BY <1>5, <2>0, <2>1 DEF PaymentsAlike
  <2>2. CASE About(h, id) /\ h.type = "payment"
    BY <1>3, <2>0, <2>2 DEF About, EventAlike
  <2>3. CASE About(h, id) /\ h.type = "update"
    <3>1. view[id] # NULL /\ h.id = id
      BY <1>5, <2>0, <2>3 DEF About
    <3> QED
      BY <2>0, <2>3, <3>1 DEF PaymentsAlike, Alike
  <2>4. h.type \in {"balance", "payment", "update"}
    BY <1>2, EventTyped
  <2> QED
    BY <2>1, <2>2, <2>3, <2>4 DEF About
<1>6. \A id \in SendIds : view'[id] # NULL => Alike(view[id], id)'
  BY <1>5 DEF Stays, Alike
<1> QED
  BY <1>4, <1>6 DEF PaymentsAlike

(* A snapshot is of payments as they are stored.                           *)
LEMMA AlikeSnapshot ==
  ASSUME Ledger, FeedTypeOK, PaymentsAlike, Stays, take_snapshot PROVE PaymentsAlike'
<1>1. PICK q \in user_payments : inbox' = ChainAfter(Snapshot(q), inbox)
  BY DEF take_snapshot
<1>2. UNCHANGED view /\ TypeOK /\ q \in Seq(Listed)
  BY PaymentsListed DEF take_snapshot, Ledger, Base
<1>3. ASSUME NEW e \in OnItsWay' PROVE e \in OnItsWay \/ EventAlike(e)'
  <2>1. ASSUME e.type = "balance" PROVE EventAlike(e)'
    BY <2>1 DEF EventAlike
  <2>2. ASSUME NEW j \in SendIds, into_payment(j) # NULL, e = SnapshotOf(j)
        PROVE  EventAlike(e)'
    <3>1. e.type = "payment" /\ e.id = j /\ e.payment = into_payment(j)
      BY <2>2 DEF SnapshotOf, PaymentEvent
    <3> QED
      BY <2>2, <3>1 DEF EventAlike, Alike, Stays
  <2> QED
    BY <1>1, <1>2, <1>3, <2>1, <2>2, SnapshotMoves
<1> QED
  BY <1>2, <1>3, AlikeSent

(* Every step preserves PaymentsAlike.                                     *)
LEMMA AlikeStep ==
  ASSUME Ledger, TypeOK', FeedTypeOK, FeedTypeOK', PaymentsAlike, FeedMoves
  PROVE  PaymentsAlike'
<1>0. Stays /\ balanceFeed'[Watcher] \in Int
  BY MovesStay DEF FeedTypeOK
<1>1. ASSUME NEW id \in SendIds, Appears(id), Announce(id) PROVE PaymentsAlike'
  <2>0. UNCHANGED view
    BY <1>1 DEF Announce, QuietSession
  <2>1. CASE UNCHANGED <<inbox, announced>>
    <3>1. OnItsWay' = OnItsWay
      BY <2>1 DEF OnItsWay
    <3> QED
      BY <1>0, <2>0, <3>1, AlikeSent
  <2>2. ASSUME NEW a, NEW b, a = BalanceEvent(balanceFeed'[Watcher]), a \in AppEvent,
               b = PaymentEvent(id, into_payment(id)', TRUE), b \in AppEvent,
               into_payment(id)' \in Payment, SendEvents(<<a, b>>)
        PROVE  PaymentsAlike'
    <3>1. /\ a.type = "balance"
          /\ b.type = "payment" /\ b.id = id /\ b.payment = into_payment(id)'
      BY <2>2 DEF BalanceEvent, PaymentEvent
    <3>2. EventAlike(a)' /\ EventAlike(b)'
      BY <2>2, <3>1, NullIsNoPayment DEF EventAlike, Alike
    <3>3. OnItsWay' \subseteq OnItsWay \cup {a, b}
      BY <2>2, <3>1, SendMoves
    <3> QED
      BY <1>0, <2>0, <3>2, <3>3, AlikeSent
  <2> QED
    BY <1>0, <1>1, <2>1, <2>2, AnnouncedEvents, Zenon
<1>2. ASSUME NEW id \in SendIds, Settles(id), Rests PROVE PaymentsAlike'
  <2>0. UNCHANGED view
    BY <1>2 DEF Rests, QuietSession
  <2>1. CASE into_payment(id) = NULL
    <3>1. OnItsWay' = OnItsWay
      BY <1>2, <2>1 DEF Settles, OnItsWay
    <3> QED
      BY <1>0, <2>0, <3>1, AlikeSent
  <2>2. ASSUME into_payment(id) # NULL,
               NEW a, NEW b, a = BalanceEvent(balanceFeed[Watcher]'), a \in AppEvent,
               b = UpdateEvent(id, into_payment(id)'.status, into_payment(id)'.fee),
               b \in AppEvent, SendEvents(<<a, b>>)
        PROVE  PaymentsAlike'
    <3>1. a.type = "balance" /\ b.type = "update" /\ b.id = id
      BY <2>2 DEF BalanceEvent, UpdateEvent
    <3>2. EventAlike(a)' /\ EventAlike(b)'
      BY <1>0, <2>2, <3>1 DEF EventAlike, Stays
    <3>3. OnItsWay' \subseteq OnItsWay \cup {a, b}
      BY <2>2, <3>1, SendMoves
    <3> QED
      BY <1>0, <2>0, <3>2, <3>3, AlikeSent
  <2> QED
    BY <1>2, <2>1, <2>2, SettledEvents, Zenon
<1>3. ASSUME UNCHANGED <<inbox, view>> PROVE PaymentsAlike'
  <2>1. OnItsWay' = OnItsWay
    BY <1>3 DEF OnItsWay
  <2> QED
    BY <1>0, <1>3, <2>1, AlikeSent
<1>4. Rests /\ UNCHANGED inbox => UNCHANGED <<inbox, view>>
  BY DEF Rests, QuietSession
<1>5. UNCHANGED feedVars => UNCHANGED <<inbox, view>>
  BY DEF feedVars, session
<1>6. ASSUME DaemonCrashes \/ ConnectionLost \/ subscribe_to_events PROVE PaymentsAlike'
  <2>1. Away' /\ UNCHANGED view
    BY <1>6, AwaySteps DEF DaemonCrashes, ConnectionLost, subscribe_to_events
  <2>2. Len(inbox') = 0
    BY <2>1 DEF Away
  <2>3. OnItsWay' = {}
    BY <2>2 DEF OnItsWay
  <2> QED
    BY <1>0, <2>1, <2>3, AlikeSent
<1> QED
  BY <1>0, <1>1, <1>2, <1>3, <1>4, <1>5, <1>6, AlikeSnapshot, AlikeShown, Zenon DEF FeedMoves

(* What was said last stays true, or something true is said.               *)
LEMMA LastRests ==
  ASSUME LastCurrent,
         \A j \in SendIds :
           \/ Settling(j)'
           \/ /\ ~Settling(j) /\ into_payment(j)' = into_payment(j)
              /\ LastAbout(j)' \subseteq LastAbout(j)
           \/ \A e \in LastAbout(j)' : Says(e, into_payment(j)')
  PROVE  LastCurrent'
<1> SUFFICES ASSUME NEW j \in SendIds, ~Settling(j)', NEW e \in LastAbout(j)'
             PROVE  Says(e, into_payment(j)')
  BY DEF LastCurrent
<1> QED
  BY DEF LastCurrent

(* Outside the two UPDATEs nothing is being settled.                       *)
LEMMA NoneSettles ==
  ASSUME handler # "fee", NEW id PROVE ~Settling(id)
BY DEF Settling

(* A snapshot is up to date, since nothing is being settled when it is     *)
(* read; what the bus sent since the subscription follows it.              *)
LEMMA LastSnapshot ==
  ASSUME Ledger, FeedTypeOK, LastCurrent, take_snapshot PROVE LastCurrent'
<1>1. PICK q \in user_payments : inbox' = ChainAfter(Snapshot(q), inbox)
  BY DEF take_snapshot
<1>2. TypeOK /\ q \in Seq(Listed) /\ handler # "fee" /\ UNCHANGED <<send, receive>>
  BY PaymentsListed DEF take_snapshot, Ledger, Base, DbFree, vars
<1>3. \A j \in SendIds : into_payment(j)' = into_payment(j)
  BY <1>2, SameStays
<1>4. ASSUME NEW j \in SendIds, NEW e \in LastAbout(j)'
      PROVE  Says(e, into_payment(j)')
  <2>1. CASE e \in LastAbout(j)
    <3>1. Says(e, into_payment(j))
      BY <1>2, <2>1, NoneSettles DEF LastCurrent
    <3> QED
      BY <1>3, <3>1
  <2>2. CASE e = SnapshotOf(j)
    BY <1>3, <2>2 DEF SnapshotOf, PaymentEvent, Says
  <2> QED
    BY <1>1, <1>2, <1>4, <2>1, <2>2, SnapshotMoves
<1> QED
  BY <1>4, LastRests

(* Every step preserves LastCurrent.                                       *)
LEMMA LastStep ==
  ASSUME Ledger, TypeOK', FeedTypeOK, FeedTypeOK', PaymentsAlike, LastCurrent, FeedMoves
  PROVE  LastCurrent'
<1>0. balanceFeed'[Watcher] \in Int
  BY DEF FeedTypeOK
<1>1. ASSUME NEW id \in SendIds, Appears(id), Announce(id) PROVE LastCurrent'
  <2>0. /\ handler # "fee"
        /\ \A j \in SendIds : j # id => into_payment(j)' = into_payment(j)
        /\ into_payment(id)' = NULL => into_payment(id)' = into_payment(id)
    BY <1>1 DEF Appears
  <2>s. \A j \in SendIds : ~Settling(j)
    BY <2>0, NoneSettles
  <2>1. CASE into_payment(id)' = NULL /\ UNCHANGED <<inbox, announced>>
    <3>1. \A j \in SendIds : LastAbout(j)' = LastAbout(j)
      BY <2>1 DEF LastAbout
    <3>2. \A j \in SendIds : into_payment(j)' = into_payment(j)
      BY <2>0, <2>1
    <3> QED
      BY <2>s, <3>1, <3>2, LastRests
  <2>2. ASSUME NEW a, NEW b, a = BalanceEvent(balanceFeed'[Watcher]), a \in AppEvent,
               b = PaymentEvent(id, into_payment(id)', TRUE), b \in AppEvent,
               SendEvents(<<a, b>>)
        PROVE  LastCurrent'
    <3>1. /\ a.type = "balance"
          /\ b.type = "payment" /\ b.id = id /\ b.payment = into_payment(id)'
      BY <2>2 DEF BalanceEvent, PaymentEvent
    <3>2. Says(b, into_payment(id)') /\ \A j \in SendIds : About(b, j) <=> j = id
      BY <3>1 DEF Says, About
    <3>3. ASSUME NEW j \in SendIds, j # id PROVE LastAbout(j)' \subseteq LastAbout(j)
      BY <2>2, <3>1, <3>2, <3>3, SendMoves
    <3>4. LastAbout(id)' \subseteq {b}
      BY <2>2, <3>1, <3>2, SendMoves
    <3>5. \A e \in LastAbout(id)' : Says(e, into_payment(id)')
      BY <3>2, <3>4
    <3> QED
      BY <2>0, <2>s, <3>3, <3>5, LastRests
  <2> QED
    BY <1>0, <1>1, <2>1, <2>2, AnnouncedEvents, Zenon
<1>2. ASSUME NEW id \in SendIds, Settles(id), Rests PROVE LastCurrent'
  <2>0. \A j \in SendIds : j # id => ~Settling(j) /\ into_payment(j)' = into_payment(j)
    BY <1>2 DEF Settles, Settling
  <2>1. CASE into_payment(id) = NULL
    <3>1. UNCHANGED inbox
      BY <1>2, <2>1 DEF Settles
    <3>2. \A j \in SendIds : LastAbout(j)' = LastAbout(j)
      BY <3>1 DEF LastAbout
    <3>3. ASSUME NEW e \in LastAbout(id) PROVE FALSE
      <4>1. e \in OnItsWay /\ e.type # "balance" /\ e.id = id
        BY <3>3 DEF LastAbout, OnItsWay, About
      <4>2. e.type \in {"balance", "payment", "update"}
        BY <4>1, WayTyped, EventTyped
      <4> QED
        BY <2>1, <4>1, <4>2 DEF PaymentsAlike, EventAlike, Alike
    <3> QED
      BY <2>0, <3>2, <3>3, LastRests
  <2>2. ASSUME NEW a, NEW b, a = BalanceEvent(balanceFeed[Watcher]'), a \in AppEvent,
               b = UpdateEvent(id, into_payment(id)'.status, into_payment(id)'.fee),
               b \in AppEvent, SendEvents(<<a, b>>)
        PROVE  LastCurrent'
    <3>1. /\ a.type = "balance" /\ b.type = "update" /\ b.id = id
          /\ b.status = into_payment(id)'.status /\ b.fee = into_payment(id)'.fee
      BY <2>2 DEF BalanceEvent, UpdateEvent
    <3>2. Says(b, into_payment(id)') /\ \A j \in SendIds : About(b, j) <=> j = id
      BY <3>1 DEF Says, About
    <3>3. ASSUME NEW j \in SendIds, j # id PROVE LastAbout(j)' \subseteq LastAbout(j)
      BY <2>2, <3>1, <3>2, <3>3, SendMoves
    <3>4. LastAbout(id)' \subseteq {b}
      BY <2>2, <3>1, <3>2, SendMoves
    <3>5. \A e \in LastAbout(id)' : Says(e, into_payment(id)')
      BY <3>2, <3>4
    <3> QED
      BY <2>0, <3>3, <3>5, LastRests
  <2> QED
    BY <1>2, <2>1, <2>2, SettledEvents, Zenon
<1>3. ASSUME Quiet, UNCHANGED inbox PROVE LastCurrent'
  <2>1. \A j \in SendIds : LastAbout(j)' = LastAbout(j)
    BY <1>3 DEF LastAbout
  <2>2. \A j \in SendIds :
          \/ Settling(j)'
          \/ ~Settling(j) /\ into_payment(j)' = into_payment(j)
    BY <1>3 DEF Quiet, Settling
  <2> QED
    BY <2>1, <2>2, LastRests
<1>4. ASSUME UNCHANGED <<send, receive, handler, events>>,
             \A j \in SendIds : LastAbout(j)' \subseteq LastAbout(j)
      PROVE  LastCurrent'
  <2>1. \A j \in SendIds : /\ into_payment(j)' = into_payment(j)
                           /\ Settling(j)' \/ ~Settling(j)
    BY <1>4, SameStays DEF Settling
  <2> QED
    BY <1>4, <2>1, LastRests
<1>5. ASSUME accept_event PROVE LastCurrent'
  <2>1. inbox # <<>> /\ inbox' = Tail(inbox) /\ UNCHANGED <<send, receive, handler, events>>
    BY <1>5 DEF accept_event, vars
  <2>2. \A j \in SendIds : LastAbout(j)' \subseteq LastAbout(j)
    BY <2>1, TakenMoves
  <2> QED
    BY <1>4, <2>1, <2>2
<1>6. ASSUME UNCHANGED feedVars PROVE LastCurrent'
  <2>1. UNCHANGED <<send, receive, handler, events, inbox>>
    BY <1>6 DEF feedVars, vars, session
  <2>2. \A j \in SendIds : LastAbout(j)' = LastAbout(j)
    BY <2>1 DEF LastAbout
  <2> QED
    BY <1>4, <2>1, <2>2
<1> QED
  BY <1>1, <1>2, <1>3, <1>5, <1>6, LastSnapshot, AwayNext, Zenon DEF FeedMoves

(* Rows keep their time.                                                   *)
TimesStay == \A d \in SendIds : into_payment(d) # NULL => created'[d] = created[d]

(* A row keeps its time; only a new one is stamped.                        *)
LEMMA StampKeepsTimes ==
  ASSUME FeedTypeOK, NEW id \in SendIds, Stamp(id) PROVE TimesStay
<1>1. CASE into_payment(id) = NULL /\ into_payment(id)' # NULL
  <2>1. PICK t \in {clock, clock + 1} : created' = [created EXCEPT ![id] = t]
    BY <1>1, Zenon DEF Stamp
  <2> QED
    BY <1>1, <2>1 DEF FeedTypeOK, TimesStay
<1>2. CASE ~(into_payment(id) = NULL /\ into_payment(id)' # NULL)
  <2>1. UNCHANGED <<clock, created>>
    BY <1>2, Zenon DEF Stamp
  <2> QED
    BY <2>1 DEF TimesStay
<1> QED
  BY <1>1, <1>2

(* No step changes the time of a payment.                                  *)
LEMMA TimesKept == FeedTypeOK /\ FeedMoves => TimesStay
<1> SUFFICES ASSUME FeedTypeOK, FeedMoves PROVE TimesStay
  OBVIOUS
<1>1. ASSUME NEW id \in SendIds, Announce(id) PROVE TimesStay
  BY <1>1, StampKeepsTimes DEF Announce
<1>2. Rests => UNCHANGED created
  BY DEF Rests
<1>3. DaemonCrashes \/ ConnectionLost \/ subscribe_to_events => UNCHANGED created
  BY DEF DaemonCrashes, ConnectionLost, subscribe_to_events
<1>4. take_snapshot \/ accept_event => UNCHANGED created
  BY DEF take_snapshot, accept_event
<1>5. UNCHANGED feedVars => UNCHANGED created
  BY DEF feedVars
<1>6. UNCHANGED created => TimesStay
  BY DEF TimesStay
<1> QED
  BY <1>1, <1>2, <1>3, <1>4, <1>5, <1>6, Zenon DEF FeedMoves

(* So a payment that is recent was recent.                                 *)
LEMMA RecentBefore ==
  ASSUME Stays, TimesStay, NEW id \in SendIds, into_payment(id) # NULL, Recent(id)'
  PROVE  Recent(id)
<1>1. Rivals(id) \subseteq Rivals(id)'
  BY DEF Rivals, Listed, Stays, TimesStay
<1>2. Rivals(id)' \subseteq SendIds
  BY DEF Rivals, Listed
<1>3. IsFiniteSet(Rivals(id)')
  BY <1>2, IdsFinite, FS_Subset
<1>4. /\ Cardinality(Rivals(id)') \in Nat /\ Cardinality(Rivals(id)) \in Nat
      /\ Cardinality(Rivals(id)) <= Cardinality(Rivals(id)')
  BY <1>1, <1>3, FS_Subset, FS_CardinalityType
<1>5. Cardinality(Rivals(id)') < SnapshotLimit
  BY DEF Recent, Rivals
<1>6. Cardinality(Rivals(id)) < SnapshotLimit
  BY <1>4, <1>5, FeedConstants
<1> QED
  BY <1>6 DEF Recent, Rivals

(* A step that sends of every payment it changes.                          *)
LEMMA RecentRests ==
  ASSUME RecentFollows, Stays, TimesStay, UNCHANGED view, conn' = "live" => conn = "live",
         OnItsWay \subseteq OnItsWay',
         \A j \in SendIds :
           \/ into_payment(j)' = NULL
           \/ /\ into_payment(j) # NULL
              /\ \/ Settling(j)'
                 \/ ~Settling(j) /\ into_payment(j)' = into_payment(j)
           \/ /\ conn' = "live"
              /\ \E e \in OnItsWay' : e.type = "payment" /\ e.id = j
           \/ /\ into_payment(j) # NULL /\ conn' = "live"
              /\ \E e \in OnItsWay' : About(e, j)
           \/ conn' # "live"
  PROVE  RecentFollows'
<1> SUFFICES ASSUME conn' = "live", NEW j \in SendIds, into_payment(j)' # NULL, Recent(j)'
             PROVE  /\ Known(j)'
                    /\ ~Settling(j)' /\ (\A e \in OnItsWay' : ~About(e, j))
                         => view'[j] = into_payment(j)'
  BY DEF RecentFollows
<1>1. into_payment(j) # NULL => Known(j)
  BY RecentBefore DEF RecentFollows
<1>2. Known(j) => Known(j)'
  BY DEF Known
<1>3. CASE into_payment(j) # NULL /\ Settling(j)'
  BY <1>1, <1>2, <1>3
<1>4. CASE into_payment(j) # NULL /\ ~Settling(j) /\ into_payment(j)' = into_payment(j)
  BY <1>1, <1>2, <1>4, RecentBefore DEF RecentFollows
<1>5. CASE \E e \in OnItsWay' : e.type = "payment" /\ e.id = j
  BY <1>5 DEF Known, About
<1>6. CASE into_payment(j) # NULL /\ \E e \in OnItsWay' : About(e, j)
  BY <1>1, <1>2, <1>6
<1> QED
  BY <1>3, <1>4, <1>5, <1>6

(* After a snapshot every recent payment is known.                         *)
LEMMA RecentSnapshot ==
  ASSUME Ledger, FeedTypeOK, Stays, TimesStay, take_snapshot PROVE RecentFollows'
<1>1. PICK q \in user_payments : inbox' = ChainAfter(Snapshot(q), inbox)
  BY DEF take_snapshot
<1>2. TypeOK /\ q \in Seq(Listed) /\ UNCHANGED <<send, receive>>
  BY PaymentsListed DEF take_snapshot, Ledger, Base, vars
<1>3. ASSUME NEW j \in SendIds, into_payment(j)' # NULL, Recent(j)'
      PROVE  \E e \in OnItsWay' : e.type = "payment" /\ e.id = j
  <2>1. into_payment(j) # NULL
    BY <1>2, <1>3, SameStays
  <2>2. Recent(j) /\ j \in Listed
    BY <1>3, <2>1, RecentBefore DEF Listed
  <2>3. PICK i \in 1..Len(q) : q[i] = j
    BY <1>1, <1>2, <2>2, SnapshotHasRecent DEF FeedTypeOK
  <2>4. SnapshotOf(j) \in OnItsWay'
    BY <1>1, <1>2, <2>3, SnapshotMoves
  <2>5. SnapshotOf(j).type = "payment" /\ SnapshotOf(j).id = j
    BY DEF SnapshotOf, PaymentEvent
  <2> QED
    BY <2>4, <2>5
<1> QED
  BY <1>3 DEF RecentFollows, Known, About

(* The application knows what it has applied, and what it applied last is  *)
(* up to date.                                                             *)
LEMMA RecentShown ==
  ASSUME FeedTypeOK, TypeOK, PaymentsAlike, LastCurrent, RecentFollows, Stays, TimesStay,
         accept_event
  PROVE  RecentFollows'
<1> DEFINE h == inbox[1]
<1>1. /\ inbox # <<>> /\ inbox' = Tail(inbox) /\ view' = Applied(Head(inbox))
      /\ conn = "live" /\ UNCHANGED <<send, receive, handler, events>>
  BY DEF accept_event, vars
<1>2. /\ h \in AppEvent /\ Head(inbox) = h /\ OnItsWay = OnItsWay' \cup {h}
  BY <1>1, TakenMoves
<1>3. /\ \A j \in SendIds : ~About(h, j) => view'[j] = view[j]
      /\ h.type = "payment" => view'[h.id] = h.payment /\ h.payment \in Payment
      /\ h.type = "update" /\ view[h.id] # NULL =>
           /\ view[h.id] \in Payment
           /\ view'[h.id] \in Payment
           /\ view'[h.id].kind = view[h.id].kind
           /\ view'[h.id].amount = view[h.id].amount
           /\ view'[h.id].status = h.status /\ view'[h.id].fee = h.fee
  BY <1>1, <1>2, AppliedView, EventTyped DEF FeedTypeOK
<1>4. h.type \in {"balance", "payment", "update"}
  BY <1>2, EventTyped
<1>5. EventAlike(h)
  BY <1>2 DEF PaymentsAlike
<1> SUFFICES ASSUME NEW j \in SendIds, into_payment(j)' # NULL, Recent(j)'
             PROVE  /\ Known(j)'
                    /\ ~Settling(j)' /\ (\A e \in OnItsWay' : ~About(e, j))
                         => view'[j] = into_payment(j)'
  BY DEF RecentFollows
<1>6. into_payment(j)' = into_payment(j) /\ into_payment(j) # NULL
  BY <1>1, SameStays
<1>7. /\ Known(j)
      /\ ~Settling(j) /\ (\A e \in OnItsWay : ~About(e, j)) => view[j] = into_payment(j)
  BY <1>1, <1>6, RecentBefore DEF RecentFollows
<1>l. About(h, j) /\ (\A e \in OnItsWay' : ~About(e, j)) => h \in LastAbout(j)
  BY <1>1, TakenMoves
<1>t. into_payment(j) \in Payment
  BY <1>6, PaymentType DEF SeenTyped
<1> HIDE DEF h
<1>8. Known(j)'
  <2>1. CASE h.type = "payment" /\ h.id = j
    BY <1>3, <2>1, NullIsNoPayment DEF Known
  <2>2. CASE view[j] # NULL
    <3>1. view'[j] # NULL
      BY <1>3, <1>4, <2>2, NullIsNoPayment DEF About
    <3> QED
      BY <3>1 DEF Known
  <2>3. CASE \E e \in OnItsWay : e # h /\ e.type = "payment" /\ e.id = j
    BY <1>2, <2>3 DEF Known
  <2> QED
    BY <1>7, <2>1, <2>2, <2>3 DEF Known
<1>9. ASSUME ~Settling(j)', \A e \in OnItsWay' : ~About(e, j)
      PROVE  view'[j] = into_payment(j)
  <2>0. ~Settling(j)
    BY <1>1, <1>9 DEF Settling
  <2>1. CASE ~About(h, j)
    BY <1>2, <1>3, <1>7, <1>9, <2>0, <2>1
  <2>2. CASE About(h, j)
    <3>0. Says(h, into_payment(j)) /\ h.id = j /\ h.type # "balance"
      BY <1>9, <1>l, <2>0, <2>2 DEF LastCurrent, About
    <3>1. CASE h.type = "payment"
      <4>1. /\ view'[j] \in Payment /\ view'[j] = h.payment
            /\ h.payment.kind = into_payment(j).kind
            /\ h.payment.amount = into_payment(j).amount
            /\ h.payment.status = into_payment(j).status
            /\ h.payment.fee = into_payment(j).fee
        BY <1>3, <1>5, <3>0, <3>1 DEF EventAlike, Alike, Says
      <4> QED
        BY <1>t, <4>1, SamePayment
    <3>2. CASE h.type = "update"
      <4>1. view[j] # NULL
        <5>1. ~\E e \in OnItsWay : e.type = "payment" /\ e.id = j
          BY <1>2, <1>9, <3>2 DEF About
        <5> QED
          BY <1>7, <5>1 DEF Known
      <4>2. /\ view[j].kind = into_payment(j).kind
            /\ view[j].amount = into_payment(j).amount
        BY <4>1 DEF PaymentsAlike, Alike
      <4>3. /\ view'[j] \in Payment
            /\ view'[j].kind = into_payment(j).kind
            /\ view'[j].amount = into_payment(j).amount
            /\ view'[j].status = into_payment(j).status
            /\ view'[j].fee = into_payment(j).fee
        BY <1>3, <3>0, <3>2, <4>1, <4>2 DEF Says
      <4> QED
        BY <1>t, <4>3, SamePayment
    <3> QED
      BY <1>4, <3>0, <3>1, <3>2
  <2> QED
    BY <2>1, <2>2
<1> QED
  BY <1>6, <1>8, <1>9

(* Every step preserves RecentFollows.                                     *)
LEMMA RecentStep ==
  ASSUME Ledger, TypeOK', FeedTypeOK, FeedTypeOK', PaymentsAlike, LastCurrent,
         RecentFollows, FeedMoves
  PROVE  RecentFollows'
<1>0. Stays /\ TimesStay /\ TypeOK /\ balanceFeed'[Watcher] \in Int
  BY MovesStay, TimesKept DEF FeedTypeOK, Ledger, Base
<1>1. ASSUME NEW id \in SendIds, Appears(id), Announce(id) PROVE RecentFollows'
  <2>0. /\ UNCHANGED <<conn, view>> /\ handler # "fee"
        /\ \A j \in SendIds : j # id => into_payment(j)' = into_payment(j)
    BY <1>1 DEF Announce, QuietSession, Appears
  <2>s. \A j \in SendIds : ~Settling(j)
    BY <2>0, NoneSettles
  <2>1. CASE into_payment(id)' = NULL /\ UNCHANGED <<inbox, announced>>
    <3>1. OnItsWay' = OnItsWay
      BY <2>1 DEF OnItsWay
    <3>2. \A j \in SendIds :
            \/ into_payment(j)' = NULL
            \/ into_payment(j) # NULL /\ into_payment(j)' = into_payment(j)
      BY <2>0, <2>1
    <3> QED
      BY <1>0, <2>0, <2>s, <3>1, <3>2, RecentRests
  <2>2. ASSUME NEW a, NEW b, a = BalanceEvent(balanceFeed'[Watcher]), a \in AppEvent,
               b = PaymentEvent(id, into_payment(id)', TRUE), b \in AppEvent,
               SendEvents(<<a, b>>)
        PROVE  RecentFollows'
    <3>1. a.type = "balance" /\ b.type = "payment" /\ b.id = id
      BY <2>2 DEF BalanceEvent, PaymentEvent
    <3>2. OnItsWay \subseteq OnItsWay' /\ (conn # "down" => b \in OnItsWay')
      BY <2>2, <3>1, SendMoves
    <3>3. conn' # "live" \/ \E e \in OnItsWay' : e.type = "payment" /\ e.id = id
      BY <2>0, <3>1, <3>2
    <3>4. \A j \in SendIds : j # id =>
            \/ into_payment(j)' = NULL
            \/ into_payment(j) # NULL /\ into_payment(j)' = into_payment(j)
      BY <2>0
    <3> QED
      BY <1>0, <2>0, <2>s, <3>2, <3>3, <3>4, RecentRests
  <2> QED
    BY <1>0, <1>1, <2>1, <2>2, AnnouncedEvents, Zenon
<1>2. ASSUME NEW id \in SendIds, Settles(id), Rests PROVE RecentFollows'
  <2>0. /\ \A j \in SendIds : j # id => ~Settling(j) /\ into_payment(j)' = into_payment(j)
        /\ UNCHANGED <<conn, view>>
    BY <1>2 DEF Settles, Settling, Rests, QuietSession
  <2>o. \A j \in SendIds : j # id =>
          \/ into_payment(j)' = NULL
          \/ /\ into_payment(j) # NULL
             /\ ~Settling(j) /\ into_payment(j)' = into_payment(j)
    BY <2>0
  <2>1. CASE into_payment(id) = NULL
    <3>1. OnItsWay' = OnItsWay /\ into_payment(id)' = NULL
      BY <1>2, <2>1 DEF Settles, Kept, OnItsWay
    <3> QED
      BY <1>0, <2>0, <2>o, <3>1, RecentRests
  <2>2. ASSUME into_payment(id) # NULL,
               NEW a, NEW b, a = BalanceEvent(balanceFeed[Watcher]'), a \in AppEvent,
               b = UpdateEvent(id, into_payment(id)'.status, into_payment(id)'.fee),
               b \in AppEvent, SendEvents(<<a, b>>)
        PROVE  RecentFollows'
    <3>1. a.type = "balance" /\ b.type = "update" /\ b.id = id
      BY <2>2 DEF BalanceEvent, UpdateEvent
    <3>2. OnItsWay \subseteq OnItsWay' /\ (conn # "down" => b \in OnItsWay')
      BY <2>2, <3>1, SendMoves
    <3>3. conn' # "live" \/ \E e \in OnItsWay' : About(e, id)
      BY <2>0, <3>1, <3>2 DEF About
    <3> QED
      BY <1>0, <2>0, <2>o, <2>2, <3>2, <3>3, RecentRests
  <2> QED
    BY <1>2, <2>1, <2>2, SettledEvents, Zenon
<1>3. ASSUME Quiet, Rests, UNCHANGED inbox PROVE RecentFollows'
  <2>1. OnItsWay' = OnItsWay /\ UNCHANGED <<conn, view>>
    BY <1>3 DEF OnItsWay, Rests, QuietSession
  <2>2. \A j \in SendIds :
          /\ into_payment(j)' # NULL => into_payment(j) # NULL
          /\ \/ Settling(j)'
             \/ ~Settling(j) /\ into_payment(j)' = into_payment(j)
    BY <1>3 DEF Quiet, Settling, Kept
  <2> QED
    BY <1>0, <2>1, <2>2, RecentRests
<1>4. ASSUME UNCHANGED feedVars PROVE RecentFollows'
  <2>1. UNCHANGED <<send, receive, handler, events, inbox, conn, view>>
    BY <1>4 DEF feedVars, vars, session
  <2>2. OnItsWay' = OnItsWay
    BY <2>1 DEF OnItsWay
  <2>3. \A j \in SendIds : /\ into_payment(j)' = into_payment(j)
                           /\ Settling(j)' \/ ~Settling(j)
    BY <2>1, SameStays DEF Settling
  <2> QED
    BY <1>0, <2>1, <2>2, <2>3, RecentRests
<1> QED
  BY <1>0, <1>1, <1>2, <1>3, <1>4, RecentSnapshot, RecentShown, AwayNext, Zenon
     DEF FeedMoves

(* What the application shows is right initially.                          *)
LEMMA ViewInit == FeedInit => ViewInv
<1> SUFFICES ASSUME FeedInit PROVE ViewInv
  OBVIOUS
<1>1. Away /\ \A id \in SendIds : view[id] = NULL
  BY DEF FeedInit, Away
<1>2. Len(inbox) = 0
  BY <1>1 DEF Away
<1>3. PaymentsAlike
  BY <1>1, <1>2 DEF PaymentsAlike, OnItsWay
<1> QED
  BY <1>1, <1>3, AwayFollows DEF ViewInv

(* Every step preserves it.                                                *)
LEMMA ViewStep ==
  Ledger /\ TypeOK' /\ FeedTypeOK /\ ViewInv /\ [FeedNext]_feedVars => ViewInv'
<1> SUFFICES ASSUME Ledger, TypeOK', FeedTypeOK, ViewInv, [FeedNext]_feedVars
             PROVE  ViewInv'
  OBVIOUS
<1>1. FeedMoves /\ FeedTypeOK'
  BY FeedCases, FeedTypeStep
<1>2. BalanceFollows /\ PaymentsAlike /\ LastCurrent /\ RecentFollows
  BY DEF ViewInv
<1>3. BalanceFollows'
  BY <1>1, <1>2, BalanceStep
<1>4. PaymentsAlike'
  BY <1>1, <1>2, AlikeStep
<1>5. LastCurrent'
  BY <1>1, <1>2, LastStep
<1>6. RecentFollows'
  BY <1>1, <1>2, RecentStep
<1> QED
  BY <1>3, <1>4, <1>5, <1>6 DEF ViewInv

(* ViewInv is an invariant.                                                *)
LEMMA ViewInvariant == FeedSpec => []ViewInv
<1>1. Ledger => TypeOK
  BY DEF Ledger, Base
<1> QED
  BY <1>1, ViewInit, ViewStep, FeedTypeInvariant, LedgerInvariant, PTL DEF FeedSpec

(* A client that has read everything on its connection shows the balance   *)
(* and every recent payment as they are stored, whatever it missed and     *)
(* however its connection, the handlers, the event loop and crashes        *)
(* interleaved (client/mod.rs events, client/db.rs user_payments,          *)
(* client/rpc.rs push_events, main.rs).                                    *)
THEOREM AlwaysShowsTheLedger == FeedSpec => []ShowsTheLedger
<1>1. Ledger /\ FeedTypeOK /\ ViewInv => ShowsTheLedger
  <2> SUFFICES ASSUME Ledger, FeedTypeOK, ViewInv, Drained
               PROVE  /\ shownBalance = user_balance(Watcher)
                      /\ \A id \in Listed : Recent(id) => view[id] = into_payment(id)
    BY DEF ShowsTheLedger
  <2>1. /\ conn = "live" /\ Len(inbox) = 0 /\ handler # "fee"
        /\ balanceFeed[Watcher] = user_balance(Watcher)
    BY FeedConstants DEF Drained, DbFree, Ledger, FeedCurrent
  <2>2. shownBalance = balanceFeed[Watcher]
    BY <2>1 DEF ViewInv, BalanceFollows
  <2>3. OnItsWay = {} /\ \A id \in SendIds : ~Settling(id)
    BY <2>1, NoneSettles DEF OnItsWay
  <2>4. ASSUME NEW id \in Listed, Recent(id) PROVE view[id] = into_payment(id)
    BY <2>1, <2>3, <2>4 DEF ViewInv, RecentFollows, Listed
  <2> QED
    BY <2>1, <2>2, <2>4
<1> QED
  BY <1>1, LedgerInvariant, FeedTypeInvariant, ViewInvariant, PTL
=============================================================================
