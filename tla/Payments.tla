------------------------------ MODULE Payments ------------------------------
(***************************************************************************)
(* The payment ledger of the Puncture daemon: the SQLite tables send,      *)
(* receive, invoice and offer (puncture-daemon/src/db.rs and client/db.rs),*)
(* the client handlers that write them (client/rpc.rs), and the task that  *)
(* applies the LDK node's events to them (main.rs).                        *)
(*                                                                         *)
(* One tokio mutex guards the SQLite connection, and a handler keeps it    *)
(* from its first query to its last.  Handlers are therefore atomic with   *)
(* respect to each other, with one exception that matters: the LDK node is *)
(* not behind that mutex.  A handler that pays through the node is two     *)
(* steps (the node accepts, the row is inserted); between them the payment *)
(* may already settle, the daemon may crash, or the handler may panic.     *)
(* The two UPDATEs of update_send_status are two steps too: each commits   *)
(* on its own.                                                             *)
(*                                                                         *)
(* Amounts are in millisatoshis, as in the code.                           *)
(***************************************************************************)
EXTENDS Integers, Sequences, FiniteSets, Functions

CONSTANTS
  Users,            \* registered users (user_pk)
  ExtInvoices,      \* payment hashes of BOLT11 invoices of other nodes
  OfferDescribed,   \* subset of BOOLEAN: do external offers carry a description
  InvoiceAmounts,   \* amounts users ask for in invoices
  ReceiveAmounts,   \* amounts remote payers pay
  SendAmounts,      \* amounts clients send over Lightning
  OnchainSats,      \* amounts of on-chain withdrawals, in satoshis
  InvoiceOwners, OfferOwners,   \* users who ask to be paid
  RecoveryUsers,    \* users the operator hands out recovery codes for
  RoutingFees,      \* fees the node may end up paying for a Lightning payment
  OnchainFees,      \* miner fees of a withdrawal
  min_amount_sats, max_amount_sats, fee_ppm, base_fee_msat,
  onchain_base_fee_msat, max_pending_payments_per_user,   \* struct Args
  U64,              \* number of values of an unsigned word, an even number
  MaxIds,           \* bound: random 32-byte ids drawn in a behaviour
  MaxRetries,       \* bound: times an invoice is paid again after it failed
  MaxCrashes,       \* bound: crashes in a behaviour
  NULL              \* no row, no payment, no task

ASSUME PaymentsConstants ==
  /\ IsFiniteSet(Users) /\ IsFiniteSet(ExtInvoices)
  /\ InvoiceAmounts \subseteq Nat /\ ReceiveAmounts \subseteq Nat
  /\ SendAmounts \subseteq Nat /\ OnchainSats \subseteq Nat
  /\ InvoiceOwners \subseteq Users /\ OfferOwners \subseteq Users
  /\ RecoveryUsers \subseteq Users
  /\ RoutingFees \subseteq Nat /\ OnchainFees \subseteq Nat
  /\ OfferDescribed \subseteq BOOLEAN
  /\ {min_amount_sats, max_amount_sats, fee_ppm, base_fee_msat,
      onchain_base_fee_msat, max_pending_payments_per_user,
      MaxIds, MaxRetries, MaxCrashes} \subseteq Nat
  /\ U64 \in Nat \ {0}
  /\ ExtInvoices \cap Nat = {}

(***************************************************************************)
(* Ids.  Payment hashes and offer ids of our own requests, transfer ids,   *)
(* BOLT12 payment ids and txids are random 32-byte strings: the n-th one   *)
(* drawn is the number n.  A BOLT11 payment of the node is identified by   *)
(* the payment hash of the invoice it pays.                                *)
(***************************************************************************)
Ids == 1..MaxIds
SendIds == Ids \cup ExtInvoices

SendRow == [user : Users, amount : Int, fee : Nat,
            status : {"pending", "successful", "failed"}]
ReceiveRow == [user : Users, amount : Int]
InvoiceRow == [user : Users, amount : Nat]
OfferRow == [user : Users]
(* What the node knows of a payment it makes, and of one it received;      *)
(* `user` is not known to the node: it records who asked for the payment.  *)
OutPayment == [user : Users, amount : Nat, fee : Nat,
               status : {"inflight", "succeeded", "failed", "broadcast"}]
InPayment == [to : Ids, amount : Nat]
Event == [type : {"received", "successful", "failed"}, id : SendIds, fee : Nat]
Task == [id : SendIds, row : SendRow, described : BOOLEAN]

ASSUME NullIsNoRecord ==
  NULL \notin SendRow \cup ReceiveRow \cup InvoiceRow \cup OfferRow
              \cup OutPayment \cup InPayment \cup Task

VARIABLES
  send, receive, invoice, offer,   \* tables, keyed by their primary key
  recovery,     \* users for whom an unexpired recovery code exists
  expired,      \* invoices whose expires_at has passed
  minted,       \* number of random ids drawn so far
  out, claimed, \* the LDK node: payments made and payments received
  events,       \* the LDK node's persistent queue of unhandled events
  rpc,          \* the handler between the node's answer and its INSERT, or NULL
  handler,      \* process_ldk_events: "idle", "fee" between the two UPDATEs,
                \* "applied" before event_handled
  balanceFeed,  \* amount of the last Balance event each user was sent
  sendFeed,     \* each outgoing payment as last shown to its user
  retries, crashes

tables == <<send, receive, invoice, offer, recovery, expired>>
node == <<out, claimed>>
feed == <<balanceFeed, sendFeed>>
counters == <<retries, crashes>>
vars == <<send, receive, invoice, offer, recovery, expired, minted, out,
          claimed, events, rpc, handler, balanceFeed, sendFeed, retries,
          crashes>>

(* Every table, queue and feed holds records of the right shape: no stored *)
(* fee is negative, and ids are ids that were drawn (models.rs).           *)
TypeOK ==
  /\ send \in [SendIds -> SendRow \cup {NULL}]
  /\ receive \in [Ids -> ReceiveRow \cup {NULL}]
  /\ invoice \in [Ids -> InvoiceRow \cup {NULL}]
  /\ offer \in [Ids -> OfferRow \cup {NULL}]
  /\ recovery \subseteq Users
  /\ expired \subseteq Ids
  /\ minted \in 0..MaxIds
  /\ out \in [SendIds -> OutPayment \cup {NULL}]
  /\ claimed \in [Ids -> InPayment \cup {NULL}]
  /\ events \in Seq(Event)
  /\ rpc \in Task \cup {NULL}
  /\ handler \in {"idle", "fee", "applied"}
  /\ balanceFeed = [u \in Users |-> balanceFeed[u]]
  /\ sendFeed \in [SendIds -> SendRow \cup {NULL}]
  /\ retries \in 0..MaxRetries /\ crashes \in 0..MaxCrashes

Init ==
  /\ send = [id \in SendIds |-> NULL] /\ receive = [id \in Ids |-> NULL]
  /\ invoice = [id \in Ids |-> NULL] /\ offer = [id \in Ids |-> NULL]
  /\ recovery = {} /\ expired = {} /\ minted = 0
  /\ out = [id \in SendIds |-> NULL] /\ claimed = [id \in Ids |-> NULL]
  /\ events = <<>> /\ rpc = NULL /\ handler = "idle"
  /\ balanceFeed = [u \in Users |-> 0]
  /\ sendFeed = [id \in SendIds |-> NULL]
  /\ retries = 0 /\ crashes = 0

-----------------------------------------------------------------------------
(* Queries.                                                                *)

(* Faulty variant: a handler gives the connection back to call the node.   *)
DbFree_early_release == handler # "fee"

(* The SQLite connection is free: nobody is inside get_connection's guard. *)
DbFree == rpc = NULL /\ handler # "fee"

Fresh == minted + 1
CanMint == minted < MaxIds

Credits(u) ==
  SumFunction([id \in Ids |->
    IF receive[id] # NULL /\ receive[id].user = u THEN receive[id].amount ELSE 0])

(* Faulty variants: pending rows do not count; the fee is forgotten.       *)
Counts_settled(row) == row.status = "successful"
Charge_without_fee(row) == row.amount

(* Rows of a failed payment no longer count; pending ones hold their       *)
(* amount and the fee set aside for them.                                  *)
Counts(row) == row.status # "failed"
Charge(row) == row.amount + row.fee

Debits(u) ==
  SumFunction([id \in SendIds |->
    IF send[id] # NULL /\ send[id].user = u /\ Counts(send[id])
    THEN Charge(send[id]) ELSE 0])

RawBalance(u) == Credits(u) - Debits(u)

(* `receive_sum.saturating_sub(send_sum) as u64`: i64 subtraction, then a  *)
(* cast that keeps the bits, so a negative balance becomes a huge one.     *)
user_balance(u) == RawBalance(u) % U64

(* `as i64` of an unsigned word.                                           *)
AsI64(n) == IF n >= U64 \div 2 THEN n - U64 ELSE n

count_pending_sends(u) ==
  Cardinality({id \in SendIds : /\ send[id] # NULL
                                /\ send[id].user = u
                                /\ send[id].status = "pending"})

(* Invoices that have not expired and have no receive row of the same id.  *)
count_pending_invoices(u) ==
  Cardinality({id \in Ids : /\ invoice[id] # NULL
                            /\ invoice[id].user = u
                            /\ id \notin expired
                            /\ receive[id] = NULL})

check_amount_bounds(a) ==
  a >= min_amount_sats * 1000 /\ a <= max_amount_sats * 1000

fee_msat(a) == (a * fee_ppm) \div 1000000 + base_fee_msat

check_send(u, a) ==
  /\ count_pending_sends(u) < max_pending_payments_per_user
  /\ check_amount_bounds(a)
  /\ user_balance(u) >= a
  /\ user_balance(u) >= a + fee_msat(a)

-----------------------------------------------------------------------------
(* Writes shared by the handlers.                                          *)

(* push_events for the users in S: their balances are queried after the    *)
(* rows are written.                                                       *)
PublishBalances(S) ==
  balanceFeed' = [u \in Users |-> IF u \in S THEN user_balance(u)'
                                             ELSE balanceFeed[u]]

(* Faulty variant: only the payer is told.                                 *)
TransferAudience_payer(from, to) == {from}

(* A transfer is published to both of its users.                           *)
TransferAudience(from, to) == {from, to}

create_internal_transfer(from, to, amount, fee) ==
  /\ CanMint
  /\ minted' = Fresh
  /\ send' = [send EXCEPT ![Fresh] =
                [user |-> from, amount |-> amount, fee |-> fee,
                 status |-> "successful"]]
  /\ receive' = [receive EXCEPT ![Fresh] = [user |-> to, amount |-> amount]]
  /\ sendFeed' = [sendFeed EXCEPT ![Fresh] = send'[Fresh]]
  /\ PublishBalances(TransferAudience(from, to))
  /\ UNCHANGED <<invoice, offer, recovery, expired, node, events, rpc,
                 handler, counters>>

(* The node has accepted payment `id` that user u asked for: the handler   *)
(* keeps the connection and goes on to insert the row.                     *)
NodeAccepts(id, u, amount, fee, rowStatus, outStatus, paid, described) ==
  /\ out' = [out EXCEPT ![id] = [user |-> u, amount |-> amount, fee |-> paid,
                                 status |-> outStatus]]
  /\ rpc' = [id |-> id, described |-> described,
             row |-> [user |-> u, amount |-> amount, fee |-> fee,
                      status |-> rowStatus]]
  /\ UNCHANGED <<tables, claimed, events, handler, feed, crashes>>

-----------------------------------------------------------------------------
(* Client handlers, client/rpc.rs.                                         *)

bolt11_receive(u, a) ==
  /\ DbFree /\ CanMint
  /\ u \in InvoiceOwners
  /\ count_pending_invoices(u) < max_pending_payments_per_user
  /\ check_amount_bounds(a)
  /\ minted' = Fresh
  /\ invoice' = [invoice EXCEPT ![Fresh] = [user |-> u, amount |-> a]]
  /\ UNCHANGED <<send, receive, offer, recovery, expired, node, events, rpc,
                 handler, feed, counters>>

(* A user's offer is reused for a day and then replaced by a new one; the  *)
(* old one stays in the table.  Offers are created without an amount.      *)
bolt12_receive(u) ==
  /\ DbFree /\ CanMint
  /\ u \in OfferOwners
  /\ minted' = Fresh
  /\ offer' = [offer EXCEPT ![Fresh] = [user |-> u]]
  /\ UNCHANGED <<send, receive, invoice, recovery, expired, node, events, rpc,
                 handler, feed, counters>>

(* The invoice is one of ours: the transfer never leaves the database and  *)
(* costs a flat 1000 msat.  Neither the invoice's expiry nor an earlier    *)
(* payment of it is checked.                                               *)
bolt11_send_internal(u, inv, a) ==
  /\ DbFree
  /\ check_send(u, a)
  /\ invoice[inv] # NULL
  /\ invoice[inv].user # u
  /\ invoice[inv].amount <= a
  /\ create_internal_transfer(u, invoice[inv].user, a, 1000)

bolt12_send_internal(u, off, a) ==
  /\ DbFree
  /\ check_send(u, a)
  /\ offer[off] # NULL
  /\ offer[off].user # u
  /\ create_internal_transfer(u, offer[off].user, a, 1000)

(* The node refuses an invoice it is paying or has paid, and takes one     *)
(* whose payment failed as if it were new.                                 *)
bolt11_send_external(u, pr, a) ==
  /\ DbFree
  /\ check_send(u, a)
  /\ \/ out[pr] = NULL /\ UNCHANGED retries
     \/ /\ out[pr] # NULL /\ out[pr].status = "failed"
        /\ retries < MaxRetries /\ retries' = retries + 1
  /\ NodeAccepts(pr, u, a, fee_msat(a), "pending", "inflight", 0, TRUE)
  /\ UNCHANGED minted

bolt12_send_external(u, a, described) ==
  /\ DbFree /\ CanMint
  /\ check_send(u, a)
  /\ minted' = Fresh /\ UNCHANGED retries
  /\ NodeAccepts(Fresh, u, a, fee_msat(a), "pending", "inflight", 0, described)

(* No bound but the 1000 sat minimum applies; the row is successful from   *)
(* the start and the node reports nothing further about the withdrawal.    *)
onchain_send(u, sats, paid) ==
  /\ DbFree /\ CanMint
  /\ sats >= 1000
  /\ user_balance(u) >= sats * 1000
  /\ user_balance(u) >= sats * 1000 + onchain_base_fee_msat
  /\ minted' = Fresh /\ UNCHANGED retries
  /\ NodeAccepts(Fresh, u, sats * 1000, onchain_base_fee_msat, "successful",
                 "broadcast", paid, TRUE)

(* Faulty variant: it also unwraps the ln_address a withdrawal never has.  *)
Panics_onchain ==
  ~rpc.described \/ send[rpc.id] # NULL \/ rpc.row.status = "successful"

(* The second half of the three handlers above.  It panics, with the mutex *)
(* released and the payment on its way, when an external offer has no      *)
(* description (`offer.description().unwrap()`) or when the INSERT meets a *)
(* row of the same id.                                                     *)
Panics == ~rpc.described \/ send[rpc.id] # NULL

create_send_payment ==
  /\ rpc # NULL
  /\ ~Panics
  /\ send' = [send EXCEPT ![rpc.id] = rpc.row]
  /\ sendFeed' = [sendFeed EXCEPT ![rpc.id] = rpc.row]
  /\ rpc' = NULL
  /\ UNCHANGED <<receive, invoice, offer, recovery, expired, minted, node,
                 events, handler, counters>>
  /\ PublishBalances({rpc.row.user})

HandlerPanics ==
  /\ rpc # NULL
  /\ Panics
  /\ rpc' = NULL
  /\ UNCHANGED <<tables, minted, node, events, handler, feed, counters>>

(* The operator hands out a code for user v (cli/db.rs, ui/db.rs), and     *)
(* until it expires any other user moves v's whole balance with it, as     *)
(* often as there is a balance.                                            *)
create_recovery(v) ==
  /\ DbFree
  /\ v \in RecoveryUsers \ recovery
  /\ recovery' = recovery \cup {v}
  /\ UNCHANGED <<send, receive, invoice, offer, expired, minted, node, events,
                 rpc, handler, feed, counters>>

(* Faulty variant: a user may recover the own account.                     *)
MayRecover_own(u, v) == v \in recovery

MayRecover(u, v) == v \in recovery /\ u # v

recover(u, v) ==
  /\ DbFree
  /\ MayRecover(u, v)
  /\ user_balance(v) \in 1..(U64 - 1)
  /\ create_internal_transfer(v, u, AsI64(user_balance(v)), 0)

-----------------------------------------------------------------------------
(* Applying the node's events, main.rs.  The loop takes the head of the    *)
(* queue, applies it, and only then tells the node that it is handled, so  *)
(* an event the daemon crashed on is delivered again.                      *)

NextEvent == events[1]

(* Faulty variants: a payment of an invoice that has expired by now is not *)
(* taken from the queue; a failed payment is not.                          *)
Deliver_unexpired(type) ==
  /\ handler = "idle" /\ events # <<>> /\ NextEvent.type = type
  /\ NextEvent.id \notin expired
Deliver_no_failures(type) ==
  /\ handler = "idle" /\ events # <<>> /\ NextEvent.type = type
  /\ type # "failed"

Deliver(type) == handler = "idle" /\ events # <<>> /\ NextEvent.type = type

(* The user whose invoice or offer the received payment paid.              *)
PayeeRow(to) == IF invoice[to] # NULL THEN invoice[to] ELSE offer[to]

(* Faulty variant: a conflicting row is credited again.                    *)
create_receive_payment_again(id, row) ==
  receive' = [receive EXCEPT ![id] =
                IF @ = NULL THEN row ELSE [@ EXCEPT !.amount = @ + row.amount]]

(* INSERT ... ON CONFLICT DO NOTHING.                                      *)
create_receive_payment(id, row) ==
  receive' = [receive EXCEPT ![id] = IF @ = NULL THEN row ELSE @]

payment_received ==
  /\ DbFree /\ Deliver("received")
  /\ LET id == NextEvent.id
         payee == PayeeRow(claimed[id].to).user
     IN /\ create_receive_payment(id, [user |-> payee,
                                       amount |-> claimed[id].amount])
        /\ UNCHANGED send
        /\ PublishBalances({payee})
  /\ handler' = "applied"
  /\ UNCHANGED <<invoice, offer, recovery, expired, minted, node, events, rpc,
                 sendFeed, counters>>

(* First UPDATE: the status.                                               *)
update_send_status ==
  /\ DbFree
  /\ Deliver("successful") \/ Deliver("failed")
  /\ send[NextEvent.id] # NULL
  /\ send' = [send EXCEPT ![NextEvent.id].status = NextEvent.type]
  /\ handler' = "fee"
  /\ UNCHANGED <<receive, invoice, offer, recovery, expired, minted, node,
                 events, rpc, feed, counters>>

(* Faulty variants: the fee set aside is kept, or the fee paid is added to *)
(* it, or the difference is stored.                                        *)
FeeRecorded_reserved(row, paid) == row.fee
FeeRecorded_added(row, paid) == row.fee + paid
FeeRecorded_difference(row, paid) == row.fee - paid

FeeRecorded(row, paid) == paid

(* Second UPDATE: the fee paid, 0 for a failed payment.  Then the Balance  *)
(* and Update events are sent and the connection is released.              *)
update_send_fee ==
  /\ handler = "fee"
  /\ LET id == NextEvent.id
     IN /\ send' = [send EXCEPT ![id].fee = FeeRecorded(send[id], NextEvent.fee)]
        /\ sendFeed' = [sendFeed EXCEPT ![id] = send'[id]]
        /\ UNCHANGED receive
        /\ PublishBalances({send[id].user})
  /\ handler' = "applied"
  /\ UNCHANGED <<invoice, offer, recovery, expired, minted, node, events, rpc,
                 counters>>

(* The outcome of a payment that has no row: an error is logged and the    *)
(* event counts as handled all the same.                                   *)
payment_not_found ==
  /\ DbFree
  /\ Deliver("successful") \/ Deliver("failed")
  /\ send[NextEvent.id] = NULL
  /\ handler' = "applied"
  /\ UNCHANGED <<tables, minted, node, events, rpc, feed, counters>>

(* Faulty variant: the node is not told, and delivers the event again.     *)
event_handled_kept ==
  /\ handler = "applied"
  /\ handler' = "idle"
  /\ UNCHANGED <<events, tables, minted, node, rpc, feed, counters>>

event_handled ==
  /\ handler = "applied"
  /\ events' = Tail(events)
  /\ handler' = "idle"
  /\ UNCHANGED <<tables, minted, node, rpc, feed, counters>>

-----------------------------------------------------------------------------
(* The LDK node and the clock.  The node settles payments and claims       *)
(* inbound ones whenever it likes, whoever holds the connection.           *)

Emit(type, id, fee) ==
  events' = Append(events, [type |-> type, id |-> id, fee |-> fee])

NodePays(id, fee) ==
  /\ out[id] # NULL /\ out[id].status = "inflight"
  /\ out' = [out EXCEPT ![id].status = "succeeded", ![id].fee = fee]
  /\ Emit("successful", id, fee)
  /\ UNCHANGED <<tables, minted, claimed, rpc, handler, feed, counters>>

NodeGivesUp(id) ==
  /\ out[id] # NULL /\ out[id].status = "inflight"
  /\ out' = [out EXCEPT ![id].status = "failed"]
  /\ Emit("failed", id, 0)
  /\ UNCHANGED <<tables, minted, claimed, rpc, handler, feed, counters>>

(* An invoice is paid at most once, in full or more, before it expires.    *)
NodeReceivesInvoice(inv, a) ==
  /\ invoice[inv] # NULL /\ invoice[inv].amount <= a
  /\ inv \notin expired
  /\ claimed[inv] = NULL
  /\ claimed' = [claimed EXCEPT ![inv] = [to |-> inv, amount |-> a]]
  /\ Emit("received", inv, 0)
  /\ UNCHANGED <<tables, minted, out, rpc, handler, feed, counters>>

(* An offer is paid any number of times, each under a new payment hash.    *)
NodeReceivesOffer(off, a) ==
  /\ CanMint
  /\ offer[off] # NULL
  /\ minted' = Fresh
  /\ claimed' = [claimed EXCEPT ![Fresh] = [to |-> off, amount |-> a]]
  /\ Emit("received", Fresh, 0)
  /\ UNCHANGED <<tables, out, rpc, handler, feed, counters>>

InvoiceExpires(inv) ==
  /\ invoice[inv] # NULL /\ inv \notin expired
  /\ expired' = expired \cup {inv}
  /\ UNCHANGED <<send, receive, invoice, offer, recovery, minted, node, events,
                 rpc, handler, feed, counters>>

RecoveryExpires(v) ==
  /\ v \in recovery
  /\ recovery' = recovery \ {v}
  /\ UNCHANGED <<send, receive, invoice, offer, expired, minted, node, events,
                 rpc, handler, feed, counters>>

(* The process dies and is started again.  SQLite and the node's storage   *)
(* survive; the handler's place and the event loop's do not.  Clients      *)
(* connect again and are sent a snapshot (client/mod.rs, events).          *)
Crash ==
  /\ crashes < MaxCrashes
  /\ crashes' = crashes + 1
  /\ rpc' = NULL
  /\ handler' = "idle"
  /\ balanceFeed' = [u \in Users |-> user_balance(u)]
  /\ sendFeed' = send
  /\ UNCHANGED <<tables, minted, node, events, retries>>

-----------------------------------------------------------------------------
ClientSends(u) ==
  \/ \E a \in SendAmounts :
       \/ \E inv \in Ids : bolt11_send_internal(u, inv, a)
       \/ \E off \in Ids : bolt12_send_internal(u, off, a)
       \/ \E pr \in ExtInvoices : bolt11_send_external(u, pr, a)
       \/ \E d \in OfferDescribed : bolt12_send_external(u, a, d)
  \/ \E s \in OnchainSats, f \in OnchainFees : onchain_send(u, s, f)

ClientReceives(u) ==
  \/ \E a \in InvoiceAmounts : bolt11_receive(u, a)
  \/ bolt12_receive(u)

Recovery(u) ==
  \/ create_recovery(u)
  \/ RecoveryExpires(u)
  \/ \E v \in Users : recover(u, v)

HandlerEnds == create_send_payment \/ HandlerPanics

process_ldk_event == payment_received \/ update_send_status \/ payment_not_found

process_ldk_events == process_ldk_event \/ update_send_fee \/ event_handled

NodeSettles(id) == NodeGivesUp(id) \/ \E f \in RoutingFees : NodePays(id, f)

NodeReceives(id) ==
  \E a \in ReceiveAmounts : NodeReceivesInvoice(id, a) \/ NodeReceivesOffer(id, a)

Next ==
  \/ \E u \in Users : ClientSends(u) \/ ClientReceives(u) \/ Recovery(u)
  \/ HandlerEnds
  \/ process_ldk_events
  \/ \E id \in SendIds : NodeSettles(id)
  \/ \E id \in Ids : NodeReceives(id) \/ InvoiceExpires(id)
  \/ Crash

Spec == Init /\ [][Next]_vars

(***************************************************************************)
(* Fairness.  A handler runs to its end; the node eventually settles every *)
(* payment it accepted (its HTLCs time out); the event loop goes on.  The  *)
(* steps that wait for the connection get strong fairness: tokio's mutex   *)
(* serves waiters in order, so a task that keeps asking is served.         *)
(***************************************************************************)
Fairness ==
  /\ WF_vars(HandlerEnds)
  /\ \A id \in SendIds : WF_vars(NodeSettles(id))
  /\ SF_vars(process_ldk_event)
  /\ WF_vars(update_send_fee)
  /\ WF_vars(event_handled)

FairSpec == Spec /\ Fairness

-----------------------------------------------------------------------------
(* Properties.                                                             *)

(* An event of this payment is queued that has not been applied yet.       *)
Awaiting(id, types) ==
  \E i \in 1..Len(events) :
    /\ events[i].id = id
    /\ events[i].type \in types
    /\ ~(i = 1 /\ handler = "applied")

Outcomes == {"successful", "failed"}

(* The node is still trying, or has an outcome that will be applied.       *)
Resolving(id) ==
  \/ out[id] # NULL /\ out[id].status = "inflight"
  \/ Awaiting(id, Outcomes)

(* A row is pending only while the node is still trying or while the event *)
(* with the outcome waits to be applied: no interleaving of the insert,    *)
(* the settlement, event_handled and a crash leaves a payment pending that *)
(* nothing will ever settle.                                               *)
PendingHasOutcome ==
  \A id \in SendIds :
    send[id] # NULL /\ send[id].status = "pending" => Resolving(id)

(* Every payment the node received is credited, with its amount, to the    *)
(* owner of the invoice or offer, or its event waits to be applied:        *)
(* crediting is neither lost nor repeated when the daemon crashes between  *)
(* create_receive_payment and event_handled.                               *)
ReceiptsCredited ==
  \A id \in Ids :
    claimed[id] # NULL =>
      \/ receive[id] = [user |-> PayeeRow(claimed[id].to).user,
                        amount |-> claimed[id].amount]
      \/ receive[id] = NULL /\ Awaiting(id, {"received"})

(* Credit has a source and debit a destination: a receive row that is not  *)
(* a payment of the node is the other half of another user's successful    *)
(* send row of the same amount, and a send row the node knows nothing of   *)
(* is half of such a pair.                                                 *)
TransfersPaired ==
  /\ \A id \in Ids :
       receive[id] # NULL /\ claimed[id] = NULL =>
         /\ send[id] # NULL
         /\ send[id].status = "successful"
         /\ send[id].amount = receive[id].amount
         /\ send[id].user # receive[id].user
  /\ \A id \in SendIds :
       send[id] # NULL /\ out[id] = NULL => id \in Ids /\ receive[id] # NULL

(* Whenever the connection is free, the last Balance event of every user   *)
(* is that user's balance and every outgoing payment was last shown as it  *)
(* is stored: no handler changes money without publishing it.              *)
FeedCurrent ==
  DbFree => /\ \A u \in Users : balanceFeed[u] = user_balance(u)
            /\ sendFeed = send

(* The row of a payment of the node is its payer's and has its amount; it  *)
(* is pending, so that the money is set aside, as long as the payment is   *)
(* in flight; and once the outcome is applied it has the node's status and *)
(* fee.                                                                    *)
RowMatchesNode ==
  \A id \in SendIds :
    send[id] # NULL /\ out[id] # NULL =>
      /\ send[id].user = out[id].user
      /\ send[id].amount = out[id].amount
      /\ out[id].status = "inflight" => send[id].status = "pending"
      /\ ~Awaiting(id, Outcomes) =>
           /\ out[id].status = "failed" => send[id].status = "failed"
           /\ out[id].status = "succeeded" =>
                send[id].status = "successful" /\ send[id].fee = out[id].fee

(* Payments of the node without a row: the crash or the panic fell between *)
(* the node's answer and the INSERT.                                       *)
Orphans == {id \in SendIds : out[id] # NULL /\ send[id] = NULL}

(* Each crash costs the operator at most one unrecorded payment.           *)
OrphansBounded ==
  Cardinality(Orphans) <= crashes + (IF rpc # NULL THEN 1 ELSE 0)

(* No user's stored balance is negative: what a payment finally costs was  *)
(* always covered, whatever else the user did while it was pending.        *)
NoOverdraft == \A u \in Users : RawBalance(u) >= 0

(* What the node received, and what its recorded payments took, fees       *)
(* included.                                                               *)
Received ==
  SumFunction([id \in Ids |->
    IF claimed[id] # NULL THEN claimed[id].amount ELSE 0])

RecordedSpend ==
  SumFunction([id \in SendIds |->
    IF id \notin Orphans /\ out[id] # NULL /\ out[id].status # "failed"
    THEN out[id].amount + out[id].fee ELSE 0])

(* The balances of all users are covered by what the node received less    *)
(* what its recorded payments took: no sequence of transfers, failures and *)
(* settlements creates money (db.rs user_balance, update_send_status).     *)
Solvent ==
  SumFunction([u \in Users |-> RawBalance(u)]) <= Received - RecordedSpend

(* What users are shown is what they have.                                 *)
ReportedBalanceTrue == \A u \in Users : user_balance(u) = RawBalance(u)

(* `.expect("Failed to insert send payment")`: the INSERT of a payment the *)
(* node has accepted finds no row of its id.                               *)
InsertSucceeds == rpc # NULL => send[rpc.id] = NULL

(* A pending payment is eventually settled, whatever crashes come between. *)
SendsResolve ==
  \A id \in SendIds :
    (send[id] # NULL /\ send[id].status = "pending")
      ~> (send[id] # NULL /\ send[id].status # "pending")

(* A payment the node received is eventually credited.                     *)
ReceiptsResolve ==
  \A id \in Ids : claimed[id] # NULL ~> receive[id] # NULL
=============================================================================
