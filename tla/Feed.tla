-------------------------------- MODULE Feed --------------------------------
(***************************************************************************)
(* What one user's client is shown: module Payments composed with the      *)
(* client's connection to the event bus.  Every step of the daemon that    *)
(* changes the ledger also sends AppEvents on the bus (events.rs); the     *)
(* connection subscribes, reads a snapshot of balance and payments under   *)
(* the database mutex (client/mod.rs events, client/db.rs user_payments),  *)
(* and passes on what the bus holds from the subscription on.  The         *)
(* application keeps the payments it was told of, by id.                   *)
(*                                                                         *)
(* Permits, credit and lag of connections are in module Sessions; here a   *)
(* connection is up or lost, and is one that the daemon serves.            *)
(***************************************************************************)
EXTENDS Payments

CONSTANTS
  Watcher,          \* the user whose client is modelled
  SnapshotLimit,    \* payments in a snapshot (50 in the code)
  MaxClock,         \* bound: different times at which rows are stamped
  MaxConnects       \* bound: times the client connects

ASSUME FeedConstants ==
  /\ Watcher \in Users
  /\ {SnapshotLimit, MaxClock, MaxConnects} \subseteq Nat

(* A payment as a client sees it (puncture-client-core Payment).           *)
Kinds == {"send", "receive"}
Payment == [kind : Kinds, amount : Int, fee : Nat,
            status : {"pending", "successful", "failed"}]

ASSUME NullIsNoPayment == NULL \notin Payment

VARIABLES
  clock,      \* created_at of the row stamped last
  created,    \* created_at of the watcher's row of each id
  conn,       \* the connection: "down", "subscribed", "live"
  inbox,      \* AppEvents on their way to the client
  shownBalance, view,   \* what the application shows
  atConnect,  \* history: the watcher's payments when the client connected
  announced,  \* history: live Payment events of each id on this connection
  connects

session == <<conn, inbox, shownBalance, view, atConnect, announced, connects>>
feedVars == <<vars, clock, created, session>>

(* The watcher's payment `id` as a client sees it, or NULL.  No user has a *)
(* send row and a receive row of the same id (TransfersPaired).            *)
into_payment(id) ==
  IF send[id] # NULL /\ send[id].user = Watcher
    THEN [kind |-> "send", amount |-> send[id].amount, fee |-> send[id].fee,
          status |-> send[id].status]
  ELSE IF id \in Ids /\ receive[id] # NULL /\ receive[id].user = Watcher
    THEN [kind |-> "receive", amount |-> receive[id].amount, fee |-> 0,
          status |-> "successful"]
  ELSE NULL

Listed == {id \in SendIds : into_payment(id) # NULL}
Table(kind) == {id \in Listed : into_payment(id).kind = kind}

BalanceEvent(a) == [type |-> "balance", amount |-> a]
PaymentEvent(id, payment, live) ==
  [type |-> "payment", id |-> id, payment |-> payment, is_live |-> live]
UpdateEvent(id, status, fee) ==
  [type |-> "update", id |-> id, status |-> status, fee |-> fee]

FeedInit ==
  /\ Init
  /\ clock = 0 /\ created = [id \in SendIds |-> 0]
  /\ conn = "down" /\ inbox = <<>>
  /\ shownBalance = 0 /\ view = [id \in SendIds |-> NULL]
  /\ atConnect = {} /\ announced = [id \in SendIds |-> 0]
  /\ connects = 0

-----------------------------------------------------------------------------
(* The snapshot.                                                           *)

(* ORDER BY created_at DESC LIMIT n: rows of equal time come in any order. *)
Newest(rows, n) ==
  {T \in SUBSET rows :
     /\ Cardinality(T) = IF Cardinality(rows) < n THEN Cardinality(rows) ELSE n
     /\ \A t \in T, r \in rows \ T : created[t] >= created[r]}

(* sort_by_key is stable and receives precede sends in the concatenation.  *)
Before(a, b) ==
  \/ created[a] < created[b]
  \/ /\ created[a] = created[b]
     /\ into_payment(a).kind = "receive" \/ into_payment(b).kind = "send"

SortedSeqs(rows) ==
  {q \in [1..Cardinality(rows) -> rows] :
     \A i, j \in DOMAIN q : i < j => q[i] # q[j] /\ Before(q[i], q[j])}

(* Faulty variant: the sorted list is cut at the wrong end.                *)
split_off_front(q) ==
  SubSeq(q, 1, IF Len(q) < SnapshotLimit THEN Len(q) ELSE SnapshotLimit)

split_off(q) ==
  SubSeq(q, IF Len(q) > SnapshotLimit THEN Len(q) - SnapshotLimit + 1 ELSE 1,
         Len(q))

user_payments ==
  {split_off(q) : q \in UNION {SortedSeqs(r \cup s) :
                                 r \in Newest(Table("receive"), SnapshotLimit),
                                 s \in Newest(Table("send"), SnapshotLimit)}}

Snapshot(q) ==
  <<BalanceEvent(user_balance(Watcher))>>
    \o [i \in DOMAIN q |-> PaymentEvent(q[i], into_payment(q[i]), FALSE)]

-----------------------------------------------------------------------------
(* The bus.  Every event reaches the watcher's connection, if there is one *)
(* from its subscription on.                                               *)

SendEvents(evs) ==
  IF conn = "down" THEN UNCHANGED inbox ELSE inbox' = inbox \o evs

(* A row is stamped with unix_time, in milliseconds, in which several rows *)
(* can be written: it is as old as the last one or newer.                  *)
Stamp(id) ==
  IF into_payment(id) = NULL /\ into_payment(id)' # NULL
    THEN \E t \in {clock, clock + 1} :
           /\ t <= MaxClock
           /\ clock' = t /\ created' = [created EXCEPT ![id] = t]
    ELSE UNCHANGED <<clock, created>>

QuietSession == UNCHANGED <<conn, shownBalance, view, atConnect, connects>>

(* push_events: the balance and the payment, which is live.                *)
Announce(id) ==
  /\ Stamp(id)
  /\ IF into_payment(id)' # NULL
       THEN /\ SendEvents(<<BalanceEvent(balanceFeed[Watcher]'),
                            PaymentEvent(id, into_payment(id)', TRUE)>>)
            /\ announced' = IF conn = "down" THEN announced
                            ELSE [announced EXCEPT ![id] = @ + 1]
       ELSE UNCHANGED <<inbox, announced>>
  /\ QuietSession

Unannounced ==
  QuietSession /\ UNCHANGED <<clock, created, inbox, announced>>

-----------------------------------------------------------------------------
(* The daemon's steps with the events they send.                           *)

TransferAnnounced(u) ==
  /\ \/ \E a \in SendAmounts, id \in Ids :
          bolt11_send_internal(u, id, a) \/ bolt12_send_internal(u, id, a)
     \/ \E v \in Users : recover(u, v)
  /\ \E id \in {Fresh} : Announce(id)

InsertAnnounced ==
  /\ create_send_payment
  /\ \E id \in {rpc.id} : Announce(id)

(* The event is sent for a receipt that had been credited before, too: a   *)
(* delivery after a crash repeats it.                                      *)
ReceiptAnnounced ==
  /\ payment_received
  /\ \E id \in {NextEvent.id} : Announce(id)

(* send_balance_event and send_update_event.                               *)
OutcomeAnnounced ==
  /\ update_send_fee
  /\ QuietSession /\ UNCHANGED <<clock, created, announced>>
  /\ \E id \in {NextEvent.id} :
       IF send[id].user = Watcher
         THEN SendEvents(<<BalanceEvent(balanceFeed[Watcher]'),
                           UpdateEvent(id, send[id].status, send'[id].fee)>>)
         ELSE UNCHANGED inbox

(* Steps that publish nothing.  Expiries are left out: with an invoice or  *)
(* a recovery code that has expired less can happen and, below the limit   *)
(* of pending invoices, never more.                                        *)
Unpublished ==
  /\ \/ \E u \in Users :
          \/ \E a \in SendAmounts :
               \/ \E pr \in ExtInvoices : bolt11_send_external(u, pr, a)
               \/ \E d \in OfferDescribed : bolt12_send_external(u, a, d)
          \/ \E s \in OnchainSats, f \in OnchainFees : onchain_send(u, s, f)
          \/ ClientReceives(u)
          \/ create_recovery(u)
     \/ HandlerPanics
     \/ update_send_status \/ payment_not_found \/ event_handled
     \/ \E id \in SendIds : NodeSettles(id)
     \/ \E id \in Ids : NodeReceives(id)
  /\ Unannounced

(* What was on its way is lost; what the application shows stays.          *)
Disconnected ==
  /\ conn' = "down" /\ inbox' = <<>>
  /\ atConnect' = {} /\ announced' = [id \in SendIds |-> 0]

(* Connections and the bus go with the process.                            *)
DaemonCrashes ==
  /\ Crash
  /\ Disconnected
  /\ UNCHANGED <<clock, created, shownBalance, view, connects>>

-----------------------------------------------------------------------------
(* The connection, client/mod.rs events and drive_connection.              *)

subscribe_to_events ==
  /\ conn = "down" /\ connects < MaxConnects
  /\ conn' = "subscribed" /\ connects' = connects + 1
  /\ atConnect' = Listed
  /\ UNCHANGED <<vars, clock, created, inbox, shownBalance, view, announced>>

(* The bus follows the snapshot, with what it sent since the subscription. *)
ChainAfter(snapshot, sent) == snapshot \o sent

take_snapshot ==
  /\ conn = "subscribed" /\ DbFree
  /\ conn' = "live"
  /\ \E q \in user_payments : inbox' = ChainAfter(Snapshot(q), inbox)
  /\ UNCHANGED <<vars, clock, created, shownBalance, view, atConnect, announced,
                 connects>>

ConnectionLost ==
  /\ conn # "down"
  /\ Disconnected
  /\ UNCHANGED <<vars, clock, created, shownBalance, view, connects>>

(* The application: a Payment event adds or replaces, an Update event      *)
(* changes a payment it knows.                                             *)
Applied(ev) ==
  CASE ev.type = "payment" -> [view EXCEPT ![ev.id] = ev.payment]
    [] ev.type = "update" /\ view[ev.id] # NULL ->
         [view EXCEPT ![ev.id].status = ev.status, ![ev.id].fee = ev.fee]
    [] OTHER -> view

accept_event ==
  /\ conn = "live" /\ inbox # <<>>
  /\ inbox' = Tail(inbox)
  /\ view' = Applied(Head(inbox))
  /\ shownBalance' = IF Head(inbox).type = "balance" THEN Head(inbox).amount
                     ELSE shownBalance
  /\ UNCHANGED <<vars, clock, created, conn, atConnect, announced, connects>>

FeedNext ==
  \/ \E u \in Users : TransferAnnounced(u)
  \/ InsertAnnounced \/ ReceiptAnnounced \/ OutcomeAnnounced
  \/ Unpublished
  \/ DaemonCrashes
  \/ subscribe_to_events \/ take_snapshot \/ ConnectionLost \/ accept_event

FeedSpec == FeedInit /\ [][FeedNext]_feedVars

-----------------------------------------------------------------------------
(* Properties.                                                             *)

Drained == conn = "live" /\ inbox = <<>> /\ DbFree

(* Fewer than SnapshotLimit other payments are as new or newer.            *)
Recent(id) ==
  Cardinality({d \in Listed \ {id} : created[d] >= created[id]}) < SnapshotLimit

(* A client that has read everything on its connection shows the balance   *)
(* and every recent payment as they are stored, whatever it missed before: *)
(* settlements while it was away, the answer to its own request, events    *)
(* between subscription and snapshot, a crash and what was delivered again *)
(* after it (client/mod.rs events, client/db.rs user_payments, main.rs).   *)
ShowsTheLedger ==
  Drained =>
    /\ shownBalance = user_balance(Watcher)
    /\ \A id \in Listed : Recent(id) => view[id] = into_payment(id)

(* On one connection a payment is announced as live at most once, so that  *)
(* an application that notifies its user of live payments does so once     *)
(* (main.rs process_ldk_event, client/rpc.rs push_events).                 *)
AnnouncedOnce == \A id \in SendIds : announced[id] <= 1

(* "Wether the payment was processed after the client connected"           *)
(* (puncture-client-core/src/lib.rs, Payment::is_live): a payment sent as  *)
(* live was not there when the client connected.                           *)
LiveMeansAfterConnect ==
  \A i \in DOMAIN inbox :
    inbox[i].type = "payment" /\ inbox[i].is_live => inbox[i].id \notin atConnect
=============================================================================
