# Puncture: a verification project

Puncture is a multi-user Lightning wallet service. A daemon runs one LDK node
and keeps every user's account in a SQLite database; users connect with a
client library over iroh (QUIC); the operator administers the daemon through a
command line and a web page. This directory holds TLA+ models of the parts of
Puncture that decide whether users' money and views of it are right, TLC
configurations that check them on small instances, and TLAPS proofs.

Paths below are relative to the repository.

## 1. Inventory

| Part | State | Operations | Correct when |
|---|---|---|---|
| Ledger (`puncture-daemon/src/db.rs`, `client/db.rs`, `puncture-daemon-db`) | tables `send`, `receive`, `invoice`, `offer`; one connection behind a tokio mutex | queries, inserts, `update_send_status` | balances are never negative, money is neither created nor lost |
| Client handlers (`client/rpc.rs`) | none of their own; hold the mutex from first query to last | `bolt11_receive`, `bolt12_receive`, `bolt11_send`, `bolt12_send`, `onchain_send`, `recover`, `register`, `set_recovery_name` | what is checked still holds when the row is written |
| LDK node (external) | payments made and received, persistent event queue | accepts, settles, claims | - |
| Event loop (`main.rs`) | the event being applied | `process_ldk_event`, `event_handled` | each outcome and receipt is applied, once |
| Event bus, connections (`events.rs`, `client/mod.rs`) | broadcast channel, per-user connection counter, one task per connection | accept or refuse, open the feed, serve, stop, close | clients see the ledger as it is; permits are returned |
| Client library (`puncture-client`) | watch channel with the connection, table `daemon` | `reconnect`, `request`, `next_event`, `register`, `delete_daemon` | catches up after any loss |
| Invites, recovery codes (`cli/`, `ui/users.rs`, `ui/db.rs`) | tables `invite`, `user`, `recovery` | `user_invite`, `invite_submit`, `user_recover`, `recovery_submit` | limits and lifetimes are kept |
| Payment requests (`puncture-payment-request`) | none | two parsers, `resolve` | the amount paid is the amount agreed to |
| Node administration (`cli/rpc.rs`, `ui/onchain.rs`, `ui/lightning.rs`) | none of its own; the node's wallet, channels and peers | drain, send, open, close, connect, disconnect, request a channel from the LSP | channels keep their reserve; an ordered channel can be opened |
| Life of the process (`main.rs`, `puncture-core/src/secret.rs`) | the key file, four tasks, a cancellation token | start, SIGTERM, exit, crash | one identity for ever; a stop ends and cuts nothing in two |
| Web pages, argument parsing, codes, packaging | - | - | not modelled, section 8 |

How they interact. A client request runs inside the connection's task, which
writes no event meanwhile. A handler locks the database; if the payment leaves
the daemon it calls the node *while holding the lock* and then inserts the row.
The node is not behind the lock: it settles payments and queues events at any
time. The event loop takes an event, locks the database, applies it, publishes
`Balance`, `Payment` or `Update` on the bus, unlocks, and only then marks the
event as handled.

What is hard: the node acts concurrently with handlers; a crash may fall
between the node's answer and the insert, between two UPDATEs, or between an
effect and `event_handled` (events are then delivered again); handlers can
panic half way; connections are lost on either side first; a feed is opened
while the ledger changes; the node is stopped before the tasks that use it; the
two front ends of the operator check and act in separate steps. `PROJECT.json` lists these hazards at their lines.

## 2. Modules

| Module | Models | Role |
|---|---|---|
| `Wallet` | - | abstract specification: funds, holds, deposits, transfers |
| `Payments` | ledger, payment handlers, event loop, node | the core |
| `PaymentsWallet` | - | refinement mapping from `Payments` to `Wallet` |
| `PaymentsCovered` | the environment | `Payments` where what is set aside covers what a payment costs |
| `PaymentsProofs`, `CoveredProofs` | - | theorems about `Payments`, without and with the assumptions of `PaymentsCovered`; the laws of the sums in which balances are computed |
| `WalletProofs`, `FeedProofs`, `SessionsProofs`, `RegistrationProofs`, `PaymentRequestProofs` | - | theorems about the module of that name |
| `DaemonProofs` | - | theorems about `Daemon` and `Operator` |
| `Sessions` | bus, connections, client library's connection | |
| `Registration` | invites, users, recovery codes, client's daemon list | |
| `PaymentRequest` | parsers and LNURL resolution | |
| `Feed` | what a user's client is shown | `Payments` composed with a client's connection |
| `Operator` | node administration by both front ends | |
| `Daemon` | start, stop, crash and restart of the process | composed with `Operator` |
| `MC...` | - | instances for TLC, with their `.cfg` files |

Definitions named `X_y` directly before `X` and introduced as "faulty variant"
are plausible mistakes in `X`; each property is shown to fail when one of them
takes the place of the original (`mutants` in `PROJECT.json`).

### Payments

The tables are functions from primary keys to rows or `NULL`. Random 32-byte
ids are numbers in the order in which they are drawn; the hash of an invoice of
another node is a constant. `out` and `claimed` are what the node knows of
outgoing and incoming payments, `events` its queue. `rpc` is a handler between
the node's answer and its INSERT (and so the holder of the lock), `handler` is
the event loop's place. `balanceFeed` and `sendFeed` are what users were last
told. Amounts are millisatoshis; `user_balance` keeps the unsigned cast of the
code, with a word of `U64` values.

A handler that stays in the database is one action, since it holds the lock
throughout and writes in one transaction. `bolt11_send`, `bolt12_send` (to
another node) and `onchain_send` are two: the node accepts
(`bolt11_send_external`, ...), then `create_send_payment` or `HandlerPanics`.
`update_send_status` and `update_send_fee` are the two UPDATEs of an outcome.
A request the code refuses with an error changes nothing and is no step. The
expiry of an invoice, the day after which an offer is replaced, and the expiry
of a recovery code are environment steps that may happen at any time.

External assumptions about the node, from how the code uses it: it does not
forget a payment it has accepted; it refuses an invoice it is paying or has
paid and accepts one whose payment failed; its queue survives crashes and it
offers the head until `event_handled`; an invoice is claimed at most once.

### Wallet and the refinement

`Wallet` says what a user may rely on: funds change only by a deposit, a
withdrawal, a transfer that does not grow, a hold, or the release of at most
what was held. `PaymentsWallet` maps a user's funds to the balance before the
cast and a hold to a pending row, or to a successful row that still has the
reserved fee. `ImplementsWallet` is checked with crashes and redelivery.

### Sessions

One user. The ledger is a version number, an event the version it reports.
Opening a feed is two steps, subscription and snapshot, because the lock is
awaited in between. A task is `incoming`, `admitted`, `opening`, `driving` or
`stopped`: stopped tasks hold their permit and wait for the connection to
close. A loss is noticed by the two sides in separate steps. `leaked` is a
history variable.

### Registration, PaymentRequest

`register` is two steps, the checks and the insert, between which `handler`
holds the database's mutex (`LockFree`); that the limit is kept rests on it. Time
passes between them, since the code reads the clock once more for the insert:
`MaxHold` bounds how long a handler takes. The client's call can lose its
connection before, between and after the two, and the daemon can crash there.
Times are milliseconds; lifetimes are counted in seconds with u32 arithmetic
(`U32`).

`PaymentRequest` runs over all texts of up to `MaxSchemes` URI schemes before a
core, and follows a request from the parsers through `resolve` and the exchange
with an LNURL server to what the daemon pays (`paid`). The invoice of the server
may ask for any amount (`asks`), which the code compares with nothing until the
daemon or its node compares it with the amount of the request. That the
application hands a ready request to the client as it is, and that
`send_using_amount` refuses an amount below the invoice's, are external
assumptions.

### Feed

`Payments`, every step of which also sends its `AppEvent`s, with the connection
of one user, `Watcher`. `inbox` is what is on its way to the client: the
snapshot (`Snapshot`: the balance, then the newest `SnapshotLimit` payments in
the order of `user_payments`, with `is_live` false) and, after it, what the bus
sent since the subscription. `created` holds the times by which the snapshot is
cut and sorted; rows of the same millisecond are in any order SQLite may return them
in. `view` is an application that keeps payments by id, adds or replaces on
`Payment` and changes on `Update`. A lost connection loses the inbox and leaves
the view as it was. Expiries are left out: they only forbid steps here. Permits,
credit and lag are in `Sessions`.

### Operator

The handlers of the command line (`cli`) and of the web pages (`ui`), which run
concurrently, one request each at a time. A call of the node is one step; a
drain is two (`list_channels`, then `send_all_to_address`), and so is a request
for a channel (connect to the LSP, then its web service). The two front ends
differ in one place: `ldk_channel_request` stops when the LSP cannot be
connected, `try_request_channel` goes on. External assumptions about the node:
`connect` remembers a peer only when it succeeded; `send_to_address` and
`open_channel` leave one reserve per channel, `send_all_to_address` with
`retain_reserves = false` leaves none; an inbound channel is accepted only if
there is a reserve for it. On-chain amounts are in units of that reserve. A new
address is no action, since a deposit may arrive at any time.

### Daemon

`phase` is the place of `main`: the node starts, public nodes are connected to
on mainnet (`Mainnet`) if there is no key file, the database is opened, the key
is read, or created and then filled (a crash in between leaves a file cut
short), the four tasks are spawned. On SIGTERM the node is stopped, the token
is cancelled, the tasks are joined, the runtime is dropped. The four joins are
one step, `exit`: they change nothing, and `main` passes the last of them when
all tasks have ended. A payment is reduced to a handler before, and after, the
node's answer, an event to its kind; module `Payments` has both in full.
External assumptions: dropping a tokio runtime waits for a poll that is
running, and a handler does not yield between the node's answer and the INSERT;
axum's graceful shutdown waits for the request in hand.

## 3. Runs

| Run | Configuration | Shows |
|---|---|---|
| `payments` | `MCPayments.cfg` | types; a pending row has an outcome coming; receipts are credited once; users are told of every change - with retries, panics, fees above the reserve and a crash |
| `payments_covered` | `MCPaymentsCovered.cfg` | transfers have two halves; rows agree with the node; at most one orphan per crash; no overdraft; balances are covered; `Wallet` is implemented |
| `payments_live` | `MCPaymentsLive.cfg` | pending payments settle, receipts are credited |
| `payments_retry` | `MCPaymentsRetry.cfg` | violation: `InsertSucceeds` |
| `payments_fees` | `MCPaymentsFees.cfg` | violation: `ReportedBalanceTrue` |
| `sessions` | `MCSessions.cfg` | permits are exact; no gap between snapshot and live events; the client catches up; requests end |
| `sessions_leak` | `MCSessionsLeak.cfg` | violation: `RefusedOnlyAtLimit` |
| `registration` | `MCRegistration.cfg` | limits and lifetimes of invites; a saved daemon knows its client; a registration is permanent |
| `payment_request` | `MCPaymentRequest.cfg` | the parsers exclude each other and miss nothing payable; the daemon pays the amount agreed to, whatever an LNURL server's invoice asks for |
| `feed` | `MCFeed.cfg` | a client that has read everything shows the balance and the recent payments as stored; no payment is announced as live twice on one connection |
| `feed_live` | `MCFeedLive.cfg` | violation: `LiveMeansAfterConnect` |
| `daemon` | `MCDaemon.cfg` | a drain takes no reserve but of channels that race it; an ordered channel's LSP is reconnected; a stop ends, leaves no payment without a row and no event half done; one key for ever; public nodes are tried on mainnet; the loop survives errors |

The properties of `payments_covered` do not hold of the daemon in general. They
need the assumptions of `PaymentsCovered`:

- `FeesCovered`: a payment costs no more in fees than was set aside for it. With
  the daemon's default settings this is false (`payments_fees`); an operator can
  make it true by setting the fee above LDK's cap of 1% and 50 sat.
- `TransferFeeCovered`: the 1 sat charged for an internal transfer is no more
  than what `check_send` looked for; true of every `base_fee_msat` of at least
  1000, the default being 10000.
- `NoRetry`: no failed invoice is paid again; `payments_retry` shows why.
- `OffersDescribed`: offers of other nodes carry a description, without which
  `bolt12_send` panics.
- `MoneyBounded`: what the node receives is less than half of the values of a
  word. All bitcoin are less than 2^63 msat.

`TransfersPaired` needs none of them and is proved for every environment; it is
in this run because recoveries are.

### Bounds

- `payments`: two users, one external invoice, three drawn ids (so a deposit
  can be followed by a transfer or two sends), one retry, one crash. Users pay
  each other's invoices and offers; every pair of a handler and an outcome, and
  a crash at every step of both, occurs. The pending limit of 1 is reached.
- `payments_covered`: withdrawals and recovery are here. The amounts allow two payments from one deposit and not
  three, so that an unreserved payment would overdraw the account.
- `sessions`: two connections at a time, a limit of two, a bus of capacity two
  and a credit of one: lag, refusal and waiting for credit all happen with two
  commits, one foreign event, one request and one fault. The code's 10, 1000
  and QUIC's credit differ only in how many steps it takes to reach them.
- `registration`: three users for a limit of two, two invites, three
  registrations, a clock that passes every expiry, a handler that may take one
  tick, a crash at any time, one wrapped lifetime. Two registrations for the
  last place, and an expiry between the check and the insert, occur. Users
  and invites are symmetric (random keys; no property names one).
- `payment_request`: amounts on both sides of a satoshi and of the smallest
  on-chain payment; invoices that ask for less, as much and more than was agreed.
- `feed`: two users, two drawn ids and an external invoice, so the watcher has
  up to three payments and the snapshot of two leaves one out; two times, so
  rows of one millisecond and of different ones occur; two connections and one
  crash, so a settlement is missed while the client is away and a receipt is
  delivered again on a connection that saw the first.
- `daemon`: two channels, one peer that is the LSP and a public node, a wallet of
  two reserves, one stop, one crash, two keys (a second one would be drawn if
  the first were lost). `MaxWork` = 3 is shared by operator requests, payments
  and events: both front ends and a payment, or a deposit, a drain and a
  channel between its steps, or a payment, its event and a request, meet each
  other and every step of a start or a stop.

The runs that end in a violation have small bounds of their own.

Deadlock is not checked: with the bounds exhausted, and in an idle daemon,
nothing need happen.

### Fairness

`payments_live`: weak fairness of the handler's second half, of the second
UPDATE and of `event_handled` (tasks that are ready run), and of the node's
settlement of each payment (HTLCs time out). Strong fairness of the event
loop's wait for the lock: tokio's mutex is fair.
`sessions`: weak fairness of every connection task, of the reconnect loop
(which never gives up) and of the application reading events and answers. The
two liveness properties are conditional: `ClientCatchesUp` on no connection
being deserted for good, a living reconnect task and permits left;
`RequestsEnd` on the first of these. The code does not guarantee them:
without the conditions both fail.
`daemon`: weak fairness of `main`, of the handlers, of the tasks and of the
event loop, strong fairness of the loop's wait for the lock, as above. A front
end's call of the node returns. The LSP's web service need not answer: the
command line gives up after 30 seconds, which drops the request, the web page
does not. `ShutdownCompletes` is therefore conditional on no front end waiting
for the LSP for ever; `EventsHandled` on a daemon that keeps serving and on no
event from before payment ids, which makes the loop panic. Starting is not fair:
nobody need start the daemon.

## 4. What the violation runs show

1. Paying an invoice again after it failed: the node accepts, the INSERT
   collides with the failed row, `.expect("Failed to insert send payment")`
   panics. The payment goes on, nothing is reserved.
2. With the default fees, 0.5% and 10 sat are set aside while LDK may spend 1%
   and 50 sat. The balance becomes negative and is cast to an enormous one.
3. A panicking handler never returns its permit; after enough of them the user
   is refused without having a connection.
4. A crash between the credit of a receipt and `event_handled`: the client
   reconnects, finds the payment in its snapshot, and is then sent it as live
   when the event is delivered again, although `is_live` is documented as
   "processed after the client connected".

Also met while modelling, without a run, since each is visible in a line: a
connection whose task lagged behind the bus is neither served nor closed, and
the client waits on it showing an old balance; an offer without a description
panics its handler after the node has accepted the payment, which no row then
records; `onchain_send` does not apply `MAX_AMOUNT_SATS`; dropping one clone of
a `PunctureConnection` aborts the task that reconnects for all of them; the
lifetime of an invite wraps around u32 from 49711 days on; a channel that
appears between a drain's look at the channels and `send_all_to_address` loses
its reserve; `try_request_channel` throws away the error of a failed connection
to the LSP; `user_recover` ignores `expiry_days`; connections to public nodes
that fail on the first start are not tried again; a crash while the key file is
written makes a daemon nobody used yet unable to start; a receipt delivered
again is published with a new `created_at`; a payment that is not among the
newest 50 stays as the client last saw it.

## 5. What is proved

Each theorem holds for every value of the constants that satisfies the ASSUMEs
of its module: any finite set of users, any amounts, limits, capacities and
fees, and, since the bounds on ids, crashes, retries and calls are constants
too, behaviours of any length. The assumptions say that amounts and bounds are
naturals, that owners are users, that the hash of another node's invoice is no
id of ours and that `NULL` is no record; the theorems of `CoveredProofs` need
those of `PaymentsCovered` (section 3) besides.

Every proof has the same layout: the strengthening, one lemma per group of
actions with one case per action, the step lemma, and the theorem by temporal
logic. Every strengthening was checked by TLC on an instance first.

### Payments (`PaymentsProofs`)

- `TypeCorrect`: `[]TypeOK`. `TypeOK` is not inductive: that
  `payment_received` finds an owner needs the queue to name only claimed
  payments (`ReceiptsQueued`), claimed payments to pay known requests
  (`ClaimsKnown`), drawn ids not to be in use (`FreshUnused`), and the event loop
  to hold an event when it says so (`LoopSound`). Together they are `Base`, on
  which everything below rests.
- `PendingAlwaysResolves`: `[]PendingHasOutcome`. The strengthening,
  `TaskResolving`, says the same of the row a handler is about to insert; it is
  preserved because the event loop takes an outcome off the queue only when it
  could lock the database, so that no handler was between answer and insert.
- `ReceiptsAlwaysCredited`: `[]ReceiptsCredited`. The strengthening,
  `InvoiceReceipts`, says that only a payment of an invoice gives a receive row
  its id.
- `TransfersAlwaysPaired`: `[]TransfersPaired`. Needs that an id has one use
  (`OneUse`): if the node could be asked to pay the hash of one of our own
  invoices, a settlement could overwrite half of a transfer.
- `FeedAlwaysCurrent`: `[]FeedCurrent`. While the loop is between its two
  UPDATEs the feed lags behind for the payment being settled and its user, and
  for nobody else (`FeedFollows`); that a balance depends on the rows of one
  user alone is `BalanceKept`, a statement about sums.

For the last two every action is first reduced to one of a few effects on the
ledger (`StepCases`: a transfer, an acceptance by the node, an insert, a receipt
claimed, one credited, an UPDATE, ...); the proofs about money are made once per
effect.

### Money (`CoveredProofs`, `WalletProofs`)

- `RowsAlwaysMatchNode`, `OrphansAlwaysBounded`: `[]RowMatchesNode`,
  `[]OrphansBounded`, by `Settlement`: queued outcomes are true of the node's
  payments (`EventsTrue`), a row and the row about to be inserted fit their
  payment (`RowsFit`, `TaskFits`), and a fee that is not recorded yet has an
  event that will record it (`FeeAwaited`). The last one is what survives a
  crash between the UPDATEs.
- `AlwaysSolvent`: `[]Solvent`. Not an induction of its own: once rows are known
  to match the node, transfers to be paired and receipts to be credited, each id
  taken alone gives users no more than it brought in (`CoveredById`), and the
  sums over ids and over users are exchanged (`SumByOwner`).
- `NeverOverdrawn`: `[]NoOverdraft`. Inductive only with the money of the
  payment that the node has accepted and that has no row yet (`FundsCover`:
  every balance is at least `Reserved`). It is preserved because the handler
  keeps the connection between `check_send` and the INSERT.
- `ReportsAlwaysTrue`: the unsigned cast in `user_balance` changes no balance.
- `DaemonImplementsWallet`: `Spec => ImplementsWallet`, the refinement.
  A pending row, or a settled one whose fee is still to be recorded, is a hold
  (`HoldsAreOpen`); each effect on the ledger is a step of `Wallet` or a
  stutter (`StepRefines`).
- `FundsNonNegative`: in `Wallet` no funds become negative.

A balance is a sum by the library's `SumFunction`, a recursive function over
finite sets. Its laws are proved at the head of `PaymentsProofs` from the
function's equation, by minimal counterexamples among the subsets of the index set (`MinimalSubset`):
a sum exists and is an integer, an index can be taken out, larger terms make a
larger sum, sums are added term by term, and terms may be grouped by owner.

### What a client is shown (`FeedProofs`)

- `FeedRunsTheDaemon`: every step of `Feed` is a step of `Payments` or leaves its
  variables alone. The theorems about the ledger therefore hold in `Feed`; the
  two below use four of its invariants (`Ledger`), `FeedCurrent` among them.
- `AlwaysAnnouncedOnce`: `[]AnnouncedOnce`. Inductive with what it says of
  receipts to come: a receipt whose event the loop still has to apply has not
  been announced on this connection, and no payment has two such events
  (`Announced`). A crash makes an event due again and also ends the connection,
  so that the redelivery is the first announcement on the next one.
- `AlwaysShowsTheLedger`: `[]ShowsTheLedger`. The strengthening says what the
  application will show once it has read what is on its way. The last balance on
  its way is the one published last (`BalanceFollows`); the last event about a
  payment carries its status and fee, except between the two UPDATEs of that
  payment (`LastCurrent`); what was told of a payment agrees with it in kind and
  amount, which never change (`PaymentsAlike`); and a recent payment is shown, or
  a `Payment` event that will show it is on its way (`RecentFollows`). The last
  one is needed because an `Update` of an unknown payment does nothing.
  Subscribing before the snapshot keeps all four: what the bus sent in between
  follows the snapshot and is at least as new, and the snapshot is read under
  the lock, so that no payment is between its UPDATEs.
  That a snapshot has every recent payment (`SnapshotHasRecent`) is a counting
  argument: a row that the `LIMIT` of its query or the cut after sorting leaves
  out has `SnapshotLimit` others in front of it that are as new or newer
  (`RecentInTable`, `RecentKept`). A payment that is not recent may become so
  only by a new row of its own, since times of rows do not change and new
  payments only add rivals.

### Sessions (`SessionsProofs`)

- `SessionsTypes`, `PermitsAlwaysExact`: `[]TypeOK`, `[]PermitsExact`, inductive
  together: the counter does not underflow because the task that returns a
  permit is one of those counted.
- `DrainedAlwaysCurrent`: `[]DrainedIsCurrent`. The strengthening speaks of the
  whole pipeline of a connection: bus, the event in hand, the stream, what is
  shown. `PipelineCurrent`: an event of this user still waits on the bus, or the
  youngest thing past the bus is the current version. It needs `BusCurrent`,
  `CursorsBehind` and `UpIsUsed`. Lag is no exception: a task that lags stops
  being one that drives.
- `RefusalsJustified`: `RefusedOnlyAtLimit` holds as long as no permit has
  leaked, which `sessions_leak` shows to be necessary.

### Registration (`RegistrationProofs`)

- `LimitAlwaysKept`, `AlwaysRegisteredInTime`, `SavedAlwaysRegistered`,
  `RegistrationIsPermanent` and `RegistrationTypes`. `InvitesPast`: no invite is
  from the future. `RegisteredInTime` itself makes an unused invite identifier
  have no users, which `InviteLimitKept` needs when an invite is created.
  `HandlersSound`: there is one handler between its checks and its insert at
  most, and until it inserts its invite still has a place and was good when it
  was checked. No other step disturbs that, since all of them need the mutex;
  without it the limit is not kept.
  `CallsTruthful`: an answer "accepted" on its way belongs to a registered user.

### Operator and daemon (`DaemonProofs`)

- `ReserveAlwaysKept`: `raced` is a history of the channels that appeared between
  a drain's two steps, and all channels there are at that time belong to it
  (`DrainsWatched`). In `daemon` a drain meets one such channel; that a later
  one keeps its reserve takes more steps than its bounds allow, and is proved.
- `OrdersAlwaysReachable`: the LSP is kept already while the command line waits
  for the LSP's web service (`OrdersReachable`).
- `StopsLeaveNoOrphan`, `OnlyCrashesRedeliver`: nothing runs before the tasks
  are spawned (`NothingRuns`); a loop that is over is between two events
  (`LoopWhole`); a crash accounts for at most one event that was applied and is
  still queued (`RedeliveryCounted`).
- `IdentityAlwaysStable`, `PublicNodesAlwaysTried`: what each phase of the start
  knows of the key file and of the first start (`KeyOnDisk`, `FirstStartDone`).
  The second is a statement about mainnet; other networks have no public nodes
  to try.
- `DaemonTypes`: the shape of every variable; it includes that no request of
  either front end takes the wallet below zero.

### Payment requests (`PaymentRequestProofs`)

- `AlwaysPaysWhatWasAgreed`, `RequestTypes`: `[]PaysWhatWasAgreed`, `[]TypeOK`.
  The strengthening, `StagesSound`, says what each stage knows: before the text
  is read there is no amount, and the exchange with an LNURL server runs only
  for a text that left its amount open, with an amount entered and nothing
  ready to be paid. A ready request carries the agreed amount (`Carries`,
  `ReadyStep`): `fetch_invoice` takes the amount from what was entered and never
  from the server's invoice, and `send` pays what the request carries, if no
  more is asked (`SendStep`). What is proved is not that the server's invoice
  asks for the right amount, which the code does not check, but that it cannot
  change what is paid.
- `ParsersAlwaysPartition`: `[]ParsersPartition`. The parsers are recursive
  functions over texts, so what they return is first put in closed form: a text
  means what its core means if all its schemes may be stripped, and nothing
  otherwise (`WithAmountMeaning`, `WithoutAmountMeaning`). There is no induction
  rule to use: the closed form is shown to solve the recursion (`StripsExists`),
  and any two solutions agree, since the shortest text on which they differ
  could be shortened (`ShortestText`, `StripsMeaning`).

## 6. Only model-checked

- Liveness, for which the prover has no rules: `SendsResolve`,
  `ReceiptsResolve`, `ClientCatchesUp`, `RequestsEnd`, `ShutdownCompletes`,
  `EventsHandled`. `PendingHasOutcome` and `ReceiptsCredited`, which are proved,
  are the safety halves of the first two: what must happen is always still
  possible.

Every safety invariant and every action property of a passing run is a theorem.

## 7. Plan

Done: all modules of section 2; proofs of every safety invariant and action
property of the passing runs and of the refinement.

Next: several users on one bus in `Sessions` (lag caused by others is already
there, head-of-line effects between users are not).

## 8. Not modelled

- HTML, argument parsing, the encoding of invite and recovery codes, packaging:
  I/O and serialisation without state.
- The integration tests (`puncture-testing`): they drive a regtest node, and
  were read for the intended behaviour.
- Read-only operations: lists, pages, counts, generating an on-chain address.
- Overflow of `amount_sats * 1000` in `onchain_send`: amounts are small numbers.
- Failing SQLite statements (the code panics on them; a panicking handler is
  modelled) and a failing `event_handled`.
- LDK, iroh, tokio, axum and SQLite themselves: assumptions in section 2.
