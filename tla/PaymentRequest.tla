--------------------------- MODULE PaymentRequest ---------------------------
(***************************************************************************)
(* From the text a user scans to a payment with an amount: the parsers and *)
(* the LNURL resolution of puncture-payment-request/src/lib.rs.            *)
(*                                                                         *)
(* A text is a sequence of URI schemes before a core; a core is a BOLT11   *)
(* invoice or a BOLT12 offer with an amount or without one, an LNURL, a    *)
(* lightning address, an on-chain address, or none of these.  The grammars *)
(* of the cores are disjoint (libraries outside this repository).  An      *)
(* LNURL is resolved by two HTTP requests, each of which can fail, and the *)
(* server answers the second with an invoice of any amount, which nothing  *)
(* compares with the amount asked for before the daemon is asked to pay    *)
(* (bolt11_send, bolt12_send and onchain_send of puncture-daemon/src/      *)
(* client/rpc.rs).  The application, which is not in the repository, hands *)
(* a ready request to the client as it is.                                 *)
(***************************************************************************)
EXTENDS Integers, Sequences, SequencesExt

CONSTANTS
  Amounts,      \* amounts, in msat, of requests and of what the user enters
  Sendable,     \* bounds servers announce for minSendable and maxSendable
  MaxSchemes,   \* bound: schemes before a core
  NULL

ASSUME RequestConstants ==
  Amounts \subseteq Nat /\ Sendable \subseteq Nat /\ MaxSchemes \in Nat

NoAmount == -1     \* the request leaves the amount open
Currency == -2     \* an offer priced in another currency

Schemes == {"lightning", "lnurl", "bitcoin", "other"}
Cores == [kind : {"bolt11"}, amount : Amounts \cup {NoAmount}]
         \cup [kind : {"bolt12"}, amount : Amounts \cup {NoAmount, Currency}]
         \cup [kind : {"lnurl", "ln_address", "address", "junk"},
               amount : {NoAmount}]
Texts == [schemes : SeqOf(Schemes, MaxSchemes), core : Cores]

(* A request ready to be paid: the amount it is to be paid with, on-chain  *)
(* in satoshis, and the one its invoice or offer asks for.                 *)
Ready == [kind : {"bolt11", "bolt12", "onchain"}, amount : Nat,
          asks : Amounts \cup {NoAmount}]

ASSUME NullIsNoRequest == NULL \notin Cores \cup Ready

-----------------------------------------------------------------------------
(* The parsers.                                                            *)

Strip(t) == [t EXCEPT !.schemes = Tail(@)]

StartsWith(t, scheme) == t.schemes # <<>> /\ Head(t.schemes) = scheme

(* Faulty variant: an offer priced in another currency has an amount too.  *)
HasAmount_any(core) == core.amount # NoAmount

HasAmount(core) == core.amount \in Amounts

parse_with_amount[t \in Texts] ==
  IF StartsWith(t, "lightning") THEN parse_with_amount[Strip(t)]
  ELSE IF /\ t.schemes = <<>>
          /\ t.core.kind \in {"bolt11", "bolt12"}
          /\ HasAmount(t.core)
       THEN [kind |-> t.core.kind, amount |-> t.core.amount, asks |-> t.core.amount]
       ELSE NULL

(* Faulty variant: an offer is taken whenever its amount is not in bitcoin.*)
LeavesAmountOpen_currency(core) == core.amount \notin Amounts

LeavesAmountOpen(core) == core.amount = NoAmount

parse_without_amount[t \in Texts] ==
  IF \E s \in {"lightning", "lnurl", "bitcoin"} : StartsWith(t, s)
  THEN parse_without_amount[Strip(t)]
  ELSE IF /\ t.schemes = <<>>
          /\ t.core.kind # "junk"
          /\ LeavesAmountOpen(t.core)
       THEN t.core
       ELSE NULL

-----------------------------------------------------------------------------
VARIABLES
  text,       \* what was scanned
  stage,      \* how far the request got
  entered,    \* the amount the user entered, or NoAmount
  server,     \* what the LNURL server announced
  ready,      \* the request with its amount, or NULL
  paid        \* what the daemon pays the recipient, in msat, or NoAmount

vars == <<text, stage, entered, server, ready, paid>>

Stages == {"scanned", "resolving", "fetched", "ready", "paid", "refused"}

(* A request that is ready has an amount that can be paid: an offer in     *)
(* another currency never gets that far (parse_with_amount).               *)
TypeOK ==
  /\ text \in Texts
  /\ stage \in Stages
  /\ entered \in Amounts \cup {NoAmount}
  /\ server \in [min_sendable : Sendable, max_sendable : Sendable] \cup {NULL}
  /\ ready \in Ready \cup {NULL}
  /\ paid \in Nat \cup {NoAmount}

Init ==
  /\ text \in Texts
  /\ stage = "scanned" /\ entered = NoAmount /\ server = NULL
  /\ ready = NULL /\ paid = NoAmount

(* The application tries the parser of complete requests first and asks    *)
(* for an amount only if it fails.                                         *)
Complete ==
  /\ stage = "scanned"
  /\ parse_with_amount[text] # NULL
  /\ ready' = parse_with_amount[text]
  /\ stage' = "ready"
  /\ UNCHANGED <<text, entered, server, paid>>

Unknown ==
  /\ stage = "scanned"
  /\ parse_with_amount[text] = NULL /\ parse_without_amount[text] = NULL
  /\ stage' = "refused"
  /\ UNCHANGED <<text, entered, server, ready, paid>>

(* Faulty variant: the amount in msat is taken for satoshis.               *)
WholeSats_msat(a) == a

WholeSats(a) == a \div 1000

(* The request resolve makes of one that left its amount open, except that *)
(* the invoice of an LNURL is still to be fetched.                         *)
WithAmount(core, a) ==
  IF core.kind = "address"
  THEN [kind |-> "onchain", amount |-> WholeSats(a), asks |-> NoAmount]
  ELSE [kind |-> core.kind, amount |-> a, asks |-> NoAmount]

resolve(a) ==
  /\ stage = "scanned"
  /\ parse_with_amount[text] = NULL /\ parse_without_amount[text] # NULL
  /\ entered' = a
  /\ IF parse_without_amount[text].kind \in {"lnurl", "ln_address"}
     THEN stage' = "resolving" /\ UNCHANGED ready
     ELSE /\ stage' = "ready"
          /\ ready' = WithAmount(parse_without_amount[text], a)
  /\ UNCHANGED <<text, server, paid>>

(* The server's limits arrive, and the amount is held against them.        *)
WithinLimits(a, s) == ~(a < s.min_sendable) /\ ~(a > s.max_sendable)

fetch_limits(s) ==
  /\ stage = "resolving"
  /\ server' = s
  /\ stage' = IF WithinLimits(entered, s) THEN "fetched" ELSE "refused"
  /\ UNCHANGED <<text, entered, ready, paid>>

(* Faulty variant: an invoice with an amount is paid with that amount.     *)
fetch_invoice_trusting(b) ==
  /\ stage = "fetched"
  /\ ready' = [kind |-> "bolt11", amount |-> IF b = NoAmount THEN entered ELSE b,
               asks |-> b]
  /\ stage' = "ready"
  /\ UNCHANGED <<text, entered, server, paid>>

(* The invoice arrives, asking for b.  That is not compared with the amount*)
(* asked of the server, which is the one the request carries.              *)
fetch_invoice(b) ==
  /\ stage = "fetched"
  /\ ready' = [kind |-> "bolt11", amount |-> entered, asks |-> b]
  /\ stage' = "ready"
  /\ UNCHANGED <<text, entered, server, paid>>

fetch_fails ==
  /\ stage \in {"resolving", "fetched"}
  /\ stage' = "refused"
  /\ UNCHANGED <<text, entered, server, ready, paid>>

-----------------------------------------------------------------------------
(* The client sends the request and the daemon pays it.                    *)

(* amount_msat() of a ready request.                                       *)
amount_msat(r) == IF r.kind = "onchain" THEN r.amount * 1000 ELSE r.amount

(* Faulty variant: the comparison the wrong way round.                     *)
AsksMore_swapped(r) == r.asks # NoAmount /\ r.amount > r.asks

(* The daemon refuses to pay one of its own invoices or offers below its   *)
(* amount, and the node does for those of others (send_using_amount).      *)
AsksMore(r) == r.asks > r.amount

send ==
  /\ stage = "ready"
  /\ ready.kind = "onchain" => ready.amount >= 1000
  /\ ready.kind # "onchain" => ~AsksMore(ready)
  /\ paid' = amount_msat(ready)
  /\ stage' = "paid"
  /\ UNCHANGED <<text, entered, server, ready>>

(* The daemon's other checks, of the balance, the bounds of amounts, the   *)
(* pending sends, the sender's own invoices, the address and the node's    *)
(* own, may refuse any request.                                            *)
send_fails ==
  /\ stage = "ready"
  /\ stage' = "refused"
  /\ UNCHANGED <<text, entered, server, ready, paid>>

Next ==
  \/ Complete \/ Unknown \/ fetch_fails \/ send \/ send_fails
  \/ \E a \in Amounts : resolve(a)
  \/ \E s \in [min_sendable : Sendable, max_sendable : Sendable] : fetch_limits(s)
  \/ \E b \in Amounts \cup {NoAmount} : fetch_invoice(b)

Spec == Init /\ [][Next]_vars

-----------------------------------------------------------------------------
(* Properties.                                                             *)

(* What the daemon pays is what the user agreed to: the amount of the      *)
(* request, or the amount entered, whatever the invoice of an LNURL server *)
(* asks for; an on-chain payment drops at most the part below a satoshi.   *)
(* And no invoice or offer is paid less than it asks for: one that asks    *)
(* for more than was agreed is not paid (resolve_endpoint, bolt11_send).   *)
PaysWhatWasAgreed ==
  paid # NoAmount =>
    LET agreed == IF entered = NoAmount THEN text.core.amount ELSE entered
    IN /\ IF ready.kind = "onchain" THEN paid \in (agreed - 999)..agreed
                                    ELSE paid = agreed
       /\ ready.asks <= paid

(* The two parsers never both accept a text, so that no request with an    *)
(* amount is ever paid with another one; and under "lightning:" prefixes   *)
(* every core but junk and offers in another currency is accepted by one.  *)
ParsersPartition ==
  LET with == parse_with_amount[text]
      without == parse_without_amount[text]
  IN /\ with = NULL \/ without = NULL
     /\ (\A i \in 1..Len(text.schemes) : text.schemes[i] = "lightning") =>
          ((with = NULL /\ without = NULL)
             <=> (text.core.kind = "junk" \/ text.core.amount = Currency))
=============================================================================
