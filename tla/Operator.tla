------------------------------ MODULE Operator ------------------------------
(***************************************************************************)
(* The operator's administration of the LDK node: the handlers of the      *)
(* command line (cli/rpc.rs) and of the web pages (ui/onchain.rs,          *)
(* ui/lightning.rs).  The two front ends run at the same time, with one    *)
(* request at a time each.  Most handlers are one call of the node and one *)
(* step here.  Two are not: a drain looks at the channels and then sends   *)
(* everything, and a channel request connects to the LSP and then waits    *)
(* for its web service.  A new address (ldk_onchain_receive) changes       *)
(* nothing here: deposits may arrive at any time.                          *)
(*                                                                         *)
(* The node's wallet, channels and peers are outside the repository: they  *)
(* are what the handlers rely on.  On-chain amounts are multiples of the   *)
(* reserve the node asks for each channel.                                 *)
(***************************************************************************)
EXTENDS Integers, FiniteSets

CONSTANTS
  Channels,      \* identifiers of channels
  Peers, Lsp,    \* other nodes, the LSP among them
  ChannelSats,   \* size of a channel the operator opens
  Sends,         \* amounts the operator sends on chain
  MaxWallet,     \* bound: deposits never make the wallet larger than this
  MaxRequests    \* bound: requests of the operator and deposits and channels
                 \* of others

ASSUME OperatorConstants ==
  /\ Lsp \in Peers
  /\ ChannelSats \in Nat /\ Sends \subseteq Nat
  /\ MaxWallet \in Nat /\ MaxRequests \in Nat

FrontEnds == {"cli", "ui"}

VARIABLES
  running,    \* the node is running
  wallet,     \* the node's on-chain balance
  channels,   \* list_channels
  peer,       \* "none", "transient", "persisted": connected to after a start
  req,        \* per front end: "none", "drain" after the look at the channels,
              \* "order" while the LSP's web service is asked
  requests,
  raced,      \* history: channels that appeared between a drain's two steps
  ordered,    \* history: front ends that were given an invoice for a channel
  cutOff      \* history: the operator has disconnected the LSP

opVars == <<running, wallet, channels, peer, req, requests, raced, ordered,
            cutOff>>
money == <<wallet, channels, raced>>
people == <<peer, ordered, cutOff>>

OperatorInit ==
  /\ running = FALSE
  /\ wallet = 0 /\ channels = {}
  /\ peer = [p \in Peers |-> "none"]
  /\ req = [f \in FrontEnds |-> "none"] /\ requests = 0
  /\ raced = {} /\ ordered = {} /\ cutOff = FALSE

-----------------------------------------------------------------------------
(* The node, as the handlers use it.                                       *)

Reserved == Cardinality(channels)
Spendable == wallet - Reserved

Counted ==
  running /\ requests < MaxRequests /\ requests' = requests + 1

NewChannel(c) ==
  /\ c \notin channels
  /\ channels' = channels \cup {c}
  /\ raced' = IF \E f \in FrontEnds : req[f] = "drain" THEN raced \cup {c}
              ELSE raced \ {c}

(* Another node opens a channel: accepted if there is a reserve for it.    *)
ChannelAccepted(c) ==
  /\ Counted /\ Spendable >= 1
  /\ NewChannel(c)
  /\ UNCHANGED <<running, wallet, req, people>>

ChannelClosedByPeer(c) ==
  /\ Counted /\ c \in channels
  /\ channels' = channels \ {c}
  /\ UNCHANGED <<running, wallet, req, raced, people>>

(* An address of the wallet is paid, and the node has seen it.             *)
Deposited ==
  /\ Counted /\ wallet < MaxWallet
  /\ wallet' = wallet + 1
  /\ UNCHANGED <<running, channels, req, raced, people>>

Connect(p, persist) ==
  peer' = [peer EXCEPT ![p] = IF persist \/ @ = "persisted" THEN "persisted"
                              ELSE "transient"]

-----------------------------------------------------------------------------
(* Calls of the node by front end f that are answered in one step.         *)

Handled(f) ==
  /\ Counted /\ req[f] = "none"
  /\ UNCHANGED <<running, req>>

(* The node keeps the reserves.                                            *)
send_to_address(f, sats) ==
  /\ Handled(f)
  /\ sats <= Spendable
  /\ wallet' = wallet - sats
  /\ UNCHANGED <<channels, raced, people>>

open_channel(f, c, p) ==
  /\ Handled(f)
  /\ Spendable >= ChannelSats + 1
  /\ NewChannel(c)
  /\ wallet' = wallet - ChannelSats
  /\ Connect(p, TRUE)
  /\ UNCHANGED <<ordered, cutOff>>

(* Cooperative or by force: our side of the channel returns.               *)
close_channel(f, c, back) ==
  /\ Handled(f)
  /\ c \in channels
  /\ channels' = channels \ {c}
  /\ wallet' = wallet + back
  /\ UNCHANGED <<raced, people>>

connect(f, p, persist) ==
  /\ Handled(f)
  /\ Connect(p, persist)
  /\ UNCHANGED <<money, ordered, cutOff>>

disconnect(f, p) ==
  /\ Handled(f)
  /\ peer' = [peer EXCEPT ![p] = "none"]
  /\ cutOff' = (cutOff \/ p = Lsp)
  /\ UNCHANGED <<money, ordered>>

(* The handlers of the command line, and those of the web pages.           *)
ldk_onchain_send(sats) == send_to_address("cli", sats)
try_send_bitcoin(sats) == send_to_address("ui", sats)

ldk_channel_open(c, p) == open_channel("cli", c, p)
try_open_channel(c, p) == open_channel("ui", c, p)

ldk_channel_close(c, back) == close_channel("cli", c, back)
try_close_channel(c, back) == close_channel("ui", c, back)

ldk_peer_connect(p, persist) == connect("cli", p, persist)
try_connect_peer(p, persist) == connect("ui", p, persist)

ldk_peer_disconnect(p) == disconnect("cli", p)
try_disconnect_peer(p) == disconnect("ui", p)

-----------------------------------------------------------------------------
(* Requests of two steps.                                                  *)

Begin(f, state) ==
  /\ Counted /\ req[f] = "none"
  /\ req' = [req EXCEPT ![f] = state]
  /\ UNCHANGED running

End(f) == req' = [req EXCEPT ![f] = "none"] /\ UNCHANGED <<running, requests>>

(* Faulty variant: the wallet is drained whatever channels there are.      *)
MayDrain_always == TRUE

(* list_channels().is_empty()                                              *)
MayDrain == channels = {}

ldk_onchain_drain ==
  Begin("cli", "drain") /\ MayDrain /\ UNCHANGED <<money, people>>

try_drain_wallet ==
  Begin("ui", "drain") /\ MayDrain /\ UNCHANGED <<money, people>>

(* send_all_to_address(.., retain_reserves = false, ..)                    *)
send_all_to_address(f) ==
  /\ req[f] = "drain" /\ running
  /\ End(f)
  /\ wallet' = 0
  /\ UNCHANGED <<channels, raced, people>>

(* Faulty variant: a failed connection is ignored.                         *)
LspConnected_ignored == Connect(Lsp, TRUE) \/ UNCHANGED peer

LspConnected == Connect(Lsp, TRUE)

(* Up to the HTTP request.                                                 *)
ldk_channel_request ==
  /\ Begin("cli", "order")
  /\ LspConnected
  /\ UNCHANGED <<money, ordered, cutOff>>

(* The web page asks the LSP for a channel even if it is not connected.    *)
try_request_channel ==
  /\ Begin("ui", "order")
  /\ Connect(Lsp, TRUE) \/ UNCHANGED peer
  /\ UNCHANGED <<money, ordered, cutOff>>

(* The LSP has answered with an invoice, which the operator is shown.      *)
order_placed(f) ==
  /\ req[f] = "order"
  /\ End(f)
  /\ ordered' = ordered \cup {f}
  /\ UNCHANGED <<money, peer, cutOff>>

(* The node or the LSP refuses, or whoever asked has gone (puncture-cli    *)
(* waits for 30 seconds): the handler ends with an error or is dropped.    *)
RequestFails(f) ==
  /\ req[f] # "none"
  /\ End(f)
  /\ UNCHANGED <<money, people>>

cli_router ==
  \/ ldk_onchain_drain \/ ldk_channel_request
  \/ \E a \in Sends : ldk_onchain_send(a)
  \/ \E c \in Channels, p \in Peers : ldk_channel_open(c, p)
  \/ \E c \in Channels, back \in {0, ChannelSats} : ldk_channel_close(c, back)
  \/ \E p \in Peers, persist \in BOOLEAN : ldk_peer_connect(p, persist)
  \/ \E p \in Peers : ldk_peer_disconnect(p)

ui_router ==
  \/ try_drain_wallet \/ try_request_channel
  \/ \E a \in Sends : try_send_bitcoin(a)
  \/ \E c \in Channels, p \in Peers : try_open_channel(c, p)
  \/ \E c \in Channels, back \in {0, ChannelSats} : try_close_channel(c, back)
  \/ \E p \in Peers, persist \in BOOLEAN : try_connect_peer(p, persist)
  \/ \E p \in Peers : try_disconnect_peer(p)

RequestEnds(f) == send_all_to_address(f) \/ order_placed(f) \/ RequestFails(f)

NodeActs ==
  \/ \E c \in Channels : ChannelAccepted(c) \/ ChannelClosedByPeer(c)
  \/ Deposited

-----------------------------------------------------------------------------
(* Properties.                                                             *)

(* The node keeps a reserve for every channel but those that appeared      *)
(* between a drain's look at the channels and its send_all: whatever both  *)
(* front ends and other nodes do meanwhile and later, such a race costs no *)
(* other channel its reserve (cli/rpc.rs ldk_onchain_drain, ui/onchain.rs  *)
(* try_drain_wallet; "You still have channels open").                      *)
ReserveKept == wallet >= Cardinality(channels \ raced)

(* When the command line has shown an invoice for a channel, the node will *)
(* connect to the LSP after any restart, so that the channel can be opened *)
(* once the invoice is paid, unless the operator disconnected the LSP      *)
(* (cli/rpc.rs ldk_channel_request; the web page promises less).           *)
OrderReachable == "cli" \in ordered /\ ~cutOff => peer[Lsp] = "persisted"
=============================================================================
