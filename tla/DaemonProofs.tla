---------------------------- MODULE DaemonProofs ----------------------------
(***************************************************************************)
(* Theorems about modules Operator and Daemon, for any channels, peers,    *)
(* amounts and bounds: any number of starts, stops, crashes, requests,     *)
(* payments and events.                                                    *)
(*                                                                         *)
(* What each property needs beside itself:                                 *)
(*  - ReserveKept: all channels there are between a drain's two steps have *)
(*    appeared there (DrainsWatched);                                      *)
(*  - OrderReachable: the LSP is already kept while the command line waits *)
(*    for the LSP's web service (OrdersReachable);                         *)
(*  - the three of the process: nothing runs before the tasks are spawned  *)
(*    (NothingRuns), and an event loop that is over is between two events  *)
(*    (LoopWhole);                                                         *)
(*  - IdentityStable, PublicNodesTried: what each phase of the start knows *)
(*    of the key file and of the first start (KeyOnDisk, FirstStartDone).  *)
(***************************************************************************)
EXTENDS Daemon, FiniteSetTheorems, SequenceTheorems, TLAPS

Phases == {"down", "started", "connected", "opened", "writing", "keyed",
           "serving", "stopping", "joining"}

OperatorTypeOK ==
  /\ running \in BOOLEAN /\ raced \subseteq Channels /\ cutOff \in BOOLEAN
  /\ wallet \in Nat
  /\ channels \subseteq Channels /\ IsFiniteSet(channels)
  /\ peer \in [Peers -> {"none", "transient", "persisted"}]
  /\ req \in [FrontEnds -> {"none", "drain", "order"}]
  /\ ordered \subseteq FrontEnds

DaemonTypeOK ==
  /\ phase \in Phases
  /\ key \in Nat /\ keyFile \in Nat \cup {-1}
  /\ task \in [Tasks -> {"none", "running", "ended", "panicked"}]
  /\ cancelled \in BOOLEAN
  /\ handler \in {"none", "waiting", "accepted"}
  /\ events \in Seq(EventKinds)
  /\ loop \in {"idle", "applying", "applied"}
  /\ headApplied \in BOOLEAN /\ tried \in BOOLEAN
  /\ paid \in Nat /\ recorded \in Nat /\ redelivered \in Nat
  /\ served \subseteq Nat
  /\ drawn \in Nat /\ crashes \in Nat

(* A drain that has looked has seen no channel: those there are came since *)
(* (cli/rpc.rs ldk_onchain_drain, ui/onchain.rs try_drain_wallet).         *)
DrainsWatched ==
  \A f \in FrontEnds : req[f] = "drain" => channels \subseteq raced

(* The command line connects before it asks the LSP for a channel          *)
(* (cli/rpc.rs ldk_channel_request).                                       *)
OrdersReachable ==
  (req["cli"] = "order" \/ "cli" \in ordered) /\ ~cutOff
    => peer[Lsp] = "persisted"

(* Before its tasks are spawned a daemon serves nobody (main.rs).          *)
NothingRuns ==
  phase \notin {"serving", "stopping", "joining"}
    => /\ task = [t \in Tasks |-> "none"]
       /\ handler = "none" /\ loop = "idle"

(* The loop ends between two events, and holds one only while there is one *)
(* (main.rs process_ldk_events).                                           *)
LoopWhole ==
  /\ task["events"] \in {"ended", "panicked"} => loop = "idle"
  /\ loop # "idle" => events # <<>>

(* Each crash stands for at most one event that the queue still holds and  *)
(* that was applied.                                                       *)
Unacknowledged == IF headApplied /\ loop # "applied" THEN 1 ELSE 0
RedeliveryCounted == redelivered + Unacknowledged <= crashes

(* What the start knows of the key (puncture-core secret.rs).              *)
KeyOnDisk ==
  /\ served # {} => keyFile > 0 /\ served = {keyFile}
  /\ phase = "writing" => keyFile = -1 /\ key > 0
  /\ phase = "keyed" => key = keyFile /\ key > 0

(* The first start is over once there is a key file (main.rs).             *)
FirstStartDone ==
  Mainnet =>
    /\ keyFile # 0 => tried
    /\ phase \notin {"down", "started"} => tried

OperatorInv == OperatorTypeOK /\ DrainsWatched /\ ReserveKept /\ OrdersReachable

ProcessInv ==
  /\ NothingRuns
  /\ LoopWhole
  /\ StopLeavesNoOrphan
  /\ RedeliveryCounted

StartInv == KeyOnDisk /\ FirstStartDone

DaemonInv == OperatorInv /\ DaemonTypeOK /\ ProcessInv /\ StartInv

-----------------------------------------------------------------------------
(* The operator's node.                                                    *)

(* A node without channels has none to count.                              *)
LEMMA EmptyChannels == IsFiniteSet({}) /\ Cardinality({}) = 0
BY FS_EmptySet

(* The channels that raced no drain need no more than all of them.         *)
LEMMA FewerReserved ==
  ASSUME IsFiniteSet(channels)
  PROVE  /\ Cardinality(channels \ raced) \in Nat /\ Reserved \in Nat
         /\ Cardinality(channels \ raced) <= Reserved
<1>1. channels \ raced \subseteq channels
  OBVIOUS
<1>2. /\ IsFiniteSet(channels \ raced)
      /\ Cardinality(channels \ raced) <= Cardinality(channels)
  BY <1>1, FS_Subset
<1> QED BY <1>2, FS_CardinalityType DEF Reserved

(* A new channel costs the node one reserve at most, and a drain that is   *)
(* under way notices it.                                                   *)
LEMMA ChannelAppears ==
  ASSUME OperatorTypeOK, NEW c \in Channels, NewChannel(c)
  PROVE  /\ channels' \subseteq Channels /\ IsFiniteSet(channels')
         /\ Reserved' = Reserved + 1 /\ Reserved \in Nat /\ Reserved' \in Nat
         /\ raced' \subseteq Channels
         /\ Cardinality(channels' \ raced') \in Nat
         /\ Cardinality(channels' \ raced') <= Reserved'
         /\ (\E f \in FrontEnds : req[f] = "drain") =>
              (channels \subseteq raced => channels' \subseteq raced')
<1>1. IsFiniteSet(channels) /\ c \notin channels /\ channels' = channels \cup {c}
  BY DEF OperatorTypeOK, NewChannel
<1>2. IsFiniteSet(channels') /\ Cardinality(channels') = Cardinality(channels) + 1
  BY <1>1, FS_AddElement
<1>3. Cardinality(channels) \in Nat /\ Cardinality(channels') \in Nat
  BY <1>1, <1>2, FS_CardinalityType
<1>4. channels' \subseteq Channels
  BY <1>1 DEF OperatorTypeOK
<1>5. /\ raced' \subseteq Channels
      /\ (\E f \in FrontEnds : req[f] = "drain") =>
           (channels \subseteq raced => channels' \subseteq raced')
  BY DEF NewChannel, OperatorTypeOK
<1>6. /\ IsFiniteSet(channels' \ raced')
      /\ Cardinality(channels' \ raced') <= Cardinality(channels')
  <2>1. channels' \ raced' \subseteq channels'
    OBVIOUS
  <2> QED BY <1>2, <2>1, FS_Subset
<1>7. Cardinality(channels' \ raced') \in Nat
  BY <1>6, FS_CardinalityType
<1> QED BY <1>2, <1>3, <1>4, <1>5, <1>6, <1>7 DEF Reserved

(* With one channel less the node has no more to reserve.                  *)
LEMMA ChannelCloses ==
  ASSUME OperatorTypeOK, NEW c \in channels, channels' = channels \ {c}
  PROVE  /\ channels' \subseteq Channels /\ IsFiniteSet(channels')
         /\ Cardinality(channels \ raced) \in Nat
         /\ Cardinality(channels' \ raced) \in Nat
         /\ Cardinality(channels' \ raced) <= Cardinality(channels \ raced)
<1>1. /\ IsFiniteSet(channels) /\ channels' \subseteq channels
      /\ channels' \ raced \subseteq channels \ raced
      /\ channels \ raced \subseteq channels
  BY DEF OperatorTypeOK
<1>2. IsFiniteSet(channels') /\ IsFiniteSet(channels \ raced)
  BY <1>1, FS_Subset
<1>3. /\ IsFiniteSet(channels' \ raced)
      /\ Cardinality(channels' \ raced) <= Cardinality(channels \ raced)
  BY <1>1, <1>2, FS_Subset
<1> QED BY <1>1, <1>2, <1>3, FS_CardinalityType DEF OperatorTypeOK

(* The LSP stays a peer that the node returns to until it is cut off.      *)
LspKept == peer[Lsp] = "persisted" => peer'[Lsp] = "persisted"

(* Connecting never forgets the LSP, and remembers it if it is to persist. *)
LEMMA Connects ==
  ASSUME OperatorTypeOK, NEW p \in Peers, NEW persist \in BOOLEAN, Connect(p, persist)
  PROVE  /\ peer' \in [Peers -> {"none", "transient", "persisted"}]
         /\ LspKept
         /\ p = Lsp /\ persist => peer'[Lsp] = "persisted"
BY OperatorConstants DEF OperatorTypeOK, Connect, LspKept

(* Sending from the wallet preserves the invariant of the node.            *)
LEMMA SendStep ==
  ASSUME OperatorInv, NEW f \in FrontEnds, NEW a \in Sends, send_to_address(f, a)
  PROVE  OperatorInv'
<1>1. /\ Reserved \in Nat /\ Reserved' = Reserved
      /\ wallet' = wallet - a /\ a <= wallet - Reserved
      /\ wallet \in Nat /\ a \in Nat
  BY OperatorConstants, FS_CardinalityType
  DEF send_to_address, Spendable, Reserved, OperatorInv, OperatorTypeOK
<1>2. /\ Cardinality(channels \ raced) \in Nat
      /\ Cardinality(channels \ raced) <= Reserved
  BY FewerReserved DEF OperatorInv, OperatorTypeOK
<1>3. UNCHANGED <<running, channels, raced, peer, req, ordered, cutOff>>
  BY DEF send_to_address, Handled, people
<1>4. wallet' \in Nat /\ wallet' >= Cardinality(channels \ raced)
  BY <1>1, <1>2
<1> QED
  BY <1>3, <1>4
  DEF OperatorInv, OperatorTypeOK, DrainsWatched, ReserveKept, OrdersReachable

(* So does opening a channel,                                              *)
LEMMA OpenStep ==
  ASSUME OperatorInv, NEW f \in FrontEnds, NEW c \in Channels, NEW p \in Peers,
         open_channel(f, c, p)
  PROVE  OperatorInv'
<1>1. OperatorTypeOK
  BY DEF OperatorInv
<1>2. /\ channels' \subseteq Channels /\ IsFiniteSet(channels')
      /\ Reserved' = Reserved + 1 /\ Reserved \in Nat /\ Reserved' \in Nat
      /\ raced' \subseteq Channels
      /\ Cardinality(channels' \ raced') \in Nat
      /\ Cardinality(channels' \ raced') <= Reserved'
      /\ (\E g \in FrontEnds : req[g] = "drain") =>
           (channels \subseteq raced => channels' \subseteq raced')
  BY <1>1, ChannelAppears DEF open_channel
<1>3. wallet' \in Nat /\ wallet' >= Reserved'
  BY <1>1, <1>2, OperatorConstants DEF open_channel, Spendable, OperatorTypeOK
<1>4. /\ peer' \in [Peers -> {"none", "transient", "persisted"}]
      /\ LspKept
  BY <1>1, Connects DEF open_channel
<1>5. UNCHANGED <<running, req, ordered, cutOff>>
  BY DEF open_channel, Handled
<1>6. OperatorTypeOK'
  BY <1>1, <1>2, <1>3, <1>4, <1>5 DEF OperatorTypeOK
<1>7. DrainsWatched' /\ ReserveKept'
  <2>1. wallet' >= Cardinality(channels' \ raced')
    BY <1>2, <1>3
  <2> QED BY <1>2, <1>5, <2>1 DEF OperatorInv, DrainsWatched, ReserveKept
<1>8. OrdersReachable'
  BY <1>4, <1>5 DEF OperatorInv, OrdersReachable, LspKept
<1> QED BY <1>6, <1>7, <1>8 DEF OperatorInv

(* closing one,                                                            *)
LEMMA CloseStep ==
  ASSUME OperatorInv, NEW c \in channels, channels' = channels \ {c},
         NEW back \in Nat, wallet' = wallet + back,
         UNCHANGED <<running, raced, peer, req, ordered, cutOff>>
  PROVE  OperatorInv'
<1>1. OperatorTypeOK
  BY DEF OperatorInv
<1>2. /\ channels' \subseteq Channels /\ IsFiniteSet(channels')
      /\ Cardinality(channels \ raced) \in Nat
      /\ Cardinality(channels' \ raced) \in Nat
      /\ Cardinality(channels' \ raced) <= Cardinality(channels \ raced)
  BY <1>1, ChannelCloses
<1>3. wallet' \in Nat /\ wallet' >= Cardinality(channels' \ raced)
  BY <1>1, <1>2 DEF OperatorInv, OperatorTypeOK, ReserveKept
<1>4. OperatorTypeOK'
  BY <1>1, <1>2, <1>3 DEF OperatorTypeOK
<1>5. DrainsWatched' /\ ReserveKept'
  BY <1>2, <1>3 DEF OperatorInv, DrainsWatched, ReserveKept
<1> QED BY <1>4, <1>5 DEF OperatorInv, OrdersReachable

(* Only peers change, and the LSP is not forgotten unless it is cut off.   *)
LEMMA PeersStep ==
  ASSUME OperatorInv,
         peer' \in [Peers -> {"none", "transient", "persisted"}],
         running' \in BOOLEAN, cutOff' \in BOOLEAN,
         cutOff' \/ (LspKept /\ cutOff' = cutOff),
         UNCHANGED <<wallet, channels, raced, req, ordered>>
  PROVE  OperatorInv'
BY DEF OperatorInv, OperatorTypeOK, DrainsWatched, ReserveKept, Reserved,
       OrdersReachable, LspKept

(* connecting to a peer,                                                   *)
LEMMA ConnectStep ==
  ASSUME OperatorInv, NEW f \in FrontEnds, NEW p \in Peers,
         NEW persist \in BOOLEAN, connect(f, p, persist)
  PROVE  OperatorInv'
<1>1. OperatorTypeOK
  BY DEF OperatorInv
<1>2. peer' \in [Peers -> {"none", "transient", "persisted"}] /\ LspKept
  BY <1>1, Connects DEF connect
<1>3. UNCHANGED <<running, wallet, channels, raced, req, ordered, cutOff>>
  BY DEF connect, Handled, money
<1> QED BY <1>1, <1>2, <1>3, PeersStep DEF OperatorTypeOK

(* disconnecting from one,                                                 *)
LEMMA DisconnectStep ==
  ASSUME OperatorInv, NEW f \in FrontEnds, NEW p \in Peers, disconnect(f, p)
  PROVE  OperatorInv'
<1>1. /\ peer \in [Peers -> {"none", "transient", "persisted"}]
      /\ cutOff \in BOOLEAN /\ running \in BOOLEAN
  BY DEF OperatorInv, OperatorTypeOK
<1>2. /\ peer' = [peer EXCEPT ![p] = "none"]
      /\ cutOff' = (cutOff \/ p = Lsp)
      /\ UNCHANGED <<running, wallet, channels, raced, req, ordered>>
  BY DEF disconnect, Handled, money
<1>3. peer' \in [Peers -> {"none", "transient", "persisted"}]
  BY <1>1, <1>2
<1>4. p # Lsp => LspKept
  BY <1>1, <1>2, OperatorConstants DEF LspKept
<1>5. cutOff' \in BOOLEAN /\ (cutOff' \/ (p # Lsp /\ cutOff' = cutOff))
  BY <1>1, <1>2
<1> QED BY <1>1, <1>2, <1>3, <1>4, <1>5, PeersStep

-----------------------------------------------------------------------------
(* Requests of two steps.                                                  *)

(* and looking for channels before a drain.                                *)
LEMMA DrainBegins ==
  ASSUME OperatorInv, NEW f \in FrontEnds, Begin(f, "drain"), MayDrain,
         UNCHANGED <<money, people>>
  PROVE  OperatorInv'
<1>1. /\ req' = [req EXCEPT ![f] = "drain"] /\ channels = {}
      /\ UNCHANGED <<running, wallet, channels, raced, peer, ordered, cutOff>>
  BY DEF Begin, MayDrain, money, people
<1>2. OperatorTypeOK' /\ ReserveKept'
  BY <1>1 DEF OperatorInv, OperatorTypeOK, ReserveKept, Reserved
<1>3. DrainsWatched'
  BY <1>1 DEF DrainsWatched
<1>4. req'["cli"] = "order" => req["cli"] = "order"
  BY <1>1 DEF OperatorInv, OperatorTypeOK, FrontEnds
<1> QED BY <1>1, <1>2, <1>3, <1>4 DEF OperatorInv, OrdersReachable

(* The command line's request has connected, the web page's may not have.  *)
LEMMA OrderBegins ==
  ASSUME OperatorInv, NEW f \in FrontEnds, Begin(f, "order"),
         Connect(Lsp, TRUE) \/ (f = "ui" /\ UNCHANGED peer),
         UNCHANGED <<money, ordered, cutOff>>
  PROVE  OperatorInv'
<1>1. OperatorTypeOK
  BY DEF OperatorInv
<1>2. /\ peer' \in [Peers -> {"none", "transient", "persisted"}]
      /\ LspKept
      /\ f = "ui" \/ peer'[Lsp] = "persisted"
  <2>1. CASE Connect(Lsp, TRUE)
    BY <1>1, <2>1, Connects, OperatorConstants
  <2>2. CASE f = "ui" /\ UNCHANGED peer
    BY <1>1, <2>2 DEF OperatorTypeOK, LspKept
  <2> QED BY <2>1, <2>2
<1>3. /\ req' = [req EXCEPT ![f] = "order"]
      /\ UNCHANGED <<running, wallet, channels, raced, ordered, cutOff>>
  BY DEF Begin, money
<1>4. OperatorTypeOK' /\ ReserveKept'
  BY <1>1, <1>2, <1>3 DEF OperatorInv, OperatorTypeOK, ReserveKept, Reserved
<1>5. DrainsWatched'
  BY <1>1, <1>3 DEF OperatorInv, OperatorTypeOK, DrainsWatched
<1>6. f = "ui" => req'["cli"] = req["cli"]
  BY <1>1, <1>3 DEF OperatorTypeOK, FrontEnds
<1>7. OrdersReachable'
  BY <1>2, <1>3, <1>6 DEF OperatorInv, OrdersReachable, LspKept
<1> QED BY <1>4, <1>5, <1>7 DEF OperatorInv

(* The second step of a drain or of an order preserves it.                 *)
LEMMA RequestEndsStep ==
  ASSUME OperatorInv, NEW f \in FrontEnds, RequestEnds(f) PROVE OperatorInv'
<1>1. OperatorTypeOK
  BY DEF OperatorInv
<1>2. /\ req' = [req EXCEPT ![f] = "none"]
      /\ UNCHANGED <<running, channels, raced, peer, cutOff>>
      /\ \A g \in FrontEnds : req'[g] = "none" \/ req'[g] = req[g]
  BY <1>1 DEF RequestEnds, send_all_to_address, order_placed, RequestFails, End,
              money, people, OperatorTypeOK
<1>3. ReserveKept' /\ wallet' \in Nat
  <2>1. CASE send_all_to_address(f)
    <3>1. channels \ raced = {}
      BY <2>1 DEF send_all_to_address, OperatorInv, DrainsWatched
    <3>2. wallet' = 0
      BY <2>1 DEF send_all_to_address
    <3> QED BY <1>2, <3>1, <3>2, EmptyChannels DEF ReserveKept, Reserved
  <2>2. CASE UNCHANGED wallet
    BY <1>1, <1>2, <2>2 DEF OperatorInv, OperatorTypeOK, ReserveKept, Reserved
  <2> QED BY <2>1, <2>2 DEF RequestEnds, order_placed, RequestFails, money
<1>4. /\ ordered' = ordered \/ (ordered' = ordered \cup {f} /\ req[f] = "order")
      /\ ordered' \subseteq FrontEnds
  BY <1>1 DEF RequestEnds, send_all_to_address, order_placed, RequestFails,
              people, OperatorTypeOK
<1>5. OrdersReachable'
  BY <1>2, <1>4 DEF OperatorInv, OrdersReachable, FrontEnds
<1>6. DrainsWatched'
  BY <1>2 DEF OperatorInv, DrainsWatched
<1>7. OperatorTypeOK'
  BY <1>1, <1>2, <1>3, <1>4 DEF OperatorTypeOK
<1> QED BY <1>3, <1>5, <1>6, <1>7 DEF OperatorInv

(* What the node does by itself preserves it.                              *)
LEMMA NodeActsStep == OperatorInv /\ NodeActs => OperatorInv'
<1> SUFFICES ASSUME OperatorInv, NodeActs PROVE OperatorInv'
  OBVIOUS
<1>1. OperatorTypeOK
  BY DEF OperatorInv
<1>2. ASSUME NEW c \in Channels, ChannelAccepted(c) PROVE OperatorInv'
  <2>1. /\ channels' \subseteq Channels /\ IsFiniteSet(channels')
        /\ Reserved' = Reserved + 1 /\ Reserved \in Nat /\ Reserved' \in Nat
        /\ raced' \subseteq Channels
        /\ Cardinality(channels' \ raced') \in Nat
        /\ Cardinality(channels' \ raced') <= Reserved'
        /\ (\E g \in FrontEnds : req[g] = "drain") =>
             (channels \subseteq raced => channels' \subseteq raced')
    BY <1>1, <1>2, ChannelAppears DEF ChannelAccepted
  <2>2. UNCHANGED <<running, wallet, req, peer, ordered, cutOff>>
    BY <1>2 DEF ChannelAccepted, people
  <2>3. wallet - Reserved >= 1
    BY <1>2 DEF ChannelAccepted, Spendable
  <2>4. ReserveKept'
    BY <1>1, <2>1, <2>2, <2>3 DEF ReserveKept, OperatorTypeOK
  <2>5. DrainsWatched'
    BY <2>1, <2>2 DEF OperatorInv, DrainsWatched
  <2>6. OperatorTypeOK'
    BY <1>1, <2>1, <2>2 DEF OperatorTypeOK
  <2> QED BY <2>2, <2>4, <2>5, <2>6 DEF OperatorInv, OrdersReachable
<1>3. ASSUME NEW c \in Channels, ChannelClosedByPeer(c) PROVE OperatorInv'
  <2>1. /\ c \in channels /\ channels' = channels \ {c}
        /\ UNCHANGED <<running, raced, peer, req, ordered, cutOff>>
        /\ wallet' = wallet + 0
    BY <1>1, <1>3 DEF ChannelClosedByPeer, people, OperatorTypeOK
  <2> QED BY <2>1, CloseStep
<1>4. CASE Deposited
  <2>1. /\ wallet' = wallet + 1 /\ wallet \in Nat /\ Reserved' = Reserved
        /\ UNCHANGED <<running, channels, req, raced, peer, ordered, cutOff>>
    BY <1>1, <1>4 DEF Deposited, people, Reserved, OperatorTypeOK
  <2>2. Cardinality(channels \ raced) \in Nat
    BY <1>1, FewerReserved DEF OperatorTypeOK
  <2>3. OperatorTypeOK' /\ ReserveKept'
    BY <1>1, <2>1, <2>2 DEF OperatorInv, OperatorTypeOK, ReserveKept
  <2> QED BY <2>1, <2>3 DEF OperatorInv, DrainsWatched, OrdersReachable
<1> QED BY <1>2, <1>3, <1>4 DEF NodeActs

(* Every request of either front end preserves it.                         *)
LEMMA RoutersStep == OperatorInv /\ (cli_router \/ ui_router) => OperatorInv'
<1> SUFFICES ASSUME OperatorInv, cli_router \/ ui_router PROVE OperatorInv'
  OBVIOUS
<1>1. CASE ldk_onchain_drain \/ try_drain_wallet
  BY <1>1, DrainBegins DEF ldk_onchain_drain, try_drain_wallet, FrontEnds
<1>2. CASE ldk_channel_request \/ try_request_channel
  BY <1>2, OrderBegins
  DEF ldk_channel_request, try_request_channel, LspConnected, FrontEnds
<1>3. ASSUME NEW f \in FrontEnds, NEW c \in Channels, NEW back \in {0, ChannelSats},
             close_channel(f, c, back)
      PROVE  OperatorInv'
  <2>1. /\ c \in channels /\ channels' = channels \ {c}
        /\ wallet' = wallet + back /\ back \in Nat
        /\ UNCHANGED <<running, raced, peer, req, ordered, cutOff>>
    BY <1>3, OperatorConstants DEF close_channel, Handled, people
  <2> QED BY <2>1, CloseStep
<1> QED
  BY <1>1, <1>2, <1>3, SendStep, OpenStep, ConnectStep, DisconnectStep
  DEF cli_router, ui_router, FrontEnds, ldk_onchain_send, try_send_bitcoin,
      ldk_channel_open, try_open_channel, ldk_channel_close, try_close_channel,
      ldk_peer_connect, try_connect_peer, ldk_peer_disconnect, try_disconnect_peer

-----------------------------------------------------------------------------
(* The process around it.  A step is one of five kinds for the operator.   *)

(* Nothing of the operator's but the node's running and, on a first start, *)
(* its peers.                                                              *)
OperatorIdle ==
  /\ running' \in BOOLEAN
  /\ \/ UNCHANGED peer
     \/ \E S \in SUBSET Public :
          peer' = [p \in Peers |-> IF p \in S THEN "persisted" ELSE peer[p]]
  /\ UNCHANGED <<wallet, channels, req, raced, ordered, cutOff>>

(* Every step is one of the operator or of the node, drops the requests with *)
(* the process, or leaves all of this alone.                               *)
LEMMA StepKinds ==
  OperatorTypeOK /\ [DaemonNext]_daemonVars =>
    \/ OperatorIdle
    \/ ProcessGone
    \/ cli_router \/ ui_router
    \/ \E f \in FrontEnds : RequestEnds(f)
    \/ NodeActs
<1> SUFFICES ASSUME OperatorTypeOK, [DaemonNext]_daemonVars
             PROVE  \/ OperatorIdle
                    \/ ProcessGone
                    \/ cli_router \/ ui_router
                    \/ \E f \in FrontEnds : RequestEnds(f)
                    \/ NodeActs
  OBVIOUS
<1>1. CASE Starting
  BY <1>1
  DEF Starting, start_node, connect_public, open_database, read_key, create_key,
      write_key, spawn_tasks, Opened, OperatorIdle, OperatorTypeOK
<1>2. CASE start_fails \/ Crash \/ exit
  BY <1>2 DEF start_fails, Crash, exit
<1>3. ASSUME opVars' = opVars PROVE OperatorIdle
  BY <1>3 DEF opVars, OperatorIdle, OperatorTypeOK
<1>4. CASE send_requested \/ HandlerRuns \/ \E e \in EventKinds : NodeEmits(e)
  <2>1. opVars' = opVars
    BY <1>4
    DEF send_requested, HandlerRuns, send_accepted, create_send_payment, Client,
        NodeEmits
  <2> QED BY <1>3, <2>1
<1>5. CASE EventLoop
  <2>1. opVars' = opVars
    BY <1>5 DEF EventLoop, next_event, process_ldk_event, event_handled
  <2> QED BY <1>3, <2>1
<1>6. CASE cancel \/ TasksEnd
  <2>1. opVars' = opVars
    BY <1>6 DEF cancel, TasksEnd, run_api_ends, loop_ends, server_ends, TaskEnds, Main
  <2> QED BY <1>3, <2>1
<1>7. CASE shutdown_signal
  BY <1>7 DEF shutdown_signal, Opened, OperatorIdle
<1>8. CASE FrontEndWorks \/ (\E f \in FrontEnds : FrontEndAnswers(f)) \/ NodeWorks
  BY <1>8 DEF FrontEndWorks, FrontEndAnswers, NodeWorks
<1>9. CASE UNCHANGED daemonVars
  BY <1>3, <1>9 DEF daemonVars
<1> QED
  BY <1>1, <1>2, <1>4, <1>5, <1>6, <1>7, <1>8, <1>9 DEF DaemonNext, Stopping

(* Every step preserves the invariant of the node.                         *)
LEMMA OperatorStep == OperatorInv /\ [DaemonNext]_daemonVars => OperatorInv'
<1> SUFFICES ASSUME OperatorInv, [DaemonNext]_daemonVars PROVE OperatorInv'
  OBVIOUS
<1>1. OperatorTypeOK
  BY DEF OperatorInv
<1>2. CASE OperatorIdle
  <2>1. /\ peer' \in [Peers -> {"none", "transient", "persisted"}]
        /\ LspKept /\ running' \in BOOLEAN
    BY <1>1, <1>2, OperatorConstants DEF OperatorIdle, OperatorTypeOK, LspKept
  <2>2. UNCHANGED <<wallet, channels, req, raced, ordered, cutOff>>
    BY <1>2 DEF OperatorIdle
  <2> QED BY <1>1, <2>1, <2>2, PeersStep DEF OperatorTypeOK
<1>3. CASE ProcessGone
  <2>1. /\ req' = [f \in FrontEnds |-> "none"] /\ running' = FALSE
        /\ UNCHANGED <<wallet, channels, raced, ordered, cutOff>>
    BY <1>3 DEF ProcessGone
  <2>2. /\ peer' \in [Peers -> {"none", "transient", "persisted"}]
        /\ LspKept
    BY <1>1, <1>3, OperatorConstants DEF ProcessGone, OperatorTypeOK, LspKept
  <2>3. OperatorTypeOK'
    BY <1>1, <2>1, <2>2 DEF OperatorTypeOK
  <2>4. OrdersReachable'
    BY <2>1, <2>2 DEF OperatorInv, OrdersReachable, LspKept, FrontEnds
  <2>5. DrainsWatched' /\ ReserveKept'
    BY <2>1 DEF OperatorInv, DrainsWatched, ReserveKept, Reserved
  <2> QED BY <2>3, <2>4, <2>5 DEF OperatorInv
<1> QED BY <1>1, <1>2, <1>3, StepKinds, RoutersStep, RequestEndsStep, NodeActsStep

-----------------------------------------------------------------------------
(* The process.                                                            *)

(* What the steps of the front ends and of the node leave alone.           *)
ProcessIdle == UNCHANGED <<place, disk, work, history, bounds>>

(* The steps of the operator leave the process alone.                      *)
LEMMA ProcessIdleSteps ==
  ASSUME FrontEndWorks \/ (\E f \in FrontEnds : FrontEndAnswers(f)) \/ NodeWorks
         \/ UNCHANGED daemonVars
  PROVE  ProcessIdle
BY DEF FrontEndWorks, FrontEndAnswers, NodeWorks, daemonVars, ProcessIdle

(* The queue of events keeps its type.                                     *)
LEMMA QueueKept ==
  ASSUME NEW e \in EventKinds, events \in Seq(EventKinds)
  PROVE  /\ Append(events, e) \in Seq(EventKinds) /\ Append(events, e) # <<>>
         /\ events # <<>> => Tail(events) \in Seq(EventKinds)
BY AppendProperties, HeadTailProperties

(* Every step preserves the types of the process.                          *)
LEMMA DaemonTypeStep ==
  DaemonTypeOK /\ LoopWhole /\ [DaemonNext]_daemonVars => DaemonTypeOK'
<1> SUFFICES ASSUME DaemonTypeOK, LoopWhole, [DaemonNext]_daemonVars
             PROVE  DaemonTypeOK'
  OBVIOUS
<1> USE DEF DaemonTypeOK, Phases
<1>1. CASE start_node \/ connect_public \/ open_database
  BY <1>1
  DEF start_node, connect_public, open_database, Quiet, disk, work, history, bounds
<1>2. CASE read_key \/ create_key \/ write_key
  <2>1. phase' \in Phases /\ key' \in Nat /\ drawn' \in Nat
    BY <1>2 DEF read_key, create_key, write_key, Quiet, bounds
  <2>2. keyFile' \in Nat \cup {-1}
    <3>1. CASE read_key
      BY <3>1 DEF read_key, Quiet, disk
    <3>2. CASE create_key
      BY <3>2 DEF create_key
    <3>3. CASE write_key
      BY <3>3 DEF write_key, KeySaved
    <3> QED BY <1>2, <3>1, <3>2, <3>3
  <2>3. UNCHANGED <<task, cancelled, events, work, history, crashes>>
    BY <1>2 DEF read_key, create_key, write_key, Quiet, disk, bounds
  <2> QED BY <2>1, <2>2, <2>3 DEF work, history
<1>3. CASE spawn_tasks
  BY <1>3 DEF spawn_tasks, disk, bounds
<1>4. CASE ProcessGone /\ crashes' \in Nat
  BY <1>4 DEF ProcessGone, disk, history, Tasks
<1>5. CASE start_fails \/ Crash \/ exit
  BY <1>4, <1>5 DEF start_fails, Crash, exit
<1>6. CASE send_requested \/ HandlerRuns
  <2>1. /\ handler' \in {"none", "waiting", "accepted"}
        /\ paid' \in Nat /\ recorded' \in Nat
    BY <1>6 DEF send_requested, HandlerRuns, send_accepted, create_send_payment
  <2>2. UNCHANGED <<place, disk, loop, headApplied, redelivered, served, tried, bounds>>
    BY <1>6
    DEF send_requested, HandlerRuns, send_accepted, create_send_payment, Client
  <2> QED BY <2>1, <2>2 DEF place, disk, bounds
<1>7. ASSUME NEW e \in EventKinds, NodeEmits(e) PROVE DaemonTypeOK'
  <2>1. events' \in Seq(EventKinds)
    BY <1>7, QueueKept DEF NodeEmits
  <2> QED BY <1>7, <2>1 DEF NodeEmits, place, work, history
<1>8. CASE next_event
  BY <1>8 DEF next_event, place, disk, history, bounds
<1>9. CASE process_ldk_event
  <2>1. /\ loop' \in {"idle", "applying", "applied"}
        /\ task' = task \/ \E s \in {"running", "panicked"} :
                            task' = [task EXCEPT !["events"] = s]
        /\ headApplied' \in BOOLEAN
        /\ redelivered' = redelivered \/ redelivered' = redelivered + 1
    <3>1. CASE Head(events) = "ok"
      <4>1. /\ loop' = "applied" /\ headApplied' = TRUE /\ UNCHANGED task
            /\ redelivered' = redelivered + (IF headApplied THEN 1 ELSE 0)
        BY <1>9, <3>1, Zenon DEF process_ldk_event
      <4>2. redelivered' = redelivered \/ redelivered' = redelivered + 1
        BY <4>1
      <4> QED BY <4>1, <4>2
    <3>2. CASE Head(events) = "missing"
      BY <1>9, <3>2 DEF process_ldk_event, AfterError
    <3>3. CASE Head(events) \notin {"ok", "missing"}
      BY <1>9, <3>3 DEF process_ldk_event
    <3> QED BY <3>1, <3>2, <3>3
  <2>2. task' \in [Tasks -> {"none", "running", "ended", "panicked"}]
    BY <2>1
  <2>3. redelivered' \in Nat
    BY <2>1
  <2>4. /\ UNCHANGED <<phase, key, cancelled, handler, paid, recorded, served, tried>>
        /\ UNCHANGED <<disk, bounds>>
    BY <1>9 DEF process_ldk_event
  <2> QED BY <2>1, <2>2, <2>3, <2>4 DEF disk, bounds
<1>10. CASE event_handled
  <2>1. events' \in Seq(EventKinds)
    BY <1>10 DEF event_handled, LoopWhole
  <2> QED BY <1>10, <2>1 DEF event_handled, place, history, bounds
<1>11. CASE shutdown_signal \/ cancel
  BY <1>11
  DEF shutdown_signal, cancel, CancelledFirst, Main, disk, work, history, opVars
<1>12. CASE TasksEnd
  BY <1>12, ZenonT(30)
  DEF TasksEnd, run_api_ends, loop_ends, server_ends, TaskEnds, Main, disk, work,
      history
<1>13. CASE ProcessIdle
  BY <1>13 DEF ProcessIdle, place, disk, work, history, bounds
<1> QED
  BY <1>1, <1>2, <1>3, <1>5, <1>6, <1>7, <1>8, <1>9, <1>10, <1>11, <1>12, <1>13,
     ProcessIdleSteps
  DEF DaemonNext, Starting, EventLoop, Stopping

(* Nothing runs before the tasks are spawned, or after they ended.         *)
LEMMA NothingRunsStep ==
  DaemonTypeOK /\ NothingRuns /\ [DaemonNext]_daemonVars => NothingRuns'
<1> SUFFICES ASSUME DaemonTypeOK, NothingRuns, [DaemonNext]_daemonVars
             PROVE  NothingRuns'
  OBVIOUS
<1>1. CASE Starting
  BY <1>1
  DEF NothingRuns, Starting, start_node, connect_public, open_database, read_key,
      create_key, write_key, spawn_tasks, Quiet, work
<1>2. CASE ProcessGone
  BY <1>2 DEF NothingRuns, ProcessGone
<1>3. CASE send_requested \/ HandlerRuns \/ EventLoop \/ TasksEnd \/ cancel
           \/ shutdown_signal
  <2>1. phase \in {"serving", "stopping", "joining"}
    BY <1>3
    DEF NothingRuns, send_requested, HandlerRuns, send_accepted,
        create_send_payment, EventLoop, next_event, process_ldk_event,
        event_handled, LoopRuns, TasksEnd, run_api_ends, loop_ends, server_ends,
        cancel, shutdown_signal, Tasks, FrontEnds
  <2>2. phase' = phase \/ phase' \in {"stopping", "joining"}
    BY <1>3
    DEF send_requested, HandlerRuns, send_accepted, create_send_payment, Client,
        EventLoop, next_event, process_ldk_event, event_handled, TasksEnd,
        run_api_ends, loop_ends, server_ends, TaskEnds, cancel, shutdown_signal,
        place
  <2> QED BY <2>1, <2>2 DEF NothingRuns
<1>4. CASE ProcessIdle \/ \E e \in EventKinds : NodeEmits(e)
  BY <1>4 DEF ProcessIdle, NodeEmits, NothingRuns, place, work
<1> QED
  BY <1>1, <1>2, <1>3, <1>4, ProcessIdleSteps
  DEF DaemonNext, Stopping, start_fails, Crash, exit

(* A process that goes other than by a crash has no event in hand and no   *)
(* payment without its row.                                                *)
LEMMA GoneCleanly ==
  ASSUME NothingRuns, LoopWhole, start_fails \/ exit
  PROVE  loop = "idle" /\ handler # "accepted" /\ crashes' = crashes /\ ProcessGone
BY DEF NothingRuns, LoopWhole, start_fails, exit, RuntimeIdle, Tasks

(* The loop ends between two events only.                                  *)
LEMMA LoopStep ==
  DaemonTypeOK /\ NothingRuns /\ LoopWhole /\ [DaemonNext]_daemonVars => LoopWhole'
<1> SUFFICES ASSUME DaemonTypeOK, NothingRuns, LoopWhole, [DaemonNext]_daemonVars
             PROVE  LoopWhole'
  OBVIOUS
<1>1. CASE start_node \/ connect_public \/ open_database \/ read_key \/ create_key
           \/ write_key
  BY <1>1
  DEF LoopWhole, start_node, connect_public, open_database, read_key, create_key,
      write_key, Quiet, work, disk
<1>2. CASE spawn_tasks
  BY <1>2 DEF LoopWhole, spawn_tasks
<1>3. CASE ProcessGone
  BY <1>3 DEF LoopWhole, ProcessGone
<1>4. CASE send_requested \/ HandlerRuns
  BY <1>4
  DEF LoopWhole, send_requested, HandlerRuns, send_accepted, create_send_payment,
      Client, place, disk
<1>5. ASSUME NEW e \in EventKinds, NodeEmits(e) PROVE LoopWhole'
  <2>1. events' # <<>>
    BY <1>5, QueueKept DEF NodeEmits, DaemonTypeOK
  <2> QED BY <1>5, <2>1 DEF LoopWhole, NodeEmits, place, work
<1>6. CASE next_event
  BY <1>6 DEF LoopWhole, next_event, LoopRuns, place, disk
<1>7. CASE process_ldk_event
  <2>1. task["events"] = "running" /\ loop = "applying" /\ UNCHANGED events
    BY <1>7 DEF process_ldk_event, LoopRuns, disk
  <2>2. loop' = "idle" \/ task'["events"] = "running"
    <3>1. CASE Head(events) = "ok"
      BY <1>7, <2>1, <3>1 DEF process_ldk_event
    <3>2. CASE Head(events) = "missing"
      BY <1>7, <3>2 DEF process_ldk_event, AfterError, DaemonTypeOK, Tasks
    <3>3. CASE Head(events) \notin {"ok", "missing"}
      BY <1>7, <3>3 DEF process_ldk_event
    <3> QED BY <3>1, <3>2, <3>3
  <2> QED BY <2>1, <2>2 DEF LoopWhole
<1>8. CASE event_handled
  BY <1>8 DEF LoopWhole, event_handled
<1>9. CASE shutdown_signal \/ cancel
  BY <1>9 DEF LoopWhole, shutdown_signal, cancel, Main, disk, work
<1>10. CASE loop_ends
  BY <1>10 DEF LoopWhole, loop_ends, MayBreak, TaskEnds, Main, work
<1>11. CASE run_api_ends \/ \E f \in FrontEnds : server_ends(f)
  <2>1. task'["events"] = task["events"]
    BY <1>11
    DEF run_api_ends, server_ends, TaskEnds, FrontEnds, DaemonTypeOK, Tasks
  <2>2. UNCHANGED <<loop, events>>
    BY <1>11 DEF run_api_ends, server_ends, TaskEnds, Main, work, disk
  <2> QED BY <2>1, <2>2 DEF LoopWhole
<1>12. CASE ProcessIdle
  BY <1>12 DEF ProcessIdle, LoopWhole, place, work, disk
<1> QED
  BY <1>1, <1>2, <1>3, <1>4, <1>5, <1>6, <1>7, <1>8, <1>9, <1>10, <1>11, <1>12,
     ProcessIdleSteps
  DEF DaemonNext, Starting, EventLoop, Stopping, TasksEnd, start_fails, Crash, exit

(* Payments and their rows.                                                *)
LEMMA OrphanStep ==
  DaemonTypeOK /\ NothingRuns /\ LoopWhole /\ StopLeavesNoOrphan
    /\ [DaemonNext]_daemonVars => StopLeavesNoOrphan'
<1> SUFFICES ASSUME DaemonTypeOK, NothingRuns, LoopWhole, StopLeavesNoOrphan,
                    [DaemonNext]_daemonVars
             PROVE  StopLeavesNoOrphan'
  OBVIOUS
<1>1. paid \in Nat /\ recorded \in Nat /\ crashes \in Nat
  BY DEF DaemonTypeOK
<1>2. CASE UNCHANGED <<paid, recorded, handler, crashes>>
  BY <1>2 DEF StopLeavesNoOrphan
<1>3. CASE Starting \/ EventLoop \/ shutdown_signal \/ cancel \/ TasksEnd
           \/ ProcessIdle \/ \E e \in EventKinds : NodeEmits(e)
  <2>1. UNCHANGED <<paid, recorded, handler, crashes>>
    BY <1>3
    DEF Starting, start_node, connect_public, open_database, read_key, create_key,
        write_key, spawn_tasks, Quiet, EventLoop, next_event, process_ldk_event,
        event_handled, shutdown_signal, cancel, TasksEnd, run_api_ends, loop_ends,
        server_ends, TaskEnds, Main, ProcessIdle, NodeEmits, work, history, bounds
  <2> QED BY <1>2, <2>1
<1>4. CASE start_fails \/ exit
  BY <1>1, <1>4, GoneCleanly DEF StopLeavesNoOrphan, ProcessGone, history
<1>5. CASE Crash
  BY <1>1, <1>5 DEF StopLeavesNoOrphan, Crash, ProcessGone, history
<1>6. CASE send_requested
  BY <1>1, <1>6 DEF StopLeavesNoOrphan, send_requested, Client, bounds
<1>7. CASE send_accepted
  BY <1>1, <1>7 DEF StopLeavesNoOrphan, send_accepted, Client, bounds
<1>8. CASE create_send_payment
  BY <1>1, <1>8 DEF StopLeavesNoOrphan, create_send_payment, Client, bounds
<1> QED
  BY <1>3, <1>4, <1>5, <1>6, <1>7, <1>8, ProcessIdleSteps
  DEF DaemonNext, HandlerRuns, Stopping

(* Events and their repetitions.                                           *)
LEMMA RedeliveryStep ==
  DaemonTypeOK /\ NothingRuns /\ LoopWhole /\ RedeliveryCounted
    /\ [DaemonNext]_daemonVars => RedeliveryCounted'
<1> SUFFICES ASSUME DaemonTypeOK, NothingRuns, LoopWhole, RedeliveryCounted,
                    [DaemonNext]_daemonVars
             PROVE  RedeliveryCounted'
  OBVIOUS
<1> USE DEF RedeliveryCounted, Unacknowledged
<1>1. redelivered \in Nat /\ crashes \in Nat
  BY DEF DaemonTypeOK
<1>2. CASE UNCHANGED <<redelivered, headApplied, loop, crashes>>
  BY <1>2
<1>3. CASE start_node \/ connect_public \/ open_database \/ read_key \/ create_key
           \/ write_key \/ shutdown_signal \/ cancel \/ TasksEnd \/ send_requested
           \/ HandlerRuns \/ ProcessIdle \/ \E e \in EventKinds : NodeEmits(e)
  <2>1. UNCHANGED <<redelivered, headApplied, loop, crashes>>
    BY <1>3
    DEF start_node, connect_public, open_database, read_key, create_key,
        write_key, Quiet, shutdown_signal, cancel, TasksEnd, run_api_ends,
        loop_ends, server_ends, TaskEnds, Main, ProcessIdle, NodeEmits,
        send_requested, HandlerRuns, send_accepted, create_send_payment, Client,
        work, history, bounds
  <2> QED BY <1>2, <2>1
<1>4. CASE spawn_tasks
  <2>1. loop = "idle"
    BY <1>4 DEF spawn_tasks, NothingRuns
  <2>2. UNCHANGED <<redelivered, headApplied, loop, crashes>>
    BY <1>4, <2>1 DEF spawn_tasks, bounds
  <2> QED BY <1>2, <2>2
<1>5. CASE start_fails \/ exit
  <2>1. UNCHANGED <<redelivered, headApplied, loop, crashes>>
    BY <1>5, GoneCleanly DEF ProcessGone, history
  <2> QED BY <1>2, <2>1
<1>6. CASE Crash
  BY <1>1, <1>6 DEF Crash, ProcessGone, history
<1>7. CASE next_event
  BY <1>1, <1>7 DEF next_event, history, bounds
<1>8. CASE process_ldk_event
  <2>1. loop = "applying" /\ UNCHANGED crashes
    BY <1>8 DEF process_ldk_event, bounds
  <2>2. CASE Head(events) = "ok"
    BY <1>1, <1>8, <2>1, <2>2 DEF process_ldk_event
  <2>3. CASE Head(events) # "ok"
    <3>1. UNCHANGED <<headApplied, redelivered>> /\ loop' \in {"idle", "applied"}
      BY <1>8, <2>3 DEF process_ldk_event
    <3> QED BY <1>1, <2>1, <3>1
  <2> QED BY <2>2, <2>3
<1>9. CASE event_handled
  BY <1>1, <1>9 DEF event_handled, history, bounds
<1> QED
  BY <1>3, <1>4, <1>5, <1>6, <1>7, <1>8, <1>9, ProcessIdleSteps
  DEF DaemonNext, Starting, EventLoop, Stopping

-----------------------------------------------------------------------------
(* The start, and what outlives it.                                        *)

(* All but the steps of the start and the end of a process leave it alone. *)
StartIdle ==
  /\ UNCHANGED <<key, keyFile, served, tried>>
  /\ phase' = phase \/ (phase \in {"serving", "stopping"}
                          /\ phase' \in {"stopping", "joining"})

(* The steps of a daemon that serves leave the start alone.                *)
LEMMA StartIdleSteps ==
  ASSUME \/ EventLoop \/ shutdown_signal \/ cancel \/ TasksEnd \/ send_requested
         \/ HandlerRuns \/ ProcessIdle \/ \E e \in EventKinds : NodeEmits(e)
  PROVE  StartIdle
BY DEF StartIdle, EventLoop, next_event, process_ldk_event, event_handled,
       shutdown_signal, cancel, TasksEnd, run_api_ends, loop_ends, server_ends,
       TaskEnds, Main, send_requested, HandlerRuns, send_accepted,
       create_send_payment, Client, ProcessIdle, NodeEmits, place, disk, history

(* Every step preserves what the start knows.                              *)
LEMMA StartStep ==
  DaemonTypeOK /\ StartInv /\ [DaemonNext]_daemonVars => StartInv'
<1> SUFFICES ASSUME DaemonTypeOK, StartInv, [DaemonNext]_daemonVars PROVE StartInv'
  OBVIOUS
<1> USE DEF StartInv, KeyOnDisk, FirstStartDone
<1>1. CASE start_node
  BY <1>1 DEF start_node, Quiet, disk, history
<1>2. CASE connect_public
  BY <1>2 DEF connect_public, FirstStart, disk
<1>3. CASE open_database
  BY <1>3 DEF open_database, Quiet, disk, history
<1>4. CASE read_key
  BY <1>4 DEF read_key, Quiet, disk, history
<1>5. CASE create_key
  BY <1>5 DEF create_key, history, DaemonTypeOK
<1>6. CASE write_key
  BY <1>6 DEF write_key, KeySaved, history
<1>7. CASE spawn_tasks
  <2>1. /\ phase = "keyed" /\ phase' = "serving" /\ served' = served \cup {key}
        /\ UNCHANGED <<key, keyFile, tried>>
    BY <1>7 DEF spawn_tasks, disk
  <2>2. served' = {keyFile} /\ keyFile > 0
    BY <2>1
  <2> QED BY <2>1, <2>2
<1>8. CASE ProcessGone
  BY <1>8 DEF ProcessGone, disk, history
<1>9. CASE StartIdle
  BY <1>9 DEF StartIdle
<1> QED
  BY <1>1, <1>2, <1>3, <1>4, <1>5, <1>6, <1>7, <1>8, <1>9, StartIdleSteps,
     ProcessIdleSteps
  DEF DaemonNext, Starting, Stopping, start_fails, Crash, exit

-----------------------------------------------------------------------------
(* The theorems.                                                           *)

(* DaemonInv is an invariant.                                              *)
LEMMA DaemonInvariant == DaemonSpec => []DaemonInv
<1>1. DaemonInit => DaemonInv
  <2> SUFFICES ASSUME DaemonInit PROVE DaemonInv
    OBVIOUS
  <2>1. OperatorInv
    <3>1. OperatorInit
      BY DEF DaemonInit
    <3>2. OperatorTypeOK
      BY <3>1, EmptyChannels DEF OperatorInit, OperatorTypeOK
    <3>3. wallet = 0 /\ Cardinality(channels \ raced) = 0
      <4>1. wallet = 0 /\ channels \ raced = {}
        BY <3>1 DEF OperatorInit
      <4> QED BY <4>1, EmptyChannels
    <3>4. DrainsWatched /\ OrdersReachable
      BY <3>1 DEF OperatorInit, DrainsWatched, OrdersReachable, FrontEnds
    <3> QED BY <3>2, <3>3, <3>4 DEF OperatorInv, ReserveKept
  <2>2. events \in Seq(EventKinds)
    BY DEF DaemonInit
  <2>3. DaemonTypeOK
    BY <2>2 DEF DaemonInit, DaemonTypeOK, Phases
  <2>4. ProcessInv /\ StartInv
    BY DEF DaemonInit, ProcessInv, StartInv, NothingRuns, LoopWhole, Tasks,
           StopLeavesNoOrphan, RedeliveryCounted, Unacknowledged, KeyOnDisk,
           FirstStartDone
  <2> QED BY <2>1, <2>3, <2>4 DEF DaemonInv
<1>2. DaemonInv /\ [DaemonNext]_daemonVars => DaemonInv'
  BY OperatorStep, DaemonTypeStep, NothingRunsStep, LoopStep, OrphanStep,
     RedeliveryStep, StartStep
  DEF DaemonInv, ProcessInv
<1> QED BY <1>1, <1>2, PTL DEF DaemonSpec

(* Every variable of the operator and of the process keeps its type.       *)
THEOREM DaemonTypes == DaemonSpec => [](OperatorTypeOK /\ DaemonTypeOK)
<1>1. DaemonInv => OperatorTypeOK /\ DaemonTypeOK
  BY DEF DaemonInv, OperatorInv
<1> QED BY <1>1, DaemonInvariant, PTL

(* The node keeps a reserve for every channel, with both front ends at     *)
(* work, but for those that came between a drain's two steps (cli/rpc.rs   *)
(* ldk_onchain_drain, ui/onchain.rs try_drain_wallet).                     *)
THEOREM ReserveAlwaysKept == DaemonSpec => []ReserveKept
<1>1. DaemonInv => ReserveKept
  BY DEF DaemonInv, OperatorInv
<1> QED BY <1>1, DaemonInvariant, PTL

(* A channel that the command line has ordered can be opened after any     *)
(* restart (cli/rpc.rs ldk_channel_request).                               *)
THEOREM OrdersAlwaysReachable == DaemonSpec => []OrderReachable
<1>1. DaemonInv => OrderReachable
  BY DEF DaemonInv, OperatorInv, OrdersReachable, OrderReachable
<1> QED BY <1>1, DaemonInvariant, PTL

(* However often the daemon stops, only crashes cost a payment its row     *)
(* (main.rs, client/mod.rs run_api).                                       *)
THEOREM StopsLeaveNoOrphan == DaemonSpec => []StopLeavesNoOrphan
<1>1. DaemonInv => StopLeavesNoOrphan
  BY DEF DaemonInv, ProcessInv
<1> QED BY <1>1, DaemonInvariant, PTL

(* However often the daemon stops, only crashes repeat an event            *)
(* (main.rs process_ldk_events).                                           *)
THEOREM OnlyCrashesRedeliver == DaemonSpec => []RedeliveredOnlyAfterCrash
<1>1. DaemonInv => RedeliveredOnlyAfterCrash
  BY DEF DaemonInv, ProcessInv, DaemonTypeOK, RedeliveryCounted, Unacknowledged,
         RedeliveredOnlyAfterCrash
<1> QED BY <1>1, DaemonInvariant, PTL

(* Users reach the daemon under one key for ever (puncture-core secret.rs  *)
(* read_or_generate).                                                      *)
THEOREM IdentityAlwaysStable == DaemonSpec => []IdentityStable
<1>1. DaemonInv => IdentityStable
  <2> SUFFICES ASSUME KeyOnDisk PROVE IdentityStable
    BY DEF DaemonInv, StartInv
  <2>1. served = {} \/ (served = {keyFile} /\ keyFile > 0)
    BY DEF KeyOnDisk
  <2>2. Cardinality({keyFile}) = 1
    BY FS_Singleton
  <2> QED BY <2>1, <2>2, EmptyChannels DEF IdentityStable
<1> QED BY <1>1, DaemonInvariant, PTL

(* No daemon on the main network serves users that has not tried the       *)
(* public nodes (main.rs, secret::exists).                                 *)
THEOREM PublicNodesAlwaysTried == DaemonSpec => []PublicNodesTried
<1>1. DaemonInv => PublicNodesTried
  BY DEF DaemonInv, StartInv, KeyOnDisk, FirstStartDone, PublicNodesTried,
         DaemonTypeOK
<1> QED BY <1>1, DaemonInvariant, PTL
=============================================================================
