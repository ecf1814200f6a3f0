-------------------------- MODULE PaymentsCovered --------------------------
(***************************************************************************)
(* Payments in an environment where what the daemon sets aside for a       *)
(* payment covers what it costs, no invoice is paid again after it failed, *)
(* every external offer carries a description, and there is less money     *)
(* than a signed word can count.                                           *)
(***************************************************************************)
EXTENDS PaymentsWallet

(* The node never pays more in routing fees than check_send set aside, nor *)
(* more in miner fees than the flat fee of a withdrawal.                   *)
ASSUME FeesCovered ==
  /\ \A a \in SendAmounts, f \in RoutingFees : f <= fee_msat(a)
  /\ \A f \in OnchainFees : f <= onchain_base_fee_msat

(* An internal transfer charges 1000 msat, check_send looks for fee_msat.  *)
ASSUME TransferFeeCovered == \A a \in SendAmounts : 1000 <= fee_msat(a)

ASSUME NoRetry == MaxRetries = 0

ASSUME OffersDescribed == OfferDescribed \subseteq {TRUE}

(* All bitcoin are 2.1 * 10^18 msat, which is less than 2^63.              *)
ASSUME MoneyBounded ==
  \A f \in [Ids -> ReceiveAmounts \cup {0}] : SumFunction(f) < U64 \div 2
=============================================================================
