--------------------------- MODULE PaymentsWallet ---------------------------
(***************************************************************************)
(* Payments implements Wallet.  A user's funds are what user_balance       *)
(* computes before its cast.  A payment has a hold from its INSERT until   *)
(* its outcome is applied in full: while its row is pending, and while the *)
(* row is successful but still carries the fee set aside for it instead of *)
(* the one paid, which the second UPDATE of update_send_status repairs.    *)
(***************************************************************************)
EXTENDS Payments

Unsettled(id) ==
  /\ send[id] # NULL
  /\ \/ send[id].status = "pending"
     \/ /\ send[id].status = "successful"
        /\ \E i \in 1..Len(events) : /\ events[i].id = id
                                     /\ events[i].type = "successful"
                                     /\ events[i].fee # send[id].fee

Funds == [u \in Users |-> RawBalance(u)]

Holds ==
  [id \in SendIds |->
     IF Unsettled(id) THEN [user |-> send[id].user,
                            amount |-> send[id].amount + send[id].fee]
                      ELSE NULL]

W == INSTANCE Wallet WITH PaymentIds <- SendIds, funds <- Funds, holds <- Holds

(* Every step of the daemon, crashes and redelivered events included, is a *)
(* deposit, a withdrawal, a transfer, a hold, the release of a hold, or    *)
(* changes no money.                                                       *)
ImplementsWallet == W!Spec
=============================================================================
