------------------------------- MODULE Wallet -------------------------------
(***************************************************************************)
(* What the daemon promises its users about their money, without tables,   *)
(* events, crashes or a Lightning node.  A user has funds.  An outgoing    *)
(* payment first puts a hold on part of them; when it is over, at most the *)
(* hold comes back, once.  Money appears only by a deposit, moves between  *)
(* users without growing, and leaves by a withdrawal.  A step says how     *)
(* funds may change, not by which amounts.                                 *)
(***************************************************************************)
EXTENDS Integers

CONSTANTS Users, PaymentIds, NULL

VARIABLES funds, holds

wallet == <<funds, holds>>

Init ==
  /\ funds = [u \in Users |-> 0]
  /\ holds = [id \in PaymentIds |-> NULL]

(* Only the funds of the users in S change.                                *)
OnlyFundsOf(S) ==
  funds' = [u \in Users |-> IF u \in S THEN funds'[u] ELSE funds[u]]

Deposit(u) ==
  /\ funds'[u] \in Nat /\ funds'[u] >= funds[u]
  /\ OnlyFundsOf({u})
  /\ UNCHANGED holds

Withdraw(u) ==
  /\ funds'[u] \in 0..funds[u]
  /\ OnlyFundsOf({u})
  /\ UNCHANGED holds

Transfer(u, v) ==
  /\ u # v
  /\ funds'[v] \in Nat /\ funds'[v] >= funds[v]
  /\ funds'[u] \in 0..(funds[u] - (funds'[v] - funds[v]))
  /\ OnlyFundsOf({u, v})
  /\ UNCHANGED holds

Hold(id, u) ==
  /\ holds[id] = NULL
  /\ funds'[u] \in 0..funds[u]
  /\ holds' = [holds EXCEPT ![id] = [user |-> u, amount |-> funds[u] - funds'[u]]]
  /\ OnlyFundsOf({u})

Release(id) ==
  /\ holds[id] # NULL
  /\ LET u == holds[id].user
     IN /\ funds'[u] \in funds[u]..(funds[u] + holds[id].amount)
        /\ OnlyFundsOf({u})
  /\ holds' = [holds EXCEPT ![id] = NULL]

Next ==
  \/ \E u \in Users : Deposit(u) \/ Withdraw(u) \/ \E v \in Users : Transfer(u, v)
  \/ \E id \in PaymentIds : Release(id) \/ \E u \in Users : Hold(id, u)

Spec == Init /\ [][Next]_wallet
=============================================================================
