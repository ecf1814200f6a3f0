---------------------------- MODULE WalletProofs ----------------------------
(***************************************************************************)
(* The promise of Wallet is worth having: funds and holds stay natural     *)
(* numbers, so nobody can spend what he does not have.                     *)
(***************************************************************************)
EXTENDS Wallet, TLAPS

(* Nobody owes the daemon, and a hold never exceeds what was set aside.    *)
NonNegative ==
  /\ funds \in [Users -> Nat]
  /\ holds \in [PaymentIds -> [user : Users, amount : Nat] \cup {NULL}]

(* A step of Wallet keeps every user's funds at or above zero.             *)
LEMMA WalletStep == NonNegative /\ [Next]_wallet => NonNegative'
<1> SUFFICES ASSUME NonNegative, [Next]_wallet PROVE NonNegative'
  OBVIOUS
<1> USE DEF NonNegative, OnlyFundsOf
<1>1. ASSUME NEW u \in Users, Deposit(u) PROVE NonNegative'
  BY <1>1 DEF Deposit
<1>2. ASSUME NEW u \in Users, Withdraw(u) PROVE NonNegative'
  BY <1>2 DEF Withdraw
<1>3. ASSUME NEW u \in Users, NEW v \in Users, Transfer(u, v) PROVE NonNegative'
  BY <1>3 DEF Transfer
<1>4. ASSUME NEW id \in PaymentIds, NEW u \in Users, Hold(id, u) PROVE NonNegative'
  BY <1>4 DEF Hold
<1>5. ASSUME NEW id \in PaymentIds, Release(id) PROVE NonNegative'
  BY <1>5 DEF Release
<1>6. ASSUME UNCHANGED wallet PROVE NonNegative'
  BY <1>6 DEF wallet
<1> QED
  BY <1>1, <1>2, <1>3, <1>4, <1>5, <1>6 DEF Next

(* No user's funds ever become negative.                                   *)
THEOREM FundsNonNegative == Spec => []NonNegative
<1>1. Init => NonNegative
  BY DEF Init, NonNegative
<1> QED
  BY <1>1, WalletStep, PTL DEF Spec
=============================================================================
