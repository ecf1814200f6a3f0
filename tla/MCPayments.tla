----------------------------- MODULE MCPayments -----------------------------
(* Payments with every hazard of the environment allowed.                  *)
EXTENDS PaymentsWallet, TLC
=============================================================================
