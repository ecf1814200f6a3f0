-------------------------- MODULE MCPaymentRequest --------------------------
(* An instance of PaymentRequest for TLC; the constants are in the .cfg.   *)
EXTENDS PaymentRequest, TLC
=============================================================================
