-------------------------- MODULE MCPaymentsCovered --------------------------
(* Instances of PaymentsCovered for TLC; the constants are in the .cfg file. *)
EXTENDS PaymentsCovered, TLC
=============================================================================
