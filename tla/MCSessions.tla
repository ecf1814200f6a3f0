----------------------------- MODULE MCSessions -----------------------------
(* Instances of Sessions for TLC; the constants are in the .cfg files.     *)
EXTENDS Sessions, TLC
=============================================================================
