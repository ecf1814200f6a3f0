------------------------------- MODULE MCFeed -------------------------------
(* Instances of Feed for TLC; the constants are in the .cfg files.         *)
EXTENDS Feed, TLC
=============================================================================
