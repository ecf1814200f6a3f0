--------------------------- MODULE MCRegistration ---------------------------
(* Instances of Registration for TLC; the constants are in the .cfg files. *)
EXTENDS Registration, TLC

(* Users are interchangeable, and so are invites: both are random keys.    *)
Symmetry == Permutations(Users) \cup Permutations(Invites)
=============================================================================
