-------------------------------- MODULE MCApi -------------------------------
(***************************************************************************)
(* A small instance of Api for TLC.                                        *)
(***************************************************************************)
EXTENDS Api, TLC

ApiSymmetry == Permutations(Emails) \cup Permutations(Passwords)

=============================================================================
