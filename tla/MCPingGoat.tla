----------------------------- MODULE MCPingGoat -----------------------------
(***************************************************************************)
(* Small instances of PingGoat for TLC.                                    *)
(***************************************************************************)
EXTENDS Claims, TLC

WorkerSymmetry == Permutations(Workers)

=============================================================================
