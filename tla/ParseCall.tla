----------------------------- MODULE ParseCall ------------------------------
(***************************************************************************)
(* What a caller of ParseFiles gets: all the readable files; or, once ctx  *)
(* is cancelled, only some of them, or no answer ever.                     *)
(***************************************************************************)
VARIABLES outcome, cancelled

callVars == <<outcome, cancelled>>

CallInit == outcome = "running" /\ cancelled \in BOOLEAN

Cancel == cancelled' = TRUE /\ UNCHANGED outcome

Answer ==
    /\ outcome = "running"
    /\ outcome' \in IF cancelled THEN {"all", "some", "hung"} ELSE {"all"}
    /\ UNCHANGED cancelled

CallSpec == CallInit /\ [][Cancel \/ Answer]_callVars

=============================================================================
