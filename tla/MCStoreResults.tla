--------------------------- MODULE MCStoreResults ---------------------------
(***************************************************************************)
(* A small instance of StoreResults for TLC, with the order of docTypes.   *)
(***************************************************************************)
EXTENDS StoreResults

CONSTANTS readme, quickstart, diagram

DocPlaces ==
    [d \in DocTypes |-> CASE d = readme -> 1 [] d = quickstart -> 2 [] d = diagram -> 3]

=============================================================================
