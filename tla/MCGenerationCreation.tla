------------------------- MODULE MCGenerationCreation -------------------------
(***************************************************************************)
(* GenerationCreation for TLC: every delivery on a process of its own.     *)
(***************************************************************************)
EXTENDS GenerationCreation

\* Every delivery runs on its own server process.
OwnProcess == [d \in Deliveries |-> d]

\* The month and the day are reserved alike.
Symmetric == Permutations(Scopes)
=============================================================================
