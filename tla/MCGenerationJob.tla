-------------------------- MODULE MCGenerationJob --------------------------
(***************************************************************************)
(* GenerationJob for TLC: deliveries on processes of their own, or all on  *)
(* one process (a worker runs up to twenty deliveries at once).            *)
(***************************************************************************)
EXTENDS GenerationJob

\* Every delivery runs on its own server process.
OwnProcess == [d \in Deliveries |-> d]

\* Every delivery runs on one server process.
SharedProcess == [d \in Deliveries |-> CHOOSE p \in Processes : TRUE]

Symmetric == Permutations(Deliveries) \cup Permutations(AttemptIds) \cup Permutations(Scopes)
=============================================================================
