----------------------------- MODULE MCPayments -----------------------------
(***************************************************************************)
(* Payments for TLC.                                                       *)
(***************************************************************************)
EXTENDS Payments

Symmetric == Permutations(Hooks) \cup Permutations(Admins) \cup Permutations(Refunds)
                 \cup Permutations(Txs) \cup Permutations(Buyers)
=============================================================================
