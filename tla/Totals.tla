------------------------------- MODULE Totals -------------------------------
(***************************************************************************)
(* The sums the services compute with reduce() over the rows of a query.   *)
(***************************************************************************)
EXTENDS Integers, FiniteSets, FiniteSetsExt

\* What the elements of S count for in f, added up.
Total(f, S) == MapThenSumSet(LAMBDA x : f[x], S)
=============================================================================
