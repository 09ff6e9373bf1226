---------------------------- MODULE MCTokenQuota ----------------------------
(***************************************************************************)
(* A small instance of TokenQuota: a monthly quota that two chats share    *)
(* and a daily one that is tighter.                                        *)
(***************************************************************************)
EXTENDS TokenQuota, TLC

MonthAndDay == <<3, 2>>
Symmetric == Permutations(Generations)
=============================================================================
