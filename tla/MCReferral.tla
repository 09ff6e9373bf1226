----------------------------- MODULE MCReferral -----------------------------
(***************************************************************************)
(* Referral for TLC.                                                       *)
(***************************************************************************)
EXTENDS Referral
=============================================================================
