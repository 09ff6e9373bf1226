------------------------- MODULE SettlementContract -------------------------
(***************************************************************************)
(* What one generation job promises the user who pays for it and the       *)
(* platform that pays the Provider, with no worker, lease, recovery pass   *)
(* or crash in sight: the settlement beside the status of the job, at most *)
(* one Provider call that may have been billed, and one balance of credits *)
(* that is either charged with an answer or given back in full.            *)
(***************************************************************************)
EXTENDS Naturals

VARIABLES
    status,      \* "active", "SUCCEEDED", "FAILED" or "CANCELLED"
    settlement,  \* "PENDING", "RESERVED", "RECONCILING", "SETTLED", "RELEASED", "REFUNDED"
    billable,    \* whether a Provider is being called or has answered
    balance,     \* credits taken from the user and not given back
    held         \* scopes of the quota with a live hold of the job

contractVars == <<status, settlement, billable, balance, held>>

Active == status = "active"
Lost   == status \in {"FAILED", "CANCELLED"}
Payable == settlement \in {"PENDING", "RESERVED"}

Init ==
    /\ status = "active"
    /\ settlement \in {"PENDING", "RESERVED"}
    /\ billable = FALSE
    /\ balance \in Nat

\* The holds are complete.
Confirm ==
    /\ Active /\ settlement = "PENDING"
    /\ settlement' = "RESERVED"
    /\ UNCHANGED <<status, billable, balance, held>>

\* A Provider is called only for a job that is paid for, and no second one
\* while the first may bill it.
Call ==
    /\ Active /\ settlement = "RESERVED" /\ ~billable
    /\ billable' = TRUE
    /\ UNCHANGED <<status, settlement, balance, held>>

CallFails ==
    /\ Active /\ Payable /\ billable
    /\ billable' = FALSE
    /\ UNCHANGED <<status, settlement, balance, held>>

\* From here on the job is settled or given back, never called again.
Reconcile ==
    /\ Active \/ Lost
    /\ Payable
    /\ settlement' = "RECONCILING"
    /\ UNCHANGED <<status, billable, balance, held>>

\* The real cost of an answer replaces the estimate.
Adjust ==
    /\ Active /\ settlement = "RECONCILING" /\ billable
    /\ balance' \in Nat
    /\ UNCHANGED <<status, settlement, billable, held>>

Settle ==
    /\ Active /\ settlement = "RECONCILING" /\ billable
    /\ settlement' = "SETTLED"
    /\ held' = {}
    /\ UNCHANGED <<status, billable, balance>>

Succeed ==
    /\ Active /\ settlement = "SETTLED"
    /\ status' = "SUCCEEDED"
    /\ UNCHANGED <<settlement, billable, balance, held>>

\* The job fails, or the user cancels it before an answer was accepted.
GiveUp ==
    /\ Active
    /\ \/ /\ status' = "FAILED"
          /\ settlement \in {"PENDING", "RESERVED", "RECONCILING"}
          /\ settlement' = settlement
       \/ /\ status' = "CANCELLED"
          /\ Payable
          /\ settlement' = IF billable THEN "RECONCILING" ELSE settlement
    /\ UNCHANGED <<billable, balance, held>>

\* The call of a lost job is no longer waited for.
Abandon ==
    /\ Lost /\ settlement \in {"RECONCILING", "RELEASED", "REFUNDED"}
    /\ billable' \in {FALSE, billable}
    /\ UNCHANGED <<status, settlement, balance, held>>

Refund ==
    /\ Lost /\ settlement = "RECONCILING"
    /\ balance' = 0
    /\ UNCHANGED <<status, settlement, billable, held>>

\* Holds go back one by one: those of a lost job, and those of a job whose
\* holds are incomplete, which calls no Provider.
Release ==
    /\ \/ Lost
       \/ Active /\ Payable /\ ~billable
    /\ \E s \in held : held' = held \ {s}
    /\ UNCHANGED <<status, settlement, billable, balance>>

Close ==
    /\ Lost /\ settlement = "RECONCILING"
    /\ balance = 0 /\ held = {}
    /\ settlement' \in {"RELEASED", "REFUNDED"}
    /\ UNCHANGED <<status, billable, balance, held>>

Next ==
    \/ Confirm \/ Call \/ CallFails \/ Reconcile \/ Adjust \/ Settle
    \/ Succeed \/ GiveUp \/ Abandon \/ Refund \/ Release \/ Close

Spec == Init /\ [][Next]_contractVars
=============================================================================
