------------------------------ MODULE Payments ------------------------------
(***************************************************************************)
(* One order of a user, for credits or for a subscription, with the        *)
(* payment transactions opened for it, the callbacks of the gateway, their *)
(* replay, the expiry scan, and the refunds of the administrators          *)
(* (payments.service.ts, payments.processor.ts and the part of             *)
(* subscriptions.service.ts that activates a paid order).                  *)
(*                                                                         *)
(* A step is one database statement or transaction or one answer of the    *)
(* gateway; every process may die between two steps, and every statement   *)
(* may fail.  The gateway is external: it takes a payment for a checkout   *)
(* that was opened, calls back at least once, and gives money back when    *)
(* asked, whether or not its answer arrives.                               *)
(***************************************************************************)
EXTENDS Naturals, FiniteSets, TLC, Totals

CONSTANTS
    Txs,         \* rows of PaymentTransaction the order may get
    Buyers,      \* requests that check the order out
    Hooks,       \* callbacks the gateway sends, each recorded as an event
    Admins,      \* administrators' requests running at once
    Refunds,     \* rows of PaymentRefund
    Amount,      \* the price of the order
    Credits,     \* the credits it grants
    Idempotent,  \* the gateway honours the Idempotency-Key of a refund
    MaxGiven,    \* bound: times the gateway pays one refund out
    MaxBusy,     \* bound: checkouts, callbacks and administrators' requests at once
    None         \* no transaction, no refund

ASSUME AmountAssumption == Amount \in Nat \ {0} /\ Credits \in Nat /\ {MaxGiven, MaxBusy} \subseteq Nat \ {0}
ASSUME IdempotentAssumption == Idempotent \in BOOLEAN /\ None \notin Txs \cup Refunds
ASSUME TableAssumption == IsFiniteSet(Refunds)

VARIABLES
    order,     \* SubscriptionOrder or RechargeOrder: its type and status
    sub,       \* the UserSubscription created for the order
    credits,   \* whether the order's ledger entry exists, and the user's balance
    txs,       \* the status of each PaymentTransaction
    overdue,   \* transactions whose expiresAt has passed
    payable,   \* checkouts the gateway has opened
    paid,      \* transactions the gateway (or an administrator) received money for
    buyer, hook, event, refunds, given, admin

vars == <<order, sub, credits, txs, overdue, payable, paid, buyer, hook, event, refunds, given, admin>>

TxStatus     == {"none", "PENDING", "PAID", "COMPLETED", "FAILED", "EXPIRED", "REFUNDED"}
RefundStatus == {"none", "REQUESTED", "REVIEW_REQUIRED", "PROCESSING", "GATEWAY_SUCCEEDED",
                 "SUCCEEDED", "FAILED", "REJECTED"}
Lockable     == {"REQUESTED", "REVIEW_REQUIRED", "FAILED"}

NoAdmin == [pc |-> "idle", refund |-> None, already |-> 0, reclaim |-> 0,
            completed |-> FALSE]

Init ==
    /\ order \in [type : {"RECHARGE", "SUBSCRIPTION"}, status : {"PENDING"}]
    /\ sub = "none"
    /\ credits = [granted |-> FALSE, balance |-> 0]
    /\ txs = [t \in Txs |-> "none"]
    /\ overdue = {} /\ payable = {} /\ paid = {}
    /\ buyer = [b \in Buyers |-> [pc |-> "idle", tx |-> None]]
    /\ hook = [h \in Hooks |-> [pc |-> "idle", tx |-> None]]
    /\ event = [h \in Hooks |-> "none"]
    /\ refunds = [r \in Refunds |-> [status |-> "none", tx |-> None, amount |-> 0]]
    /\ given = [r \in Refunds |-> 0]
    /\ admin = [a \in Admins |-> NoAdmin]

gatewayVars == <<overdue, payable, paid>>
refundVars  == <<refunds, given, admin>>
hookVars    == <<hook, event>>

Spare == Cardinality({b \in Buyers : buyer[b].pc # "idle"})
             + Cardinality({h \in Hooks : hook[h].pc # "idle"})
             + Cardinality({a \in Admins : admin[a].pc # "idle"}) < MaxBusy

(***************************************************************************)
(* checkout(): an unexpired transaction of the order is reused, otherwise  *)
(* a row is created, the gateway asked, and its address stored.            *)
(***************************************************************************)
Reusable == {t \in Txs \ overdue : txs[t] \in {"PENDING", "PAID", "COMPLETED"}}

StartCheckout(b) ==
    /\ buyer[b].pc = "idle" /\ Spare
    /\ order.status = "PENDING"
    /\ Reusable = {}
    /\ buyer' = [buyer EXCEPT ![b].pc = "create"]
    /\ UNCHANGED <<order, sub, credits, txs, gatewayVars, hookVars, refundVars>>

CreateTransaction(b) ==
    /\ buyer[b].pc = "create"
    /\ \E t \in Txs :
          /\ txs[t] = "none"
          /\ txs' = [txs EXCEPT ![t] = "PENDING"]
          /\ buyer' = [buyer EXCEPT ![b] = [pc |-> "gateway", tx |-> t]]
    /\ UNCHANGED <<order, sub, credits, gatewayVars, hookVars, refundVars>>

GatewayOpens(b) ==
    /\ buyer[b].pc = "gateway"
    /\ payable' = payable \cup {buyer[b].tx}
    /\ buyer' = [buyer EXCEPT ![b].pc = "store"]
    /\ UNCHANGED <<order, sub, credits, txs, overdue, paid, hookVars, refundVars>>

Depart(b) == buyer' = [buyer EXCEPT ![b] = [pc |-> "idle", tx |-> None]]

\* The address is stored, or the request dies: the row stays as it is.
CheckoutEnds(b) ==
    /\ buyer[b].pc \in {"create", "gateway", "store"}
    /\ Depart(b)
    /\ UNCHANGED <<order, sub, credits, txs, gatewayVars, hookVars, refundVars>>

\* The error is written over whatever the row has become.
CheckoutFails(b) ==
    /\ buyer[b].pc \in {"gateway", "store"}
    /\ txs' = [txs EXCEPT ![buyer[b].tx] = "FAILED"]
    /\ Depart(b)
    /\ UNCHANGED <<order, sub, credits, gatewayVars, hookVars, refundVars>>

BuyerStep(b) ==
    \/ StartCheckout(b) \/ CreateTransaction(b) \/ GatewayOpens(b) \/ CheckoutEnds(b)
    \/ CheckoutFails(b)

(***************************************************************************)
(* The clock, the expiry scan, the payment, the order cancelled.           *)
(***************************************************************************)
\* Only the scan and the checkout of a pending order read the deadline.
PassDeadline ==
    /\ \E t \in Txs \ overdue :
          /\ txs[t] = "PENDING" \/ (txs[t] # "none" /\ order.status = "PENDING")
          /\ overdue' = overdue \cup {t}
    /\ UNCHANGED <<order, sub, credits, txs, payable, paid, buyer, hookVars, refundVars>>

ExpirePending ==
    /\ \E t \in overdue : txs[t] = "PENDING"
    /\ txs' = [t \in Txs |-> IF t \in overdue /\ txs[t] = "PENDING" THEN "EXPIRED" ELSE txs[t]]
    /\ UNCHANGED <<order, sub, credits, gatewayVars, buyer, hookVars, refundVars>>

\* The gateway's page stays open after the transaction expired here.
Pay ==
    /\ \E t \in payable \ paid : paid' = paid \cup {t}
    /\ UNCHANGED <<order, sub, credits, txs, overdue, payable, buyer, hookVars, refundVars>>

\* cancelOrder and cancelOwnOrder; recharge orders are never cancelled.
CancelOrder ==
    /\ order.type = "SUBSCRIPTION" /\ order.status = "PENDING"
    /\ order' = [order EXCEPT !.status = "CANCELLED"]
    /\ UNCHANGED <<sub, credits, txs, gatewayVars, buyer, hookVars, refundVars>>

(***************************************************************************)
(* webhook() and replayWebhookEvent(), each around complete().             *)
(***************************************************************************)
GotoHook(h, label) == hook' = [hook EXCEPT ![h].pc = label]
SetTx(h, status)   == txs' = [txs EXCEPT ![hook[h].tx] = status]

Receive(h) ==
    /\ event[h] = "none" /\ Spare
    /\ \E t \in paid : hook' = [hook EXCEPT ![h] = [pc |-> "load", tx |-> t]]
    /\ event' = [event EXCEPT ![h] = "open"]
    /\ UNCHANGED <<order, sub, credits, txs, gatewayVars, buyer, refundVars>>

Replay(h) ==
    /\ event[h] = "open" /\ hook[h].pc = "idle" /\ Spare
    /\ txs[hook[h].tx] \in {"COMPLETED", "PAID", "FAILED"}
    /\ GotoHook(h, IF txs[hook[h].tx] = "COMPLETED" THEN "processed" ELSE "load")
    /\ UNCHANGED <<order, sub, credits, txs, gatewayVars, buyer, event, refundVars>>

Load(h) ==
    /\ hook[h].pc = "load"
    /\ GotoHook(h, CASE txs[hook[h].tx] = "COMPLETED"                   -> "processed"
                     [] txs[hook[h].tx] \in {"PENDING", "PAID", "FAILED"} -> "pay"
                     [] OTHER                                           -> "idle")
    /\ UNCHANGED <<order, sub, credits, txs, gatewayVars, buyer, event, refundVars>>

MarkTxPaid(h) ==
    /\ hook[h].pc = "pay"
    /\ SetTx(h, "PAID")
    /\ GotoHook(h, "activate")
    /\ UNCHANGED <<order, sub, credits, gatewayVars, buyer, event, refundVars>>

\* Mutant of Acceptable: a late callback revives a refunded order.
AcceptableRefunded == order.status # "CANCELLED"

Acceptable == order.status \notin {"CANCELLED", "REFUNDED"}

\* Mutant of ActivateSubscription: nothing is left to do for an order already PAID.
ActivateOnce(h) ==
    /\ hook[h].pc = "activate"
    /\ order.type = "SUBSCRIPTION"
    /\ IF Acceptable
       THEN /\ order' = [order EXCEPT !.status = "PAID"]
            /\ sub' = IF sub = "none" THEN "ACTIVE" ELSE sub
            /\ GotoHook(h, IF order.status = "PAID" THEN "complete" ELSE "credit")
       ELSE GotoHook(h, "undo") /\ UNCHANGED <<order, sub>>
    /\ UNCHANGED <<credits, txs, gatewayVars, buyer, event, refundVars>>

\* markPaid, one serializable transaction; the credits follow on their own.
ActivateSubscription(h) ==
    /\ hook[h].pc = "activate"
    /\ order.type = "SUBSCRIPTION"
    /\ IF Acceptable
       THEN /\ order' = [order EXCEPT !.status = "PAID"]
            /\ sub' = IF sub = "none" THEN "ACTIVE" ELSE sub
            /\ GotoHook(h, "credit")
       ELSE GotoHook(h, "undo") /\ UNCHANGED <<order, sub>>
    /\ UNCHANGED <<credits, txs, gatewayVars, buyer, event, refundVars>>

\* The ledger entry of the order is found by its idempotency key.
Granted == [granted |-> TRUE, balance |-> IF credits.granted THEN credits.balance
                                          ELSE credits.balance + Credits]

GrantCredits(h) ==
    /\ hook[h].pc = "credit"
    /\ credits' = Granted
    /\ GotoHook(h, "complete")
    /\ UNCHANGED <<order, sub, txs, gatewayVars, buyer, event, refundVars>>

\* completeRecharge reads the order before its transaction.
ReadRecharge(h) ==
    /\ hook[h].pc = "activate"
    /\ order.type = "RECHARGE"
    /\ GotoHook(h, IF Acceptable THEN "recharge" ELSE "undo")
    /\ UNCHANGED <<order, sub, credits, txs, gatewayVars, buyer, event, refundVars>>

Recharge(h) ==
    /\ hook[h].pc = "recharge"
    /\ credits' = Granted
    /\ order' = [order EXCEPT !.status = "PAID"]
    /\ GotoHook(h, "complete")
    /\ UNCHANGED <<sub, txs, gatewayVars, buyer, event, refundVars>>

CompleteTx(h) ==
    /\ hook[h].pc = "complete"
    /\ SetTx(h, "COMPLETED")
    /\ GotoHook(h, "processed")
    /\ UNCHANGED <<order, sub, credits, gatewayVars, buyer, event, refundVars>>

\* The catch of complete(): PAID again, over whatever the row has become.
UndoTx(h) ==
    /\ hook[h].pc = "undo"
    /\ SetTx(h, "PAID")
    /\ GotoHook(h, "idle")
    /\ UNCHANGED <<order, sub, credits, gatewayVars, buyer, event, refundVars>>

MarkProcessed(h) ==
    /\ hook[h].pc = "processed"
    /\ event' = [event EXCEPT ![h] = "processed"]
    /\ GotoHook(h, "idle")
    /\ UNCHANGED <<order, sub, credits, txs, gatewayVars, buyer, refundVars>>

HookFails(h) ==
    /\ hook[h].pc \in {"activate", "credit", "recharge", "complete"}
    /\ GotoHook(h, "undo")
    /\ UNCHANGED <<order, sub, credits, txs, gatewayVars, buyer, event, refundVars>>

HookDies(h) ==
    /\ hook[h].pc # "idle"
    /\ GotoHook(h, "idle")
    /\ UNCHANGED <<order, sub, credits, txs, gatewayVars, buyer, event, refundVars>>

HookStep(h) ==
    \/ Receive(h) \/ Replay(h) \/ Load(h) \/ MarkTxPaid(h) \/ ActivateSubscription(h)
    \/ GrantCredits(h) \/ ReadRecharge(h) \/ Recharge(h) \/ CompleteTx(h) \/ UndoTx(h)
    \/ MarkProcessed(h) \/ HookFails(h) \/ HookDies(h)

(***************************************************************************)
(* createRefund reserves the amount in one serializable transaction, then  *)
(* processRefund reads, reclaims credits, calls the gateway and records.   *)
(***************************************************************************)
orderVars == <<order, sub, txs, gatewayVars, buyer, hookVars>>

GotoAdmin(a, label) == admin' = [admin EXCEPT ![a].pc = label]
Leave(a)            == admin' = [admin EXCEPT ![a] = NoAdmin]
Row(a)              == refunds[admin[a].refund]
SetRefund(a, status) == refunds' = [refunds EXCEPT ![admin[a].refund].status = status]

SumOf(rows) == Total([r \in Refunds |-> refunds[r].amount], rows)
OfTx(t, statuses) == {r \in Refunds : refunds[r].tx = t /\ refunds[r].status \in statuses}

CreateRefund(a) ==
    /\ admin[a].pc = "idle" /\ Spare
    /\ \E r \in Refunds, t \in Txs, n \in 1..Amount :
          /\ refunds[r].status = "none"
          /\ txs[t] \in {"COMPLETED", "REFUNDED"}
          /\ SumOf(OfTx(t, RefundStatus \ {"FAILED", "REJECTED"})) + n <= Amount
          /\ refunds' = [refunds EXCEPT ![r] = [status |-> "REQUESTED", tx |-> t, amount |-> n]]
          /\ admin' = [admin EXCEPT ![a] = [NoAdmin EXCEPT !.pc = "load", !.refund = r]]
    /\ UNCHANGED <<orderVars, credits, given>>

ProcessRefund(a) ==
    /\ admin[a].pc = "idle" /\ Spare
    /\ \E r \in Refunds :
          /\ refunds[r].status \in Lockable \cup {"GATEWAY_SUCCEEDED"}
          /\ admin' = [admin EXCEPT ![a] = [NoAdmin EXCEPT !.pc = "load", !.refund = r]]
    /\ UNCHANGED <<orderVars, credits, refunds, given>>

\* refundCredits: the share of the credits this amount adds to what is already back.
Share(cents) == (Credits * cents) \div Amount

RefundCredits(already, n) ==
    LET after == Share(IF already + n < Amount THEN already + n ELSE Amount)
    IN  IF after > Share(already) THEN after - Share(already) ELSE 0

AlreadyBack(a) == SumOf(OfTx(Row(a).tx, {"SUCCEEDED"}))
Reclaimable(a) == RefundCredits(AlreadyBack(a), Row(a).amount)
Workable(a)    == admin[a].pc = "load" /\ Row(a).status \in Lockable \cup {"GATEWAY_SUCCEEDED"}
Returned(a)    == Row(a).status = "GATEWAY_SUCCEEDED"

\* The reads of processRefund, as one; what they found is used until the end.
Assess(a) ==
    /\ Workable(a)
    /\ Returned(a) \/ Reclaimable(a) <= credits.balance
    /\ admin' = [admin EXCEPT ![a] =
           [@ EXCEPT !.pc = IF Returned(a) THEN "final" ELSE "lock",
                     !.already = AlreadyBack(a), !.completed = Returned(a),
                     !.reclaim = IF Returned(a) THEN 0 ELSE Reclaimable(a)]]
    /\ UNCHANGED <<orderVars, credits, refunds, given>>

\* Not enough credits left, or a manual refund not confirmed yet.
AssessForReview(a) ==
    /\ Workable(a) /\ ~Returned(a)
    /\ GotoAdmin(a, "review")
    /\ UNCHANGED <<orderVars, credits, refunds, given>>

Review(a) ==
    /\ admin[a].pc = "review"
    /\ SetRefund(a, "REVIEW_REQUIRED")
    /\ Leave(a)
    /\ UNCHANGED <<orderVars, credits, given>>

LockRefund(a) ==
    /\ admin[a].pc = "lock"
    /\ IF Row(a).status \in Lockable THEN SetRefund(a, "PROCESSING") /\ GotoAdmin(a, "reclaim")
                                     ELSE Leave(a) /\ UNCHANGED refunds
    /\ UNCHANGED <<orderVars, credits, given>>

\* Mutant of Reclaim: the balance read before is trusted.
ReclaimUnchecked(a) ==
    /\ admin[a].pc = "reclaim"
    /\ credits' = [credits EXCEPT !.balance = @ - admin[a].reclaim]
    /\ GotoAdmin(a, "gateway")
    /\ UNCHANGED <<orderVars, refunds, given>>

\* The balance is checked again by the ledger, and may have been spent.
Reclaim(a) ==
    /\ admin[a].pc = "reclaim"
    /\ IF admin[a].reclaim <= credits.balance
       THEN credits' = [credits EXCEPT !.balance = @ - admin[a].reclaim] /\ GotoAdmin(a, "gateway")
       ELSE GotoAdmin(a, "catch") /\ UNCHANGED credits
    /\ UNCHANGED <<orderVars, refunds, given>>

\* Without the Idempotency-Key a repeated call pays again.
GatewayRefunds(a) ==
    /\ admin[a].pc = "gateway"
    /\ LET r == admin[a].refund IN
          /\ given[r] < MaxGiven
          /\ given' = [given EXCEPT ![r] = IF Idempotent THEN 1 ELSE @ + 1]
    /\ \/ admin' = [admin EXCEPT ![a] = [@ EXCEPT !.pc = "mark", !.completed = TRUE, !.reclaim = 0]]
       \/ GotoAdmin(a, "restore")  \* the answer is lost
    /\ UNCHANGED <<orderVars, credits, refunds>>

GatewayRefuses(a) ==
    /\ admin[a].pc = "gateway"
    /\ GotoAdmin(a, "restore")
    /\ UNCHANGED <<orderVars, credits, refunds, given>>

\* An error of the restore itself is swallowed.
Restore(a) ==
    /\ admin[a].pc = "restore"
    /\ credits' \in {credits, [credits EXCEPT !.balance = @ + admin[a].reclaim]}
    /\ admin' = [admin EXCEPT ![a] = [@ EXCEPT !.pc = "catch", !.reclaim = 0]]
    /\ UNCHANGED <<orderVars, refunds, given>>

MarkGateway(a) ==
    /\ admin[a].pc = "mark"
    /\ SetRefund(a, "GATEWAY_SUCCEEDED")
    /\ GotoAdmin(a, "final")
    /\ UNCHANGED <<orderVars, credits, given>>

\* One transaction, without a look at what refund, transaction and order are.
Finalize(a) ==
    /\ admin[a].pc = "final"
    /\ SetRefund(a, "SUCCEEDED")
    /\ IF admin[a].already + Row(a).amount = Amount
       THEN /\ txs' = [txs EXCEPT ![Row(a).tx] = "REFUNDED"]
            /\ order' = [order EXCEPT !.status = "REFUNDED"]
            /\ sub' = IF sub = "ACTIVE" THEN "CANCELLED" ELSE sub
       ELSE UNCHANGED <<txs, order, sub>>
    /\ Leave(a)
    /\ UNCHANGED <<credits, given, gatewayVars, buyer, hookVars>>

RefundFails(a) ==
    /\ admin[a].pc \in {"reclaim", "mark", "final"}
    /\ GotoAdmin(a, "catch")
    /\ UNCHANGED <<orderVars, credits, refunds, given>>

\* Mutant of Recoverable: a refund that reached the gateway counts as done.
RecoverableOnceSent(a) == TRUE

Recoverable(a) == admin[a].completed \/ Row(a).status = "GATEWAY_SUCCEEDED"

CatchRefund(a) ==
    /\ admin[a].pc = "catch"
    /\ SetRefund(a, IF Recoverable(a) THEN "GATEWAY_SUCCEEDED" ELSE "FAILED")
    /\ Leave(a)
    /\ UNCHANGED <<orderVars, credits, given>>

ReadForReject(a) ==
    /\ admin[a].pc = "idle" /\ Spare
    /\ \E r \in Refunds :
          /\ refunds[r].status \in Lockable
          /\ admin' = [admin EXCEPT ![a] = [NoAdmin EXCEPT !.pc = "reject", !.refund = r]]
    /\ UNCHANGED <<orderVars, credits, refunds, given>>

RejectRefund(a) ==
    /\ admin[a].pc = "reject"
    /\ SetRefund(a, "REJECTED")
    /\ Leave(a)
    /\ UNCHANGED <<orderVars, credits, given>>

AdminDies(a) ==
    /\ admin[a].pc # "idle"
    /\ Leave(a)
    /\ UNCHANGED <<orderVars, credits, refunds, given>>

AdminStep(a) ==
    \/ CreateRefund(a) \/ ProcessRefund(a) \/ Assess(a)
    \/ AssessForReview(a) \/ Review(a)
    \/ LockRefund(a) \/ Reclaim(a) \/ GatewayRefunds(a) \/ GatewayRefuses(a) \/ Restore(a)
    \/ MarkGateway(a) \/ Finalize(a) \/ RefundFails(a) \/ CatchRefund(a)
    \/ ReadForReject(a) \/ RejectRefund(a) \/ AdminDies(a)

\* The user spends credits on something else.
SpendCredits ==
    /\ credits.balance > 0
    /\ credits' = [credits EXCEPT !.balance = @ - 1]
    /\ UNCHANGED <<orderVars, refundVars>>

Next ==
    \/ \E b \in Buyers : BuyerStep(b)
    \/ PassDeadline \/ ExpirePending \/ Pay \/ CancelOrder \/ SpendCredits
    \/ \E h \in Hooks : HookStep(h)
    \/ \E a \in Admins : AdminStep(a)

Spec == Init /\ [][Next]_vars

-----------------------------------------------------------------------------
\* Every row and every local variable has the shape of its schema.
TypeOK ==
    /\ order \in [type : {"RECHARGE", "SUBSCRIPTION"},
                  status : {"PENDING", "PAID", "CANCELLED", "REFUNDED"}]
    /\ sub \in {"none", "ACTIVE", "CANCELLED"}
    /\ credits \in [granted : BOOLEAN, balance : Nat]
    /\ txs \in [Txs -> TxStatus]
    /\ overdue \subseteq Txs /\ payable \subseteq Txs /\ paid \subseteq payable
    /\ buyer \in [Buyers -> [pc : {"idle", "create", "gateway", "store"}, tx : Txs \cup {None}]]
    /\ hook \in [Hooks -> [pc : {"idle", "load", "pay", "activate", "credit", "recharge",
                                 "complete", "undo", "processed"}, tx : Txs \cup {None}]]
    /\ event \in [Hooks -> {"none", "open", "processed"}]
    /\ refunds \in [Refunds -> [status : RefundStatus, tx : Txs \cup {None}, amount : 0..Amount]]
    /\ given \in [Refunds -> Nat]
    /\ admin \in [Admins -> [pc : {"idle", "load", "review", "lock", "reclaim", "gateway",
                                   "restore", "mark", "final", "catch", "reject"},
                             refund : Refunds \cup {None}, already : Nat,
                             reclaim : 0..Credits, completed : BOOLEAN]]

\* A transaction that is COMPLETED, a callback marked processed and a refund
\* that exists all stand for an order whose money came in and whose credits
\* were granted, however callbacks, replays, failures and expiry interleave.
CompletedIsGranted ==
    /\ \A t \in Txs : txs[t] \in {"COMPLETED", "REFUNDED"} => credits.granted /\ t \in paid
    /\ \A h \in Hooks : event[h] = "processed" => credits.granted
    /\ \A r \in Refunds : refunds[r].status # "none" => credits.granted /\ refunds[r].tx \in paid

\* A refund reported as done was paid out by the gateway, whatever
\* administrators process or reject it at the same time and fail half-way.
DoneIsPaidOut ==
    \A r \in Refunds : refunds[r].status \in {"GATEWAY_SUCCEEDED", "SUCCEEDED"} => given[r] > 0

\* A refunded subscription order stays refunded and its subscription stays
\* ended: no callback that began before the refund, and no replay after it,
\* brings either back.
RefundEndsSubscription ==
    [][order.type = "SUBSCRIPTION" /\ order.status = "REFUNDED" =>
          order'.status = "REFUNDED" /\ sub' # "ACTIVE"]_vars
=============================================================================
