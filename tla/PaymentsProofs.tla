--------------------------- MODULE PaymentsProofs ---------------------------
(***************************************************************************)
(* Proofs about Payments, for any number of transactions, callbacks,       *)
(* refunds and administrators, with or without idempotent refunds of the   *)
(* gateway: what is COMPLETED was granted, what is reported as paid back   *)
(* was paid back, a refunded subscription stays ended, and every amount is *)
(* in its range.                                                           *)
(***************************************************************************)
EXTENDS Payments, TotalsProofs

HookLabels  == {"idle", "load", "pay", "activate", "credit", "recharge", "complete", "undo",
                "processed"}
AdminLabels == {"idle", "load", "review", "lock", "reclaim", "gateway", "restore", "mark",
                "final", "catch", "reject"}
AdminFields == {"pc", "refund", "already", "reclaim", "completed"}

\* The shapes the properties of the money depend on.  What the amounts are is
\* left to the last part, which reasons about sums over sets of refunds.
OrderShape ==
    /\ order \in [type : {"RECHARGE", "SUBSCRIPTION"},
                  status : {"PENDING", "PAID", "CANCELLED", "REFUNDED"}]
    /\ credits = [field \in {"granted", "balance"} |-> credits[field]]
    /\ txs \in [Txs -> TxStatus]

HookShape ==
    /\ hook \in [Hooks -> [pc : HookLabels, tx : Txs \cup {None}]]
    /\ event \in [Hooks -> {"none", "open", "processed"}]

RefundShape ==
    /\ refunds \in [Refunds -> [status : RefundStatus, tx : Txs \cup {None}, amount : Nat]]
    /\ given \in [Refunds -> Nat]
    /\ admin = [a \in Admins |-> admin[a]]
    /\ \A a \in Admins :
          /\ admin[a] = [field \in AdminFields |-> admin[a][field]]
          /\ admin[a].pc \in AdminLabels /\ admin[a].refund \in Refunds \cup {None}

GatewayShape ==
    /\ payable \subseteq Txs /\ paid \subseteq Txs
    /\ buyer \in [Buyers -> [pc : {"idle", "create", "gateway", "store"}, tx : Txs \cup {None}]]
    /\ \A b \in Buyers : buyer[b].pc \in {"gateway", "store"} => buyer[b].tx \in Txs

\* What a callback knows of the order, whatever happened since.
HookKnows ==
    \A h \in Hooks :
        /\ hook[h].pc # "idle" \/ event[h] # "none" => hook[h].tx \in paid
        /\ hook[h].pc \in {"complete", "processed"} => credits.granted
        /\ hook[h].pc = "recharge" => order.type = "RECHARGE"

\* What an administrator's request knows of its refund.
AdminKnows ==
    \A a \in Admins :
        /\ admin[a].pc # "idle" => /\ admin[a].refund \in Refunds
                                   /\ refunds[admin[a].refund].status # "none"
        /\ admin[a].pc \in {"mark", "final"} => given[admin[a].refund] > 0
        /\ admin[a].pc # "idle" /\ admin[a].completed => given[admin[a].refund] > 0

Ended == order.status = "REFUNDED" => sub # "ACTIVE"

Inv ==
    /\ OrderShape /\ HookShape /\ RefundShape /\ GatewayShape
    /\ HookKnows /\ AdminKnows /\ Ended
    /\ CompletedIsGranted /\ DoneIsPaidOut

-----------------------------------------------------------------------------
LEMMA InitInv == Init => Inv
<1>. SUFFICES ASSUME Init PROVE Inv
  OBVIOUS
<1>. USE DEF Init
<1>1. OrderShape /\ HookShape /\ GatewayShape
  BY DEF OrderShape, HookShape, GatewayShape, TxStatus, HookLabels
<1>2. RefundShape
  BY DEF RefundShape, RefundStatus, AdminLabels, AdminFields, NoAdmin
<1>3. HookKnows /\ AdminKnows /\ Ended
  BY DEF HookKnows, AdminKnows, Ended, NoAdmin
<1>4. CompletedIsGranted /\ DoneIsPaidOut
  BY DEF CompletedIsGranted, DoneIsPaidOut
<1>. QED BY <1>1, <1>2, <1>3, <1>4 DEF Inv

-----------------------------------------------------------------------------
(***************************************************************************)
(* The callbacks.                                                          *)
(***************************************************************************)
\* What no callback touches.
LEMMA HookFrame ==
    ASSUME Inv, UNCHANGED <<gatewayVars, buyer, refundVars>>
    PROVE  RefundShape' /\ GatewayShape' /\ AdminKnows' /\ DoneIsPaidOut'
BY DEF Inv, RefundShape, GatewayShape, AdminKnows, DoneIsPaidOut, gatewayVars, refundVars

\* A callback goes to another place and what it must know there is true.
LEMMA HookGoes ==
    ASSUME Inv, NEW h \in Hooks, NEW label \in HookLabels,
           hook' = [hook EXCEPT ![h].pc = label],
           event' = event \/ event' = [event EXCEPT ![h] = "processed"],
           hook[h].pc # "idle" \/ event[h] # "none",
           UNCHANGED paid, order'.type = order.type, credits.granted => credits'.granted,
           label \in {"complete", "processed"} => credits'.granted,
           label = "recharge" => order.type = "RECHARGE"
    PROVE  HookShape' /\ HookKnows' /\ hook[h].tx \in paid
<1>. USE DEF Inv
<1>1. \A g \in Hooks : /\ hook'[g].pc = IF g = h THEN label ELSE hook[g].pc
                       /\ hook'[g].tx = hook[g].tx
  BY DEF HookShape
<1>2. \A g \in Hooks : event'[g] = event[g] \/ (g = h /\ event'[g] = "processed")
  BY DEF HookShape
<1>3. HookShape'
  BY DEF HookShape
<1>4. hook[h].tx \in paid
  BY DEF HookKnows
<1>5. HookKnows'
  BY <1>1, <1>2, <1>4 DEF HookKnows
<1>. QED BY <1>3, <1>4, <1>5

\* What is granted stays granted; a transaction becomes COMPLETED when it is.
LEMMA StaysGranted ==
    ASSUME Inv, credits.granted => credits'.granted, paid \subseteq paid',
           \A t \in Txs : txs'[t] \in {"COMPLETED", "REFUNDED"} =>
               txs[t] \in {"COMPLETED", "REFUNDED"} \/ (credits'.granted /\ t \in paid'),
           \A h \in Hooks : event'[h] = "processed" => event[h] = "processed" \/ credits'.granted,
           \A r \in Refunds : refunds'[r].status # "none" =>
               \/ refunds[r].status # "none" /\ refunds'[r].tx = refunds[r].tx
               \/ credits'.granted /\ refunds'[r].tx \in paid'
    PROVE  CompletedIsGranted'
BY DEF Inv, CompletedIsGranted

LEMMA ReceiveInv == ASSUME Inv, NEW h \in Hooks, Receive(h) PROVE Inv'
<1>. USE DEF Inv
<1>1. /\ UNCHANGED <<order, sub, credits, txs, gatewayVars, buyer, refundVars>>
      /\ event' = [event EXCEPT ![h] = "open"]
      /\ \E t \in paid : hook' = [hook EXCEPT ![h] = [pc |-> "load", tx |-> t]]
  BY DEF Receive
<1>2. PICK t \in paid : hook' = [hook EXCEPT ![h] = [pc |-> "load", tx |-> t]]
  BY <1>1
<1>3. HookShape'
  BY <1>1, <1>2 DEF HookShape, GatewayShape, HookLabels
<1>4. HookKnows'
  BY <1>1, <1>2 DEF HookKnows, HookShape, gatewayVars
<1>5. CompletedIsGranted'
  BY <1>1 DEF CompletedIsGranted, HookShape, gatewayVars, refundVars
<1>6. OrderShape' /\ Ended'
  BY <1>1 DEF OrderShape, Ended
<1>. QED BY <1>1, <1>3, <1>4, <1>5, <1>6, HookFrame

\* A step that only moves a callback.
LEMMA HookMoves ==
    ASSUME Inv, NEW h \in Hooks, NEW label \in HookLabels, GotoHook(h, label),
           UNCHANGED <<order, sub, credits, txs, gatewayVars, buyer, event, refundVars>>,
           hook[h].pc # "idle" \/ event[h] # "none",
           label \in {"complete", "processed"} => credits.granted,
           label = "recharge" => order.type = "RECHARGE"
    PROVE  Inv'
<1>. USE DEF Inv
<1>1. HookShape' /\ HookKnows'
  BY HookGoes DEF GotoHook, gatewayVars
<1>2. CompletedIsGranted' /\ OrderShape' /\ Ended'
  BY DEF CompletedIsGranted, OrderShape, Ended, gatewayVars, refundVars
<1>. QED BY <1>1, <1>2, HookFrame

LEMMA ReplayInv == ASSUME Inv, NEW h \in Hooks, Replay(h) PROVE Inv'
<1>1. PICK label \in {"processed", "load"} :
        GotoHook(h, label) /\ (label = "processed" => txs[hook[h].tx] = "COMPLETED")
  BY DEF Replay
<1>2. event[h] # "none" /\ hook[h].tx \in Txs
  BY DEF Replay, Inv, HookKnows, GatewayShape
<1>3. label = "processed" => credits.granted
  BY <1>1, <1>2 DEF Inv, CompletedIsGranted
<1>. QED BY <1>1, <1>2, <1>3, HookMoves DEF Replay, HookLabels

LEMMA LoadInv == ASSUME Inv, NEW h \in Hooks, Load(h) PROVE Inv'
<1>1. PICK label \in {"processed", "pay", "idle"} :
        GotoHook(h, label) /\ (label = "processed" => txs[hook[h].tx] = "COMPLETED")
  BY DEF Load
<1>2. hook[h].pc # "idle" /\ hook[h].tx \in Txs
  BY DEF Load, Inv, HookKnows, GatewayShape
<1>3. label = "processed" => credits.granted
  BY <1>1, <1>2 DEF Inv, CompletedIsGranted
<1>. QED BY <1>1, <1>2, <1>3, HookMoves DEF Load, HookLabels

\* A write of the transaction of a callback.
LEMMA TxStep ==
    ASSUME Inv, NEW h \in Hooks, NEW label \in HookLabels, NEW status \in {"PAID", "COMPLETED"},
           GotoHook(h, label), SetTx(h, status),
           UNCHANGED <<order, sub, credits, gatewayVars, buyer, event, refundVars>>,
           hook[h].pc # "idle", label \notin {"complete", "recharge"},
           label = "processed" \/ status = "COMPLETED" => credits.granted
    PROVE  Inv'
<1>. USE DEF Inv
<1>1. HookShape' /\ HookKnows' /\ hook[h].tx \in paid
  BY HookGoes DEF GotoHook, gatewayVars
<1>2. txs' = [txs EXCEPT ![hook[h].tx] = status]
  BY DEF SetTx
<1>3. CompletedIsGranted'
  BY <1>1, <1>2, StaysGranted DEF OrderShape, gatewayVars, refundVars
<1>4. OrderShape' /\ Ended'
  BY <1>2 DEF OrderShape, Ended, TxStatus
<1>. QED BY <1>1, <1>3, <1>4, HookFrame

LEMMA MarkTxPaidInv == ASSUME Inv, NEW h \in Hooks, MarkTxPaid(h) PROVE Inv'
BY TxStep DEF MarkTxPaid, HookLabels

LEMMA UndoTxInv == ASSUME Inv, NEW h \in Hooks, UndoTx(h) PROVE Inv'
BY TxStep DEF UndoTx, HookLabels

LEMMA CompleteTxInv == ASSUME Inv, NEW h \in Hooks, CompleteTx(h) PROVE Inv'
<1>1. credits.granted
  BY DEF Inv, HookKnows, CompleteTx
<1>. QED BY <1>1, TxStep DEF CompleteTx, HookLabels

LEMMA ActivateSubscriptionInv == ASSUME Inv, NEW h \in Hooks, ActivateSubscription(h) PROVE Inv'
<1>. USE DEF Inv
<1>1. /\ UNCHANGED <<credits, txs, gatewayVars, buyer, event, refundVars>> /\ hook[h].pc # "idle"
  BY DEF ActivateSubscription
<1>2. CASE ~Acceptable
  BY <1>1, <1>2, HookMoves DEF ActivateSubscription, HookLabels
<1>3. CASE Acceptable
  <2>1. /\ GotoHook(h, "credit") /\ order' = [order EXCEPT !.status = "PAID"]
        /\ sub' = IF sub = "none" THEN "ACTIVE" ELSE sub
    BY <1>3 DEF ActivateSubscription
  <2>2. OrderShape' /\ Ended' /\ order'.type = order.type
    BY <1>1, <2>1 DEF OrderShape, Ended
  <2>3. HookShape' /\ HookKnows'
    BY <1>1, <2>1, <2>2, HookGoes DEF GotoHook, gatewayVars, HookLabels
  <2>4. CompletedIsGranted'
    BY <1>1 DEF CompletedIsGranted, gatewayVars, refundVars
  <2>. QED BY <1>1, <2>2, <2>3, <2>4, HookFrame
<1>. QED BY <1>2, <1>3

\* The ledger finds the entry of the order or writes it: granted either way.
LEMMA GrantStep ==
    ASSUME Inv, NEW h \in Hooks, GotoHook(h, "complete"), credits' = Granted, hook[h].pc # "idle",
           UNCHANGED <<sub, txs, gatewayVars, buyer, event, refundVars>>,
           order' = order \/ (order' = [order EXCEPT !.status = "PAID"])
    PROVE  Inv'
<1>. USE DEF Inv
<1>1. credits'.granted /\ credits' = [field \in {"granted", "balance"} |-> credits'[field]]
  BY DEF Granted
<1>2. OrderShape' /\ order'.type = order.type /\ Ended'
  BY <1>1 DEF OrderShape, Ended
<1>3. HookShape' /\ HookKnows'
  BY <1>1, <1>2, HookGoes DEF GotoHook, gatewayVars, HookLabels
<1>4. CompletedIsGranted'
  BY <1>1, StaysGranted DEF gatewayVars, refundVars
<1>. QED BY <1>2, <1>3, <1>4, HookFrame

LEMMA GrantCreditsInv == ASSUME Inv, NEW h \in Hooks, GrantCredits(h) PROVE Inv'
BY GrantStep DEF GrantCredits

LEMMA RechargeInv == ASSUME Inv, NEW h \in Hooks, Recharge(h) PROVE Inv'
BY GrantStep DEF Recharge

LEMMA ReadRechargeInv == ASSUME Inv, NEW h \in Hooks, ReadRecharge(h) PROVE Inv'
<1>1. PICK label \in {"recharge", "undo"} : GotoHook(h, label)
  BY DEF ReadRecharge
<1>. QED BY <1>1, HookMoves DEF ReadRecharge, HookLabels

LEMMA MarkProcessedInv == ASSUME Inv, NEW h \in Hooks, MarkProcessed(h) PROVE Inv'
<1>. USE DEF Inv
<1>1. /\ UNCHANGED <<order, sub, credits, txs, gatewayVars, buyer, refundVars>>
      /\ event' = [event EXCEPT ![h] = "processed"] /\ GotoHook(h, "idle") /\ hook[h].pc # "idle"
      /\ credits.granted
  BY DEF MarkProcessed, HookKnows
<1>2. HookShape' /\ HookKnows'
  BY <1>1, HookGoes DEF GotoHook, gatewayVars, HookLabels
<1>3. CompletedIsGranted'
  BY <1>1, StaysGranted DEF gatewayVars, refundVars
<1>4. OrderShape' /\ Ended'
  BY <1>1 DEF OrderShape, Ended
<1>. QED BY <1>1, <1>2, <1>3, <1>4, HookFrame

LEMMA HookFailsInv == ASSUME Inv, NEW h \in Hooks, HookFails(h) PROVE Inv'
BY HookMoves DEF HookFails, HookLabels

LEMMA HookDiesInv == ASSUME Inv, NEW h \in Hooks, HookDies(h) PROVE Inv'
BY HookMoves DEF HookDies, HookLabels

-----------------------------------------------------------------------------
(***************************************************************************)
(* The checkouts, the clock, the payments and the user.                    *)
(***************************************************************************)
\* A step of the buyers or of the environment: no transaction becomes COMPLETED.
LEMMA PlainStep ==
    ASSUME Inv, UNCHANGED <<hookVars, refundVars>>,
           OrderShape', GatewayShape', Ended',
           paid \subseteq paid', credits'.granted = credits.granted, order'.type = order.type,
           \A t \in Txs : txs'[t] \in {"COMPLETED", "REFUNDED"} => txs'[t] = txs[t]
    PROVE  Inv'
<1>. USE DEF Inv
<1>1. HookShape' /\ RefundShape'
  BY DEF HookShape, RefundShape, hookVars, refundVars
<1>2. HookKnows' /\ AdminKnows' /\ DoneIsPaidOut'
  BY DEF HookKnows, AdminKnows, DoneIsPaidOut, hookVars, refundVars
<1>3. CompletedIsGranted'
  BY StaysGranted DEF hookVars, refundVars
<1>. QED BY <1>1, <1>2, <1>3

LEMMA BuyerInv == ASSUME Inv, NEW b \in Buyers, BuyerStep(b) PROVE Inv'
<1>. USE DEF Inv, hookVars, refundVars, gatewayVars
<1>1. UNCHANGED <<order, sub, credits, overdue, paid, hookVars, refundVars>> /\ Ended'
  BY DEF BuyerStep, StartCheckout, CreateTransaction, GatewayOpens, CheckoutEnds, CheckoutFails, Ended
<1>2. CASE StartCheckout(b)
  BY <1>1, <1>2, PlainStep DEF StartCheckout, OrderShape, GatewayShape
<1>3. CASE CreateTransaction(b)
  <2>1. PICK t \in Txs : /\ txs' = [txs EXCEPT ![t] = "PENDING"]
                         /\ buyer' = [buyer EXCEPT ![b] = [pc |-> "gateway", tx |-> t]]
    BY <1>3 DEF CreateTransaction
  <2>2. OrderShape'
    BY <1>1, <2>1 DEF OrderShape, TxStatus
  <2>3. GatewayShape' /\ \A u \in Txs : txs'[u] \in {"COMPLETED", "REFUNDED"} => txs'[u] = txs[u]
    BY <1>1, <1>3, <2>1 DEF CreateTransaction, GatewayShape, OrderShape
  <2>. QED BY <1>1, <2>2, <2>3, PlainStep
<1>4. CASE GatewayOpens(b)
  <2>1. /\ payable' = payable \cup {buyer[b].tx} /\ buyer' = [buyer EXCEPT ![b].pc = "store"]
        /\ UNCHANGED txs /\ buyer[b].tx \in Txs
    BY <1>4 DEF GatewayOpens, GatewayShape
  <2>2. OrderShape' /\ GatewayShape'
    BY <1>1, <2>1 DEF OrderShape, GatewayShape
  <2>. QED BY <1>1, <2>1, <2>2, PlainStep
<1>5. CASE CheckoutEnds(b)
  <2>1. OrderShape' /\ GatewayShape'
    BY <1>1, <1>5 DEF CheckoutEnds, Depart, OrderShape, GatewayShape
  <2>. QED BY <1>1, <1>5, <2>1, PlainStep DEF CheckoutEnds
<1>6. CASE CheckoutFails(b)
  <2>1. txs' = [txs EXCEPT ![buyer[b].tx] = "FAILED"] /\ UNCHANGED payable
    BY <1>6 DEF CheckoutFails
  <2>2. OrderShape' /\ \A u \in Txs : txs'[u] \in {"COMPLETED", "REFUNDED"} => txs'[u] = txs[u]
    BY <1>1, <2>1 DEF OrderShape, TxStatus
  <2>3. GatewayShape'
    BY <1>1, <1>6, <2>1 DEF CheckoutFails, Depart, GatewayShape
  <2>. QED BY <1>1, <2>2, <2>3, PlainStep
<1>. QED BY <1>2, <1>3, <1>4, <1>5, <1>6 DEF BuyerStep

LEMMA PassDeadlineInv == ASSUME Inv, PassDeadline PROVE Inv'
<1>1. OrderShape' /\ GatewayShape' /\ Ended'
  BY DEF PassDeadline, Inv, OrderShape, GatewayShape, Ended
<1>. QED BY <1>1, PlainStep DEF PassDeadline

LEMMA ExpirePendingInv == ASSUME Inv, ExpirePending PROVE Inv'
<1>1. OrderShape' /\ \A t \in Txs : txs'[t] \in {"COMPLETED", "REFUNDED"} => txs'[t] = txs[t]
  BY DEF ExpirePending, Inv, OrderShape, TxStatus
<1>2. GatewayShape' /\ Ended'
  BY DEF ExpirePending, Inv, GatewayShape, Ended, gatewayVars
<1>. QED BY <1>1, <1>2, PlainStep DEF ExpirePending, gatewayVars

LEMMA PayInv == ASSUME Inv, Pay PROVE Inv'
<1>1. OrderShape' /\ GatewayShape' /\ Ended'
  BY DEF Pay, Inv, OrderShape, GatewayShape, Ended
<1>. QED BY <1>1, PlainStep DEF Pay

LEMMA CancelOrderInv == ASSUME Inv, CancelOrder PROVE Inv'
<1>1. OrderShape' /\ Ended' /\ order'.type = order.type
  BY DEF CancelOrder, Inv, OrderShape, Ended
<1>2. GatewayShape'
  BY DEF CancelOrder, Inv, GatewayShape, gatewayVars
<1>. QED BY <1>1, <1>2, PlainStep DEF CancelOrder, gatewayVars

LEMMA SpendCreditsInv == ASSUME Inv, SpendCredits PROVE Inv'
<1>. USE DEF Inv, SpendCredits, orderVars
<1>1. OrderShape' /\ Ended' /\ credits'.granted = credits.granted
  BY DEF OrderShape, Ended
<1>2. GatewayShape'
  BY DEF GatewayShape, gatewayVars
<1>. QED BY <1>1, <1>2, PlainStep DEF gatewayVars

-----------------------------------------------------------------------------
(***************************************************************************)
(* The refunds.                                                            *)
(***************************************************************************)
Done == {"GATEWAY_SUCCEEDED", "SUCCEEDED"}

\* A request goes on with other local variables; refunds never vanish, the
\* money given back never shrinks, and what the request knows is true.
LEMMA AdminGoes ==
    ASSUME Inv, NEW a \in Admins, NEW local, admin' = [admin EXCEPT ![a] = local],
           local = [field \in AdminFields |-> local[field]],
           local.pc \in AdminLabels, local.refund \in Refunds \cup {None},
           refunds' \in [Refunds -> [status : RefundStatus, tx : Txs \cup {None}, amount : Nat]],
           given' \in [Refunds -> Nat],
           \A r \in Refunds : given[r] > 0 => given'[r] > 0,
           \A r \in Refunds : refunds[r].status # "none" => refunds'[r].status # "none",
           \A r \in Refunds : refunds'[r].status \in Done => given'[r] > 0,
           local.pc # "idle" => local.refund \in Refunds /\ refunds'[local.refund].status # "none",
           local.pc \in {"mark", "final"} \/ (local.pc # "idle" /\ local.completed) =>
               given'[local.refund] > 0
    PROVE  RefundShape' /\ AdminKnows' /\ DoneIsPaidOut'
<1>. USE DEF Inv
<1>1. \A d \in Admins : admin'[d] = IF d = a THEN local ELSE admin[d]
  BY DEF RefundShape
<1>2. RefundShape'
  BY <1>1 DEF RefundShape
<1>3. DoneIsPaidOut'
  BY DEF DoneIsPaidOut, Done
<1>4. \A d \in Admins : d # a => /\ admin'[d] = admin[d]
                                 /\ admin[d].pc # "idle" => admin[d].refund \in Refunds
  BY <1>1 DEF AdminKnows
<1>5. AdminKnows'
  BY <1>1, <1>4 DEF AdminKnows, RefundShape
<1>. QED BY <1>2, <1>3, <1>5

\* What no refund touches, and what its last step does to order and transaction.
LEMMA AdminFrame ==
    ASSUME Inv, UNCHANGED <<gatewayVars, buyer, hookVars>>, OrderShape', Ended',
           order'.type = order.type, credits'.granted = credits.granted,
           \A t \in Txs : txs'[t] \in {"COMPLETED", "REFUNDED"} =>
               txs[t] \in {"COMPLETED", "REFUNDED"} \/ (credits.granted /\ t \in paid),
           \A r \in Refunds : refunds'[r].status # "none" =>
               \/ refunds[r].status # "none" /\ refunds'[r].tx = refunds[r].tx
               \/ credits.granted /\ refunds'[r].tx \in paid,
           RefundShape', AdminKnows', DoneIsPaidOut'
    PROVE  Inv'
<1>. USE DEF Inv
<1>1. HookShape' /\ HookKnows'
  BY DEF HookShape, HookKnows, hookVars, gatewayVars
<1>2. GatewayShape'
  BY DEF GatewayShape, gatewayVars
<1>3. CompletedIsGranted'
  BY StaysGranted DEF hookVars, gatewayVars
<1>. QED BY <1>1, <1>2, <1>3

\* A step that leaves the refunds alone: it moves the request, may change the balance.
LEMMA AdminMoves ==
    ASSUME Inv, NEW a \in Admins, NEW local, admin' = [admin EXCEPT ![a] = local],
           local = [field \in AdminFields |-> local[field]],
           local.pc \in AdminLabels, local.refund \in Refunds \cup {None},
           UNCHANGED <<orderVars, refunds>>,
           credits' = [field \in {"granted", "balance"} |-> credits'[field]],
           credits'.granted = credits.granted,
           given' \in [Refunds -> Nat], \A r \in Refunds : given[r] > 0 => given'[r] > 0,
           local.pc # "idle" => local.refund \in Refunds /\ refunds[local.refund].status # "none",
           local.pc \in {"mark", "final"} \/ (local.pc # "idle" /\ local.completed) =>
               given'[local.refund] > 0
    PROVE  Inv'
<1>. USE DEF Inv
<1>1. \A r \in Refunds : refunds'[r].status \in Done => given'[r] > 0
  BY DEF DoneIsPaidOut, Done
<1>2. refunds' \in [Refunds -> [status : RefundStatus, tx : Txs \cup {None}, amount : Nat]]
  BY DEF RefundShape
<1>3. RefundShape' /\ AdminKnows' /\ DoneIsPaidOut'
  BY <1>1, <1>2, AdminGoes
<1>4. OrderShape' /\ Ended'
  BY DEF OrderShape, Ended, orderVars
<1>. QED BY <1>3, <1>4, AdminFrame DEF orderVars

\* The request is where it stands and goes to another place of the code.
LEMMA GotoAdminShape ==
    ASSUME Inv, NEW a \in Admins, NEW label \in AdminLabels, GotoAdmin(a, label)
    PROVE  \E local : /\ admin' = [admin EXCEPT ![a] = local]
                      /\ local = [field \in AdminFields |-> local[field]]
                      /\ local.pc = label
                      /\ local.refund = admin[a].refund /\ local.refund \in Refunds \cup {None}
                      /\ local.completed = admin[a].completed
                      /\ local.reclaim = admin[a].reclaim /\ local.already = admin[a].already
<1>. DEFINE local == [admin[a] EXCEPT !.pc = label]
<1>1. admin[a] = [field \in AdminFields |-> admin[a][field]] /\ admin[a].refund \in Refunds \cup {None}
  BY DEF Inv, RefundShape
<1>2. local = [field \in AdminFields |-> IF field = "pc" THEN label ELSE admin[a][field]]
  BY <1>1 DEF AdminFields
<1>3. admin' = [admin EXCEPT ![a] = local]
  BY DEF GotoAdmin
<1>4. local = [field \in AdminFields |-> local[field]]
  BY <1>2
<1>5. /\ local.pc = label /\ local.refund = admin[a].refund /\ local.completed = admin[a].completed
      /\ local.reclaim = admin[a].reclaim /\ local.already = admin[a].already
  BY <1>2 DEF AdminFields
<1>. HIDE DEF local
<1>. QED BY <1>1, <1>3, <1>4, <1>5

\* The same, for a step that changes nothing else but the balance.
LEMMA AdminTurns ==
    ASSUME Inv, NEW a \in Admins, NEW label \in AdminLabels, GotoAdmin(a, label),
           UNCHANGED <<orderVars, refunds>>,
           credits' = [field \in {"granted", "balance"} |-> credits'[field]],
           credits'.granted = credits.granted,
           given' \in [Refunds -> Nat], \A r \in Refunds : given[r] > 0 => given'[r] > 0,
           admin[a].pc # "idle", label # "idle",
           label \in {"mark", "final"} => given'[admin[a].refund] > 0
    PROVE  Inv'
<1>. USE DEF Inv
<1>1. PICK local : /\ admin' = [admin EXCEPT ![a] = local]
                   /\ local = [field \in AdminFields |-> local[field]]
                   /\ local.pc = label
                   /\ local.refund = admin[a].refund /\ local.refund \in Refunds \cup {None}
                   /\ local.completed = admin[a].completed
  BY GotoAdminShape
<1>2. local.refund \in Refunds /\ refunds[local.refund].status # "none"
  BY <1>1 DEF AdminKnows
<1>3. local.completed => given'[local.refund] > 0
  BY <1>1, <1>2 DEF AdminKnows
<1>. QED BY <1>1, <1>2, <1>3, AdminMoves

LEMMA Steady ==
    ASSUME Inv, UNCHANGED <<credits, given>>
    PROVE  /\ credits' = [field \in {"granted", "balance"} |-> credits'[field]]
           /\ credits'.granted = credits.granted
           /\ given' \in [Refunds -> Nat] /\ \A r \in Refunds : given[r] > 0 => given'[r] > 0
BY DEF Inv, OrderShape, RefundShape

LEMMA AssessForReviewInv == ASSUME Inv, NEW a \in Admins, AssessForReview(a) PROVE Inv'
BY Steady, AdminTurns DEF AssessForReview, Workable, AdminLabels

LEMMA RefundFailsInv == ASSUME Inv, NEW a \in Admins, RefundFails(a) PROVE Inv'
BY Steady, AdminTurns DEF RefundFails, AdminLabels

LEMMA GatewayRefusesInv == ASSUME Inv, NEW a \in Admins, GatewayRefuses(a) PROVE Inv'
BY Steady, AdminTurns DEF GatewayRefuses, AdminLabels

LEMMA ReclaimInv == ASSUME Inv, NEW a \in Admins, Reclaim(a) PROVE Inv'
<1>1. PICK label \in {"gateway", "catch"} : GotoAdmin(a, label)
  BY DEF Reclaim
<1>2. credits' = credits \/ credits' = [credits EXCEPT !.balance = @ - admin[a].reclaim]
  BY DEF Reclaim
<1>3. credits' = [field \in {"granted", "balance"} |-> credits'[field]]
      /\ credits'.granted = credits.granted
  BY <1>2 DEF Inv, OrderShape
<1>4. given' \in [Refunds -> Nat] /\ \A r \in Refunds : given[r] > 0 => given'[r] > 0
  BY DEF Reclaim, Inv, RefundShape
<1>. QED BY <1>1, <1>3, <1>4, AdminTurns DEF Reclaim, AdminLabels

\* A request leaves.
LEMMA LeaveShape ==
    /\ NoAdmin = [field \in AdminFields |-> NoAdmin[field]]
    /\ NoAdmin.pc = "idle" /\ NoAdmin.refund = None /\ NoAdmin.pc \in AdminLabels
BY DEF NoAdmin, AdminFields, AdminLabels

LEMMA AdminDiesInv == ASSUME Inv, NEW a \in Admins, AdminDies(a) PROVE Inv'
<1>1. admin' = [admin EXCEPT ![a] = NoAdmin] /\ UNCHANGED <<orderVars, credits, refunds, given>>
  BY DEF AdminDies, Leave
<1>. QED BY <1>1, Steady, LeaveShape, AdminMoves

\* A request begins at an existing refund.
LEMMA AdminBegins ==
    ASSUME Inv, NEW a \in Admins, NEW r \in Refunds, NEW label \in {"load", "reject"},
           refunds[r].status # "none", UNCHANGED <<orderVars, credits, refunds, given>>,
           admin' = [admin EXCEPT ![a] = [NoAdmin EXCEPT !.pc = label, !.refund = r]]
    PROVE  Inv'
<1>. DEFINE local == [NoAdmin EXCEPT !.pc = label, !.refund = r]
<1>1. local = [field \in AdminFields |-> CASE field = "pc" -> label [] field = "refund" -> r
                                             [] OTHER -> NoAdmin[field]]
  BY LeaveShape DEF AdminFields
<1>2. /\ local = [field \in AdminFields |-> local[field]] /\ local.pc = label
      /\ local.pc \in AdminLabels /\ local.refund = r /\ local.completed = NoAdmin.completed
  BY <1>1 DEF AdminFields, AdminLabels
<1>4. ~NoAdmin.completed
  BY DEF NoAdmin
<1>3. admin' = [admin EXCEPT ![a] = local]
  OBVIOUS
<1>. HIDE DEF local
<1>. QED BY <1>2, <1>3, <1>4, Steady, AdminMoves

LEMMA ProcessRefundInv == ASSUME Inv, NEW a \in Admins, ProcessRefund(a) PROVE Inv'
<1>1. PICK r \in Refunds : /\ refunds[r].status \in Lockable \cup {"GATEWAY_SUCCEEDED"}
                           /\ admin' = [admin EXCEPT ![a] = [NoAdmin EXCEPT !.pc = "load", !.refund = r]]
  BY DEF ProcessRefund
<1>2. refunds[r].status # "none"
  BY <1>1 DEF Lockable
<1>. QED BY <1>1, <1>2, AdminBegins DEF ProcessRefund

LEMMA ReadForRejectInv == ASSUME Inv, NEW a \in Admins, ReadForReject(a) PROVE Inv'
<1>1. PICK r \in Refunds : /\ refunds[r].status \in Lockable
                           /\ admin' = [admin EXCEPT ![a] = [NoAdmin EXCEPT !.pc = "reject", !.refund = r]]
  BY DEF ReadForReject
<1>2. refunds[r].status # "none"
  BY <1>1 DEF Lockable
<1>. QED BY <1>1, <1>2, AdminBegins DEF ReadForReject

\* The reads leave the request at the lock, or at the end of a refund paid out before.
LEMMA AssessInv == ASSUME Inv, NEW a \in Admins, Assess(a) PROVE Inv'
<1>. USE DEF Inv
<1>1. PICK x, y : admin' = [admin EXCEPT ![a] =
          [@ EXCEPT !.pc = IF Returned(a) THEN "final" ELSE "lock", !.already = x,
                    !.completed = Returned(a), !.reclaim = y]]
  BY DEF Assess
<1>2. admin[a].pc # "idle" /\ UNCHANGED <<orderVars, credits, refunds, given>>
  BY DEF Assess, Workable
<1>3. admin[a].refund \in Refunds /\ refunds[admin[a].refund].status # "none"
  BY <1>2 DEF AdminKnows
<1>4. Returned(a) => given[admin[a].refund] > 0
  BY <1>3 DEF Returned, Row, DoneIsPaidOut
<1>. DEFINE local == [field \in AdminFields |->
                         CASE field = "pc"        -> IF Returned(a) THEN "final" ELSE "lock"
                           [] field = "already"   -> x
                           [] field = "completed" -> Returned(a)
                           [] field = "reclaim"   -> y
                           [] OTHER               -> admin[a][field]]
<1>5. admin[a] = [field \in AdminFields |-> admin[a][field]]
  BY DEF RefundShape
<1>6. admin' = [admin EXCEPT ![a] = local]
  BY <1>1, <1>5 DEF AdminFields
<1>7. /\ local = [field \in AdminFields |-> local[field]]
      /\ local.pc = IF Returned(a) THEN "final" ELSE "lock"
      /\ local.refund = admin[a].refund /\ local.completed = Returned(a)
  BY DEF AdminFields
<1>8. local.pc \in AdminLabels \ {"idle", "mark"} /\ (local.pc = "final" => Returned(a))
  BY <1>7 DEF AdminLabels
<1>. HIDE DEF local
<1>. QED BY <1>2, <1>3, <1>4, <1>6, <1>7, <1>8, Steady, AdminMoves

\* The credits taken back are returned to the user, or the error is swallowed.
LEMMA RestoreInv == ASSUME Inv, NEW a \in Admins, Restore(a) PROVE Inv'
<1>. USE DEF Inv
<1>1. /\ admin[a].pc = "restore" /\ UNCHANGED <<orderVars, refunds, given>>
      /\ admin' = [admin EXCEPT ![a] = [@ EXCEPT !.pc = "catch", !.reclaim = 0]]
      /\ credits' = credits \/ credits' = [credits EXCEPT !.balance = @ + admin[a].reclaim]
  BY DEF Restore
<1>2. admin[a].refund \in Refunds /\ refunds[admin[a].refund].status # "none"
      /\ (admin[a].completed => given[admin[a].refund] > 0)
  BY <1>1 DEF AdminKnows
<1>3. /\ credits' = [field \in {"granted", "balance"} |-> credits'[field]]
      /\ credits'.granted = credits.granted
      /\ given' \in [Refunds -> Nat] /\ \A r \in Refunds : given[r] > 0 => given'[r] > 0
  BY <1>1 DEF OrderShape, RefundShape
<1>. DEFINE local == [field \in AdminFields |-> CASE field = "pc" -> "catch" [] field = "reclaim" -> 0
                                                  [] OTHER -> admin[a][field]]
<1>4. admin[a] = [field \in AdminFields |-> admin[a][field]]
  BY DEF RefundShape
<1>5. admin' = [admin EXCEPT ![a] = local]
  BY <1>1, <1>4 DEF AdminFields
<1>6. /\ local = [field \in AdminFields |-> local[field]] /\ local.pc = "catch"
      /\ local.refund = admin[a].refund /\ local.completed = admin[a].completed
      /\ local.pc \in AdminLabels
  BY DEF AdminFields, AdminLabels
<1>. HIDE DEF local
<1>. QED BY <1>1, <1>2, <1>3, <1>5, <1>6, AdminMoves

\* The gateway pays, and its answer arrives or is lost.
LEMMA GatewayRefundsInv == ASSUME Inv, NEW a \in Admins, GatewayRefunds(a) PROVE Inv'
<1>. USE DEF Inv
<1>. DEFINE r == admin[a].refund
<1>1. /\ admin[a].pc = "gateway" /\ UNCHANGED <<orderVars, credits, refunds>>
      /\ given' = [given EXCEPT ![r] = IF Idempotent THEN 1 ELSE @ + 1]
      /\ \/ admin' = [admin EXCEPT ![a] = [@ EXCEPT !.pc = "mark", !.completed = TRUE, !.reclaim = 0]]
         \/ GotoAdmin(a, "restore")
  BY DEF GatewayRefunds
<1>2. r \in Refunds /\ refunds[r].status # "none"
  BY <1>1 DEF AdminKnows
<1>3. /\ given' \in [Refunds -> Nat] /\ given'[r] > 0
      /\ \A s \in Refunds : given[s] > 0 => given'[s] > 0
  BY <1>1, <1>2, IdempotentAssumption DEF RefundShape
<1>4. credits' = [field \in {"granted", "balance"} |-> credits'[field]]
      /\ credits'.granted = credits.granted
  BY <1>1 DEF OrderShape
<1>5. CASE GotoAdmin(a, "restore")
  BY <1>1, <1>3, <1>4, <1>5, AdminTurns DEF AdminLabels
<1>6. CASE admin' = [admin EXCEPT ![a] = [@ EXCEPT !.pc = "mark", !.completed = TRUE, !.reclaim = 0]]
  <2>. DEFINE local == [field \in AdminFields |-> CASE field = "pc" -> "mark" [] field = "completed" -> TRUE
                                                    [] field = "reclaim" -> 0
                                                    [] OTHER -> admin[a][field]]
  <2>1. admin[a] = [field \in AdminFields |-> admin[a][field]]
    BY DEF RefundShape
  <2>2. admin' = [admin EXCEPT ![a] = local]
    BY <1>6, <2>1 DEF AdminFields
  <2>3. /\ local = [field \in AdminFields |-> local[field]] /\ local.pc = "mark"
        /\ local.refund = r /\ local.pc \in AdminLabels
    BY DEF AdminFields, AdminLabels
  <2>. HIDE DEF local
  <2>. QED BY <1>1, <1>2, <1>3, <1>4, <2>2, <2>3, AdminMoves
<1>. QED BY <1>1, <1>5, <1>6

\* A step that writes the status of its refund and leaves.
LEMMA AdminWrites ==
    ASSUME Inv, NEW a \in Admins, NEW status \in RefundStatus \ {"none"},
           SetRefund(a, status), Leave(a), UNCHANGED <<orderVars, credits, given>>,
           admin[a].pc # "idle", status \in Done => given[admin[a].refund] > 0
    PROVE  Inv'
<1>. USE DEF Inv
<1>1. admin[a].refund \in Refunds /\ refunds[admin[a].refund].status # "none"
  BY DEF AdminKnows
<1>2. \A s \in Refunds : /\ refunds'[s].tx = refunds[s].tx /\ refunds'[s].amount = refunds[s].amount
                         /\ refunds'[s].status = IF s = admin[a].refund THEN status
                                                 ELSE refunds[s].status
  BY <1>1 DEF SetRefund, RefundShape
<1>3. refunds' \in [Refunds -> [status : RefundStatus, tx : Txs \cup {None}, amount : Nat]]
  BY <1>1 DEF SetRefund, RefundShape
<1>4. \A s \in Refunds : refunds'[s].status \in Done => given'[s] > 0
  BY <1>1, <1>2 DEF DoneIsPaidOut, Done
<1>5. admin' = [admin EXCEPT ![a] = NoAdmin]
  BY DEF Leave
<1>6. RefundShape' /\ AdminKnows' /\ DoneIsPaidOut'
  BY <1>1, <1>2, <1>3, <1>4, <1>5, Steady, LeaveShape, AdminGoes
<1>7. OrderShape' /\ Ended'
  BY DEF OrderShape, Ended, orderVars
<1>. QED BY <1>1, <1>2, <1>6, <1>7, AdminFrame DEF orderVars

LEMMA ReviewInv == ASSUME Inv, NEW a \in Admins, Review(a) PROVE Inv'
BY AdminWrites DEF Review, RefundStatus, Done

LEMMA RejectRefundInv == ASSUME Inv, NEW a \in Admins, RejectRefund(a) PROVE Inv'
BY AdminWrites DEF RejectRefund, RefundStatus, Done

LEMMA CatchRefundInv == ASSUME Inv, NEW a \in Admins, CatchRefund(a) PROVE Inv'
<1>1. PICK status \in {"GATEWAY_SUCCEEDED", "FAILED"} :
        SetRefund(a, status) /\ (status = "GATEWAY_SUCCEEDED" => Recoverable(a))
  BY DEF CatchRefund
<1>2. admin[a].pc # "idle" /\ admin[a].refund \in Refunds
  BY DEF CatchRefund, Inv, AdminKnows
<1>3. status \in Done => given[admin[a].refund] > 0
  BY <1>1, <1>2 DEF Recoverable, Row, Inv, AdminKnows, DoneIsPaidOut, Done
<1>. QED BY <1>1, <1>2, <1>3, AdminWrites DEF CatchRefund, RefundStatus

\* A step that writes the status of its refund and goes on.
LEMMA AdminAdvances ==
    ASSUME Inv, NEW a \in Admins, NEW status \in RefundStatus \ {"none"},
           NEW label \in AdminLabels \ {"idle"},
           SetRefund(a, status), GotoAdmin(a, label), UNCHANGED <<orderVars, credits, given>>,
           admin[a].pc # "idle",
           status \in Done \/ label \in {"mark", "final"} => given[admin[a].refund] > 0
    PROVE  Inv'
<1>. USE DEF Inv
<1>1. admin[a].refund \in Refunds /\ refunds[admin[a].refund].status # "none"
      /\ (admin[a].completed => given[admin[a].refund] > 0)
  BY DEF AdminKnows
<1>2. \A s \in Refunds : /\ refunds'[s].tx = refunds[s].tx /\ refunds'[s].amount = refunds[s].amount
                         /\ refunds'[s].status = IF s = admin[a].refund THEN status
                                                 ELSE refunds[s].status
  BY <1>1 DEF SetRefund, RefundShape
<1>3. refunds' \in [Refunds -> [status : RefundStatus, tx : Txs \cup {None}, amount : Nat]]
  BY <1>1 DEF SetRefund, RefundShape
<1>4. \A s \in Refunds : refunds'[s].status \in Done => given'[s] > 0
  BY <1>1, <1>2 DEF DoneIsPaidOut, Done
<1>5. PICK local : /\ admin' = [admin EXCEPT ![a] = local]
                   /\ local = [field \in AdminFields |-> local[field]]
                   /\ local.pc = label
                   /\ local.refund = admin[a].refund /\ local.refund \in Refunds \cup {None}
                   /\ local.completed = admin[a].completed
  BY GotoAdminShape
<1>6. RefundShape' /\ AdminKnows' /\ DoneIsPaidOut'
  BY <1>1, <1>2, <1>3, <1>4, <1>5, Steady, AdminGoes
<1>7. OrderShape' /\ Ended'
  BY DEF OrderShape, Ended, orderVars
<1>. QED BY <1>1, <1>2, <1>6, <1>7, AdminFrame DEF orderVars

LEMMA LockRefundInv == ASSUME Inv, NEW a \in Admins, LockRefund(a) PROVE Inv'
<1>1. CASE Row(a).status \in Lockable
  BY <1>1, AdminAdvances DEF LockRefund, RefundStatus, AdminLabels, Done
<1>2. CASE Row(a).status \notin Lockable
  BY <1>2, Steady, LeaveShape, AdminMoves DEF LockRefund, Leave
<1>. QED BY <1>1, <1>2

LEMMA MarkGatewayInv == ASSUME Inv, NEW a \in Admins, MarkGateway(a) PROVE Inv'
<1>1. given[admin[a].refund] > 0
  BY DEF MarkGateway, Inv, AdminKnows
<1>. QED BY <1>1, AdminAdvances DEF MarkGateway, RefundStatus, AdminLabels

\* A new refund is for a transaction that is COMPLETED: its order was granted.
LEMMA CreateRefundInv == ASSUME Inv, NEW a \in Admins, CreateRefund(a) PROVE Inv'
<1>. USE DEF Inv
<1>1. PICK r \in Refunds, t \in Txs, n \in 1..Amount :
        /\ txs[t] \in {"COMPLETED", "REFUNDED"}
        /\ refunds[r].status = "none"
        /\ refunds' = [refunds EXCEPT ![r] = [status |-> "REQUESTED", tx |-> t, amount |-> n]]
        /\ admin' = [admin EXCEPT ![a] = [NoAdmin EXCEPT !.pc = "load", !.refund = r]]
  BY DEF CreateRefund
<1>2. UNCHANGED <<orderVars, credits, given>>
  BY DEF CreateRefund
<1>3. credits.granted /\ t \in paid
  BY <1>1 DEF CompletedIsGranted
<1>4. \A s \in Refunds : IF s = r THEN refunds'[s].status = "REQUESTED" /\ refunds'[s].tx = t
                                  ELSE refunds'[s] = refunds[s]
  BY <1>1 DEF RefundShape
<1>5. n \in Nat
  BY AmountAssumption
<1>6. refunds' \in [Refunds -> [status : RefundStatus, tx : Txs \cup {None}, amount : Nat]]
  BY <1>1, <1>5 DEF RefundShape, RefundStatus
<1>. DEFINE local == [NoAdmin EXCEPT !.pc = "load", !.refund = r]
<1>7. local = [field \in AdminFields |-> CASE field = "pc" -> "load" [] field = "refund" -> r
                                             [] OTHER -> NoAdmin[field]]
  BY LeaveShape DEF AdminFields
<1>8. /\ local = [field \in AdminFields |-> local[field]] /\ local.pc = "load"
      /\ local.pc \in AdminLabels /\ local.refund = r /\ local.completed = NoAdmin.completed
  BY <1>7 DEF AdminFields, AdminLabels
<1>9. ~NoAdmin.completed /\ admin' = [admin EXCEPT ![a] = local]
  BY <1>1 DEF NoAdmin
<1>. HIDE DEF local
<1>10. \A s \in Refunds : refunds'[s].status \in Done => given'[s] > 0
  BY <1>2, <1>4 DEF DoneIsPaidOut, Done
<1>11. RefundShape' /\ AdminKnows' /\ DoneIsPaidOut'
  BY <1>2, <1>4, <1>6, <1>8, <1>9, <1>10, Steady, AdminGoes
<1>12. OrderShape' /\ Ended'
  BY <1>2 DEF OrderShape, Ended, orderVars
<1>. QED BY <1>2, <1>3, <1>4, <1>11, <1>12, AdminFrame DEF orderVars

\* The last step: the transaction it refunds is one whose money came in.
LEMMA FinalizeInv == ASSUME Inv, NEW a \in Admins, Finalize(a) PROVE Inv'
<1>. USE DEF Inv
<1>1. /\ admin[a].pc = "final" /\ SetRefund(a, "SUCCEEDED") /\ Leave(a)
      /\ UNCHANGED <<credits, given, gatewayVars, buyer, hookVars>>
      /\ \/ /\ txs' = [txs EXCEPT ![Row(a).tx] = "REFUNDED"]
            /\ order' = [order EXCEPT !.status = "REFUNDED"]
            /\ sub' = IF sub = "ACTIVE" THEN "CANCELLED" ELSE sub
         \/ UNCHANGED <<txs, order, sub>>
  BY DEF Finalize
<1>2. /\ admin[a].refund \in Refunds /\ refunds[admin[a].refund].status # "none"
      /\ given[admin[a].refund] > 0
  BY <1>1 DEF AdminKnows
<1>3. credits.granted /\ Row(a).tx \in paid /\ Row(a).tx \in Txs
  BY <1>2 DEF CompletedIsGranted, Row, GatewayShape
<1>4. \A s \in Refunds : /\ refunds'[s].tx = refunds[s].tx /\ refunds'[s].amount = refunds[s].amount
                         /\ refunds'[s].status = IF s = admin[a].refund THEN "SUCCEEDED"
                                                 ELSE refunds[s].status
  BY <1>1, <1>2 DEF SetRefund, RefundShape
<1>5. refunds' \in [Refunds -> [status : RefundStatus, tx : Txs \cup {None}, amount : Nat]]
  BY <1>1, <1>2 DEF SetRefund, RefundShape, RefundStatus
<1>6. \A s \in Refunds : refunds'[s].status \in Done => given'[s] > 0
  BY <1>1, <1>2, <1>4 DEF DoneIsPaidOut, Done
<1>7. RefundShape' /\ AdminKnows' /\ DoneIsPaidOut'
  BY <1>1, <1>2, <1>4, <1>5, <1>6, Steady, LeaveShape, AdminGoes DEF Leave
<1>8. OrderShape' /\ Ended' /\ order'.type = order.type /\ credits'.granted = credits.granted
  BY <1>1 DEF OrderShape, Ended, TxStatus
<1>9. \A t \in Txs : txs'[t] \in {"COMPLETED", "REFUNDED"} =>
          txs[t] \in {"COMPLETED", "REFUNDED"} \/ (credits.granted /\ t \in paid)
  BY <1>1, <1>3 DEF OrderShape
<1>. QED BY <1>1, <1>2, <1>4, <1>7, <1>8, <1>9, AdminFrame

-----------------------------------------------------------------------------
(***************************************************************************)
(* Every step keeps the invariant.                                         *)
(***************************************************************************)
LEMMA NextInv == Inv /\ [Next]_vars => Inv'
<1>. SUFFICES ASSUME Inv, [Next]_vars PROVE Inv'
  OBVIOUS
<1>1. CASE UNCHANGED vars
  <2>1. UNCHANGED <<hookVars, refundVars>> /\ OrderShape' /\ Ended'
    BY <1>1 DEF vars, hookVars, refundVars, Inv, OrderShape, Ended
  <2>2. GatewayShape'
    BY <1>1 DEF vars, Inv, GatewayShape
  <2>. QED BY <1>1, <2>1, <2>2, PlainStep DEF vars
<1>2. ASSUME NEW h \in Hooks, HookStep(h) PROVE Inv'
  BY <1>2, ReceiveInv, ReplayInv, LoadInv, MarkTxPaidInv, ActivateSubscriptionInv, GrantCreditsInv,
     ReadRechargeInv, RechargeInv, CompleteTxInv, UndoTxInv, MarkProcessedInv, HookFailsInv,
     HookDiesInv DEF HookStep
<1>3. ASSUME NEW a \in Admins, AdminStep(a) PROVE Inv'
  BY <1>3, CreateRefundInv, ProcessRefundInv, AssessInv, AssessForReviewInv, ReviewInv,
     LockRefundInv, ReclaimInv, GatewayRefundsInv, GatewayRefusesInv, RestoreInv, MarkGatewayInv,
     FinalizeInv, RefundFailsInv, CatchRefundInv, ReadForRejectInv, RejectRefundInv, AdminDiesInv
     DEF AdminStep
<1>. QED
  BY <1>1, <1>2, <1>3, BuyerInv, PassDeadlineInv, ExpirePendingInv, PayInv, CancelOrderInv,
     SpendCreditsInv DEF Next

LEMMA SpecInv == Spec => []Inv
BY InitInv, NextInv, PTL DEF Spec

\* What is COMPLETED, processed or refunded was granted: for any number of
\* transactions, callbacks and refunds of the order.
THEOREM CompletedGranted == Spec => []CompletedIsGranted
<1>1. Inv => CompletedIsGranted
  BY DEF Inv
<1>. QED BY <1>1, SpecInv, PTL

\* What is reported as refunded was paid out by the gateway.
THEOREM DonePaidOut == Spec => []DoneIsPaidOut
<1>1. Inv => DoneIsPaidOut
  BY DEF Inv
<1>. QED BY <1>1, SpecInv, PTL

\* No step changes the status of an order but these.
LEMMA RefundedStays ==
    ASSUME Inv, [Next]_vars, order.type = "SUBSCRIPTION", order.status = "REFUNDED"
    PROVE  order'.status = "REFUNDED"
<1>. USE DEF Inv
<1>1. ASSUME NEW h \in Hooks, HookStep(h) PROVE order'.status = "REFUNDED"
  <2>1. ~Recharge(h)
    BY DEF Recharge, HookKnows
  <2>2. ActivateSubscription(h) => order' = order
    BY DEF ActivateSubscription, Acceptable
  <2>. QED
    BY <1>1, <2>1, <2>2 DEF HookStep, Receive, Replay, Load, MarkTxPaid, GrantCredits, ReadRecharge,
       CompleteTx, UndoTx, MarkProcessed, HookFails, HookDies
<1>2. ASSUME NEW a \in Admins, AdminStep(a) PROVE order'.status = "REFUNDED"
  <2>1. Finalize(a) => order'.status = "REFUNDED"
    BY DEF Finalize, OrderShape
  <2>. QED
    BY <1>2, <2>1 DEF AdminStep, CreateRefund, ProcessRefund, Assess, AssessForReview, Review,
       LockRefund, Reclaim, GatewayRefunds, GatewayRefuses, Restore, MarkGateway, RefundFails,
       CatchRefund, ReadForReject, RejectRefund, AdminDies, orderVars
<1>3. ASSUME NEW b \in Buyers, BuyerStep(b) PROVE order'.status = "REFUNDED"
  BY <1>3 DEF BuyerStep, StartCheckout, CreateTransaction, GatewayOpens, CheckoutEnds, CheckoutFails
<1>4. CASE PassDeadline \/ ExpirePending \/ Pay \/ CancelOrder \/ SpendCredits \/ UNCHANGED vars
  BY <1>4 DEF PassDeadline, ExpirePending, Pay, CancelOrder, SpendCredits, vars, orderVars
<1>. QED BY <1>1, <1>2, <1>3, <1>4 DEF Next

\* A refunded subscription stays ended, whatever callback or replay comes late.
THEOREM RefundEnds == Spec => RefundEndsSubscription
<1>1. ASSUME Inv, Inv', [Next]_vars
      PROVE  [order.type = "SUBSCRIPTION" /\ order.status = "REFUNDED" =>
                 order'.status = "REFUNDED" /\ sub' # "ACTIVE"]_vars
  <2>. SUFFICES ASSUME order.type = "SUBSCRIPTION", order.status = "REFUNDED"
                PROVE  order'.status = "REFUNDED" /\ sub' # "ACTIVE"
    OBVIOUS
  <2>1. order'.status = "REFUNDED"
    BY <1>1, RefundedStays
  <2>. QED BY <1>1, <2>1 DEF Inv, Ended
<1>. QED BY <1>1, SpecInv, PTL DEF Spec, RefundEndsSubscription

-----------------------------------------------------------------------------
(***************************************************************************)
(* The amounts.  What was paid back is a total over the refunds, and the   *)
(* credits a refund reclaims are never more than the order granted.        *)
(***************************************************************************)
LEMMA ProductGrows ==
    ASSUME NEW x \in Nat, NEW y \in Nat, NEW z \in Nat, x <= y
    PROVE  z * x \in Nat /\ z * x <= z * y
OBVIOUS

LEMMA QuotientBounded ==
    ASSUME NEW m \in Nat, NEW n \in Nat \ {0}, NEW c \in Nat, m <= c * n
    PROVE  m \div n \in 0..c
<1>. DEFINE q == m \div n
<1>1. q \in Nat /\ n * q <= m
  OBVIOUS
<1>2. ASSUME q >= c + 1 PROVE FALSE
  <2>. HIDE DEF q
  <2>1. n * (c + 1) <= n * q
    BY <1>1, <1>2, ProductGrows
  <2>2. n * (c + 1) = c * n + n
    OBVIOUS
  <2>. QED BY <1>1, <2>1, <2>2
<1>. QED BY <1>1, <1>2

LEMMA ShareBounded ==
    ASSUME NEW n \in Nat
    PROVE  Share(n) \in Nat /\ (n <= Amount => Share(n) \in 0..Credits)
<1>1. Credits * n \in Nat /\ Credits \in Nat /\ Amount \in Nat \ {0}
  BY AmountAssumption
<1>2. Share(n) \in Nat
  BY <1>1 DEF Share
<1>3. ASSUME n <= Amount PROVE Share(n) \in 0..Credits
  <2>1. Credits * n <= Credits * Amount
    BY <1>1, <1>3, ProductGrows
  <2>. QED BY <1>1, <2>1, QuotientBounded DEF Share
<1>. QED BY <1>2, <1>3

\* However much is back already, a refund takes back no more than was granted.
LEMMA ReclaimBounded ==
    ASSUME NEW already \in Nat, NEW n \in Nat
    PROVE  RefundCredits(already, n) \in 0..Credits
<1>. DEFINE total  == IF already + n < Amount THEN already + n ELSE Amount
            before == Share(already)
            after  == Share(total)
<1>1. total \in Nat /\ total <= Amount
  BY AmountAssumption
<1>2. after \in 0..Credits /\ before \in Nat
  <2>. HIDE DEF total
  <2>. QED BY <1>1, ShareBounded
<1>3. RefundCredits(already, n) = IF after > before THEN after - before ELSE 0
  BY DEF RefundCredits
<1>. HIDE DEF before, after, total
<1>. QED BY <1>2, <1>3, AmountAssumption

LEMMA SumsAreNumbers ==
    ASSUME TypeOK, NEW t, NEW statuses
    PROVE  SumOf(OfTx(t, statuses)) \in Nat
<1>. DEFINE rows == OfTx(t, statuses)
            amounts == [r \in Refunds |-> refunds[r].amount]
<1>1. rows \subseteq Refunds
  BY DEF OfTx
<1>2. IsFiniteSet(rows)
  <2>. HIDE DEF rows
  <2>. QED BY <1>1, FS_Subset, TableAssumption
<1>3. \A r \in Refunds : amounts[r] \in Nat
  BY AmountAssumption DEF TypeOK
<1>. HIDE DEF rows, amounts
<1>4. Total(amounts, rows) \in Nat
  BY <1>1, <1>2, <1>3, TotalIsNumber
<1>. QED
  BY <1>4 DEF SumOf, rows, amounts

-----------------------------------------------------------------------------
(***************************************************************************)
(* Every row and every local variable has its type.                        *)
(***************************************************************************)
AdminType == [pc : AdminLabels, refund : Refunds \cup {None}, already : Nat,
              reclaim : 0..Credits, completed : BOOLEAN]

LEMMA InitTypes == Init => TypeOK
BY AmountAssumption DEF Init, TypeOK, TxStatus, RefundStatus, NoAdmin

LEMMA HookTypes ==
    ASSUME TypeOK, Inv, NEW h \in Hooks, HookStep(h)
    PROVE  TypeOK'
<1>. USE DEF TypeOK
<1>1. UNCHANGED <<overdue, payable, paid, buyer, refunds, given, admin>>
  BY DEF HookStep, Receive, Replay, Load, MarkTxPaid, ActivateSubscription, GrantCredits,
     ReadRecharge, Recharge, CompleteTx, UndoTx, MarkProcessed, HookFails, HookDies,
     gatewayVars, refundVars
<1>2. \A label : GotoHook(h, label) /\ label \in HookLabels =>
          hook' \in [Hooks -> [pc : HookLabels, tx : Txs \cup {None}]]
  BY DEF GotoHook, HookLabels
<1>3. ASSUME NEW status \in TxStatus, SetTx(h, status) PROVE txs' \in [Txs -> TxStatus]
  <2>1. txs \in [Txs -> TxStatus]
    OBVIOUS
  <2>. HIDE DEF TypeOK
  <2>. QED BY <1>3, <2>1 DEF SetTx
<1>4. Granted \in [granted : BOOLEAN, balance : Nat]
  BY AmountAssumption DEF Granted
<1>5. hook' \in [Hooks -> [pc : HookLabels, tx : Txs \cup {None}]]
  <2>1. CASE Receive(h)
    BY <2>1 DEF Receive, HookLabels
  <2>2. CASE ~Receive(h)
    <3>1. \E label \in HookLabels : GotoHook(h, label)
      BY <2>2 DEF HookStep, Replay, Load, MarkTxPaid, ActivateSubscription, GrantCredits,
         ReadRecharge, Recharge, CompleteTx, UndoTx, MarkProcessed, HookFails, HookDies, HookLabels
    <3>. QED BY <1>2, <3>1
  <2>. QED BY <2>1, <2>2
<1>6. txs' \in [Txs -> TxStatus]
  <2>1. txs' = txs \/ \E status \in {"PAID", "COMPLETED"} : SetTx(h, status)
    BY DEF HookStep, Receive, Replay, Load, MarkTxPaid, ActivateSubscription, GrantCredits,
       ReadRecharge, Recharge, CompleteTx, UndoTx, MarkProcessed, HookFails, HookDies
  <2>. QED BY <1>3, <2>1 DEF TxStatus
<1>7. credits' \in [granted : BOOLEAN, balance : Nat]
  <2>1. credits' = credits \/ credits' = Granted
    BY DEF HookStep, Receive, Replay, Load, MarkTxPaid, ActivateSubscription, GrantCredits,
       ReadRecharge, Recharge, CompleteTx, UndoTx, MarkProcessed, HookFails, HookDies
  <2>. QED BY <1>4, <2>1
<1>8. /\ order' \in [type : {"RECHARGE", "SUBSCRIPTION"},
                     status : {"PENDING", "PAID", "CANCELLED", "REFUNDED"}]
      /\ sub' \in {"none", "ACTIVE", "CANCELLED"}
  BY DEF HookStep, Receive, Replay, Load, MarkTxPaid, ActivateSubscription, GrantCredits,
     ReadRecharge, Recharge, CompleteTx, UndoTx, MarkProcessed, HookFails, HookDies
<1>9. event' \in [Hooks -> {"none", "open", "processed"}]
  BY DEF HookStep, Receive, Replay, Load, MarkTxPaid, ActivateSubscription, GrantCredits,
     ReadRecharge, Recharge, CompleteTx, UndoTx, MarkProcessed, HookFails, HookDies
<1>. QED
  BY <1>1, <1>5, <1>6, <1>7, <1>8, <1>9 DEF HookLabels

LEMMA BuyerTypes ==
    ASSUME TypeOK, Inv, NEW b \in Buyers, BuyerStep(b)
    PROVE  TypeOK'
<1>. USE DEF TypeOK
<1>1. UNCHANGED <<order, sub, credits, overdue, paid, hookVars, refundVars>>
  BY DEF BuyerStep, StartCheckout, CreateTransaction, GatewayOpens, CheckoutEnds, CheckoutFails,
     gatewayVars
<1>2. buyer[b].pc \in {"gateway", "store"} => buyer[b].tx \in Txs
  BY DEF Inv, GatewayShape
<1>3. /\ \E row \in [pc : {"idle", "create", "gateway", "store"}, tx : Txs \cup {None}] :
             buyer' = [buyer EXCEPT ![b] = row]
      /\ txs' = txs \/ \E t \in Txs, status \in {"PENDING", "FAILED"} :
                          txs' = [txs EXCEPT ![t] = status]
      /\ payable' = payable \/ \E t \in Txs : payable' = payable \cup {t}
  <2>1. CASE StartCheckout(b)
    BY <2>1 DEF StartCheckout, gatewayVars
  <2>2. CASE CreateTransaction(b)
    BY <2>2 DEF CreateTransaction, gatewayVars
  <2>3. CASE GatewayOpens(b)
    BY <1>2, <2>3 DEF GatewayOpens
  <2>4. CASE CheckoutEnds(b)
    BY <2>4 DEF CheckoutEnds, Depart, gatewayVars
  <2>5. CASE CheckoutFails(b)
    BY <1>2, <2>5 DEF CheckoutFails, Depart, gatewayVars
  <2>. QED BY <2>1, <2>2, <2>3, <2>4, <2>5 DEF BuyerStep
<1>4. txs' \in [Txs -> TxStatus]
  BY <1>3 DEF TxStatus
<1>5. buyer' \in [Buyers -> [pc : {"idle", "create", "gateway", "store"}, tx : Txs \cup {None}]]
  BY <1>3
<1>6. payable' \subseteq Txs /\ paid' \subseteq payable'
  BY <1>1, <1>3
<1>. QED
  BY <1>1, <1>4, <1>5, <1>6 DEF hookVars, refundVars

LEMMA WorldTypes ==
    ASSUME TypeOK, PassDeadline \/ ExpirePending \/ Pay \/ CancelOrder \/ SpendCredits
    PROVE  TypeOK'
<1>. USE DEF TypeOK, hookVars, refundVars, gatewayVars
<1>1. CASE PassDeadline
  BY <1>1 DEF PassDeadline
<1>2. CASE ExpirePending
  BY <1>2 DEF ExpirePending, TxStatus
<1>3. CASE Pay
  BY <1>3 DEF Pay
<1>4. CASE CancelOrder
  BY <1>4 DEF CancelOrder
<1>5. CASE SpendCredits
  BY <1>5 DEF SpendCredits, orderVars
<1>. QED BY <1>1, <1>2, <1>3, <1>4, <1>5

\* A request goes on with well-typed local variables.
LEMMA AdminTyped ==
    ASSUME TypeOK, NEW a \in Admins, NEW local \in AdminType,
           admin' = [admin EXCEPT ![a] = local],
           UNCHANGED <<gatewayVars, buyer, hookVars>>,
           UNCHANGED <<order, sub, txs>> \/ Finalize(a),
           credits' \in [granted : BOOLEAN, balance : Nat],
           refunds' \in [Refunds -> [status : RefundStatus, tx : Txs \cup {None}, amount : 0..Amount]],
           given' \in [Refunds -> Nat]
    PROVE  TypeOK'
<1>1. admin' \in [Admins -> AdminType]
  BY DEF TypeOK, AdminType, AdminLabels
<1>2. /\ order' \in [type : {"RECHARGE", "SUBSCRIPTION"},
                     status : {"PENDING", "PAID", "CANCELLED", "REFUNDED"}]
      /\ sub' \in {"none", "ACTIVE", "CANCELLED"}
      /\ txs' \in [Txs -> TxStatus]
  BY DEF TypeOK, Finalize, TxStatus
<1>. QED
  BY <1>1, <1>2 DEF TypeOK, AdminType, AdminLabels, gatewayVars, hookVars

\* The local variables after a step that computes no amount.
LEMMA LocalTypes ==
    ASSUME TypeOK, NEW a \in Admins
    PROVE  /\ NoAdmin \in AdminType
           /\ \A label \in AdminLabels :
                 /\ \A r \in Refunds : [NoAdmin EXCEPT !.pc = label, !.refund = r] \in AdminType
                 /\ [admin[a] EXCEPT !.pc = label] \in AdminType
                 /\ [admin[a] EXCEPT !.pc = label, !.completed = TRUE, !.reclaim = 0] \in AdminType
                 /\ [admin[a] EXCEPT !.pc = label, !.reclaim = 0] \in AdminType
<1>1. 0 \in 0..Credits
  BY AmountAssumption
<1>2. admin[a] \in AdminType
  BY DEF TypeOK, AdminType, AdminLabels
<1>. QED
  BY <1>1, <1>2 DEF AdminType, NoAdmin, AdminLabels

LEMMA AssessTypes == ASSUME TypeOK, Inv, NEW a \in Admins, Assess(a) PROVE TypeOK'
<1>. DEFINE label   == IF Returned(a) THEN "final" ELSE "lock"
            reclaim == IF Returned(a) THEN 0 ELSE Reclaimable(a)
            local   == [admin[a] EXCEPT !.pc = label, !.already = AlreadyBack(a),
                                        !.completed = Returned(a), !.reclaim = reclaim]
<1>1. AlreadyBack(a) \in Nat
  BY SumsAreNumbers DEF AlreadyBack
<1>2. Row(a).amount \in Nat
  <2>1. admin[a].refund \in Refunds
    BY DEF Assess, Workable, Inv, AdminKnows
  <2>. QED BY <2>1, AmountAssumption DEF TypeOK, Row
<1>3. reclaim \in 0..Credits
  <2>1. Reclaimable(a) \in 0..Credits
    BY <1>1, <1>2, ReclaimBounded DEF Reclaimable
  <2>. QED BY <2>1, AmountAssumption
<1>4. admin[a] \in AdminType /\ label \in AdminLabels
  BY DEF TypeOK, AdminType, AdminLabels
<1>5. Returned(a) \in BOOLEAN
  BY DEF Returned
<1>6. admin' = [admin EXCEPT ![a] = local] /\ UNCHANGED <<orderVars, credits, refunds, given>>
  BY DEF Assess
<1>7. local \in AdminType
  <2>. HIDE DEF label, reclaim
  <2>. QED BY <1>1, <1>3, <1>4, <1>5 DEF AdminType
<1>. HIDE DEF local
<1>. QED
  BY <1>6, <1>7, AdminTyped DEF TypeOK, orderVars

LEMMA AdminTypes ==
    ASSUME TypeOK, Inv, NEW a \in Admins, AdminStep(a)
    PROVE  TypeOK'
<1>. DEFINE Rows == [Refunds -> [status : RefundStatus, tx : Txs \cup {None}, amount : 0..Amount]]
            Goes == \E local \in AdminType : admin' = [admin EXCEPT ![a] = local]
<1>1. /\ credits \in [granted : BOOLEAN, balance : Nat] /\ refunds \in Rows
      /\ given \in [Refunds -> Nat] /\ admin[a].reclaim \in Nat
  BY AmountAssumption DEF TypeOK
<1>2. ASSUME NEW status \in RefundStatus, SetRefund(a, status) PROVE refunds' \in Rows
  BY <1>1, <1>2 DEF SetRefund
<1>3. ASSUME NEW label \in AdminLabels, GotoAdmin(a, label) PROVE Goes
  <2>1. admin' = [admin EXCEPT ![a] = [admin[a] EXCEPT !.pc = label]]
    BY <1>3 DEF GotoAdmin
  <2>2. [admin[a] EXCEPT !.pc = label] \in AdminType
    BY LocalTypes
  <2>. QED BY <2>1, <2>2
<1>4. ASSUME Leave(a) PROVE Goes
  <2>1. NoAdmin \in AdminType
    BY LocalTypes
  <2>. QED BY <1>4, <2>1 DEF Leave
<1>5. ASSUME NEW label \in AdminLabels, NEW r \in Refunds,
             admin' = [admin EXCEPT ![a] = [NoAdmin EXCEPT !.pc = label, !.refund = r]]
      PROVE  Goes
  BY <1>5, LocalTypes
<1>. HIDE DEF Goes, Rows
<1>. USE DEF AdminLabels
<1>6. Goes \/ Assess(a)
  <2>1. CASE CreateRefund(a) \/ ProcessRefund(a) \/ ReadForReject(a)
    BY <1>5, <2>1 DEF CreateRefund, ProcessRefund, ReadForReject
  <2>2. CASE GatewayRefunds(a)
    <3>1. CASE GotoAdmin(a, "restore")
      BY <1>3, <3>1
    <3>2. CASE admin' = [admin EXCEPT ![a] = [@ EXCEPT !.pc = "mark", !.completed = TRUE, !.reclaim = 0]]
      <4>1. [admin[a] EXCEPT !.pc = "mark", !.completed = TRUE, !.reclaim = 0] \in AdminType
        BY LocalTypes
      <4>. QED BY <3>2, <4>1 DEF Goes
    <3>. QED BY <2>2, <3>1, <3>2 DEF GatewayRefunds
  <2>3. CASE Restore(a)
    <3>1. [admin[a] EXCEPT !.pc = "catch", !.reclaim = 0] \in AdminType
      BY LocalTypes
    <3>2. admin' = [admin EXCEPT ![a] = [@ EXCEPT !.pc = "catch", !.reclaim = 0]]
      BY <2>3 DEF Restore
    <3>. QED BY <3>1, <3>2 DEF Goes
  <2>4. CASE \/ Review(a) \/ LockRefund(a) \/ Finalize(a) \/ CatchRefund(a) \/ RejectRefund(a)
             \/ AdminDies(a)
    BY <1>3, <1>4, <2>4 DEF Review, LockRefund, Finalize, CatchRefund, RejectRefund, AdminDies
  <2>5. CASE \/ AssessForReview(a) \/ Reclaim(a) \/ GatewayRefuses(a) \/ MarkGateway(a)
             \/ RefundFails(a)
    BY <1>3, <2>5 DEF AssessForReview, Reclaim, GatewayRefuses, MarkGateway, RefundFails
  <2>. QED BY <2>1, <2>2, <2>3, <2>4, <2>5 DEF AdminStep
<1>7. refunds' \in Rows
  <2>1. CASE CreateRefund(a)
    <3>1. PICK r \in Refunds, t \in Txs, n \in 1..Amount :
            refunds' = [refunds EXCEPT ![r] = [status |-> "REQUESTED", tx |-> t, amount |-> n]]
      BY <2>1 DEF CreateRefund
    <3>. QED
      BY <1>1, <3>1, AmountAssumption DEF Rows, RefundStatus
  <2>2. CASE ~CreateRefund(a)
    <3>1. refunds' = refunds \/ \E status \in RefundStatus : SetRefund(a, status)
      BY <2>2 DEF AdminStep, ProcessRefund, Assess, AssessForReview, Review, LockRefund, Reclaim,
         GatewayRefunds, GatewayRefuses, Restore, MarkGateway, Finalize, RefundFails, CatchRefund,
         ReadForReject, RejectRefund, AdminDies, RefundStatus
    <3>. QED BY <1>1, <1>2, <3>1
  <2>. QED BY <2>1, <2>2
<1>8. credits' \in [granted : BOOLEAN, balance : Nat]
  <2>1. CASE Reclaim(a)
    BY <1>1, <2>1 DEF Reclaim
  <2>2. CASE Restore(a)
    BY <1>1, <2>2 DEF Restore
  <2>3. CASE ~Reclaim(a) /\ ~Restore(a)
    <3>1. credits' = credits
      BY <2>3 DEF AdminStep, CreateRefund, ProcessRefund, Assess, AssessForReview, Review, LockRefund,
         GatewayRefunds, GatewayRefuses, MarkGateway, Finalize, RefundFails, CatchRefund,
         ReadForReject, RejectRefund, AdminDies
    <3>. QED BY <1>1, <3>1
  <2>. QED BY <2>1, <2>2, <2>3
<1>9. given' \in [Refunds -> Nat]
  <2>1. CASE GatewayRefunds(a)
    <3>1. \E r, n : n \in Nat /\ given' = [given EXCEPT ![r] = n]
      <4>. DEFINE r == admin[a].refund
                  n == IF Idempotent THEN 1 ELSE given[r] + 1
      <4>1. given' = [given EXCEPT ![r] = n]
        BY <2>1 DEF GatewayRefunds
      <4>2. r \in Refunds
        BY <2>1 DEF GatewayRefunds, Inv, AdminKnows
      <4>3. n \in Nat
        BY <1>1, <4>2
      <4>. QED BY <4>1, <4>3
    <3>. QED BY <1>1, <3>1
  <2>2. CASE ~GatewayRefunds(a)
    <3>1. given' = given
      BY <2>2 DEF AdminStep, CreateRefund, ProcessRefund, Assess, AssessForReview, Review, LockRefund,
         Reclaim, GatewayRefuses, Restore, MarkGateway, Finalize, RefundFails, CatchRefund,
         ReadForReject, RejectRefund, AdminDies
    <3>. QED BY <1>1, <3>1
  <2>. QED BY <2>1, <2>2
<1>10. /\ UNCHANGED <<gatewayVars, buyer, hookVars>>
       /\ UNCHANGED <<order, sub, txs>> \/ Finalize(a)
  BY DEF AdminStep, CreateRefund, ProcessRefund, Assess, AssessForReview, Review, LockRefund, Reclaim,
     GatewayRefunds, GatewayRefuses, Restore, MarkGateway, Finalize, RefundFails, CatchRefund,
     ReadForReject, RejectRefund, AdminDies, orderVars
<1>11. ASSUME Goes PROVE TypeOK'
  <2>1. PICK local \in AdminType : admin' = [admin EXCEPT ![a] = local]
    BY <1>11 DEF Goes
  <2>. QED BY <1>7, <1>8, <1>9, <1>10, <2>1, AdminTyped DEF Rows
<1>. QED
  BY <1>6, <1>11, AssessTypes

LEMMA NextTypes == TypeOK /\ Inv /\ [Next]_vars => TypeOK'
<1>. SUFFICES ASSUME TypeOK, Inv, [Next]_vars PROVE TypeOK'
  OBVIOUS
<1>1. CASE UNCHANGED vars
  BY <1>1 DEF TypeOK, vars
<1>. QED
  BY <1>1, BuyerTypes, WorldTypes, HookTypes, AdminTypes DEF Next

\* Every row and every local variable has the shape of its schema: in
\* particular the balance never goes below zero and a refund never reclaims
\* more credits than the order granted.
THEOREM TypeCorrect == Spec => []TypeOK
BY InitTypes, NextTypes, SpecInv, PTL DEF Spec
=============================================================================
