--------------------------- MODULE Subscriptions ---------------------------
(***************************************************************************)
(* The subscriptions of one user: orders with or without a coupon, their   *)
(* payment, and the renewals that the scan of processDueRenewals and an    *)
(* administrator's retry open (subscriptions.service.ts and the coupon     *)
(* statements of commerce.service.ts).                                     *)
(*                                                                         *)
(* A step is one statement or one transaction, after the reads it follows. *)
(* Rows are numbered in the order of their creation and time is counted in *)
(* small units.  The first subscription comes from a trial or a purchase,  *)
(* with its renewal switched on; the credits of a paid order are left to   *)
(* Payments.                                                               *)
(***************************************************************************)
EXTENDS Integers, FiniteSets

CONSTANTS
    MaxSubs, MaxOrders, MaxAttempts,  \* bounds: rows of each table
    MaxTime,    \* bound: the clock
    MaxTroubles, \* bound: requests to cancel, configure, retry or terminate, and
                 \* passes of the scan that die
    Period,     \* length of a billing period
    Remind,     \* a renewal is due this long before the end of the period
    Grace       \* and may be paid this long after it was found unpaid

ASSUME BoundsAssumption ==
    /\ {MaxSubs, MaxOrders, MaxAttempts, MaxTime, Period} \subseteq Nat \ {0}
    /\ {MaxTroubles, Remind, Grace} \subseteq Nat

VARIABLES
    now,       \* the clock
    subs,      \* UserSubscription
    orders,    \* SubscriptionOrder
    attempts,  \* SubscriptionRenewalAttempt
    coupon,    \* the UserCoupon of the user
    user,      \* the user's request to cancel or to configure the renewal
    job,       \* the scan and the administrator's retry
    troubles   \* such requests and deaths so far

vars == <<now, subs, orders, attempts, coupon, user, job, troubles>>

Subs     == 1..MaxSubs
Orders   == 1..MaxOrders
Attempts == 1..MaxAttempts
Jobs     == {"scan", "retry"}
None     == 0
Never    == MaxTime + 1  \* a nextRenewalAt that is null
Idle     == [pc |-> "idle", todo |-> {}, sub |-> None, number |-> 0, end |-> 0,
             attempt |-> None, order |-> None]

NoRequest == [sub |-> None, trial |-> FALSE, end |-> 0]
NoSub     == [status |-> "none", end |-> 0, auto |-> FALSE, atEnd |-> FALSE, next |-> Never,
              grace |-> Never, order |-> None]
NoOrder   == [status |-> "none", coupon |-> FALSE]
NoAttempt == [status |-> "none", sub |-> None, number |-> 0, end |-> 0, order |-> None]

Later(a, b)     == IF a > b THEN a ELSE b
ReminderAt(end) == Later(now, end - Remind)

Running == {"ACTIVE", "TRIALING"}
Live    == Running \cup {"PAST_DUE"}
IsOpen(o) == o # None /\ orders[o].status = "PENDING"

Init ==
    /\ now = 0
    /\ \E status \in Running :
          subs = [s \in Subs |-> IF s = 1
                    THEN [NoSub EXCEPT !.status = status, !.end = Period, !.auto = TRUE,
                                       !.next = Later(0, Period - Remind)]
                    ELSE NoSub]
    /\ orders = [o \in Orders |-> NoOrder]
    /\ attempts = [a \in Attempts |-> NoAttempt]
    /\ coupon \in [status : {"AVAILABLE"}, order : {None}]
    /\ user = NoRequest
    /\ job = [j \in Jobs |-> Idle]
    /\ troubles = 0

UnusedSubs     == {s \in Subs : subs[s].status = "none"}
UnusedOrders   == {o \in Orders : orders[o].status = "none"}
UnusedAttempts == {a \in Attempts : attempts[a].status = "none"}
FirstOf(rows)  == CHOOSE r \in rows : \A other \in rows : r <= other
LastOf(rows)   == CHOOSE r \in rows : \A other \in rows : r >= other

Trouble == troubles < MaxTroubles /\ troubles' = troubles + 1

Tick ==
    /\ now < MaxTime
    /\ now' = now + 1
    /\ UNCHANGED <<subs, orders, attempts, coupon, user, job, troubles>>

(***************************************************************************)
(* Orders and coupons.                                                     *)
(***************************************************************************)
\* createOrder, serializable: the same pending order is handed out again.
CreateOrder ==
    \E withCoupon \in BOOLEAN :
       /\ UnusedOrders # {}
       /\ LET o == FirstOf(UnusedOrders) IN
             /\ \A other \in Orders : IsOpen(other) => orders[other].coupon # withCoupon
             /\ withCoupon => coupon.status = "AVAILABLE"
             /\ orders' = [orders EXCEPT ![o] = [status |-> "PENDING", coupon |-> withCoupon]]
             /\ coupon' = IF withCoupon THEN [status |-> "LOCKED", order |-> o] ELSE coupon
       /\ UNCHANGED <<now, subs, attempts, user, job, troubles>>

\* wallet() ends the coupons that passed their date.
ExpireCoupon ==
    /\ coupon.status = "AVAILABLE"
    /\ coupon' = [coupon EXCEPT !.status = "EXPIRED"]
    /\ UNCHANGED <<now, subs, orders, attempts, user, job, troubles>>

\* Mutant of Released: every locked coupon is released with the order.
ReleasedAny(o) == IF coupon.status = "LOCKED" THEN [status |-> "AVAILABLE", order |-> None] ELSE coupon

Released(o) == IF coupon.status = "LOCKED" /\ coupon.order = o
               THEN [status |-> "AVAILABLE", order |-> None] ELSE coupon

\* cancelOrder leaves the renewal attempt as it is, cancelOwnOrder ends it.
CancelOrder ==
    \E o \in Orders, own \in BOOLEAN :
       /\ IsOpen(o)
       /\ orders' = [orders EXCEPT ![o].status = "CANCELLED"]
       /\ coupon' = Released(o)
       /\ attempts' = [a \in Attempts |->
             IF own /\ attempts[a].order = o /\ attempts[a].status = "PAYMENT_REQUIRED"
             THEN [attempts[a] EXCEPT !.status = "CANCELLED"] ELSE attempts[a]]
       /\ UNCHANGED <<now, subs, user, job, troubles>>

AttemptsOf(o) == {a \in Attempts : attempts[a].order = o}
MadeFor(o)    == {s \in Subs : subs[s].order = o}

\* The renewal branch of markPaid, once per attempt.
PayRenewal(o, a) ==
    /\ LET s   == attempts[a].sub
           end == Later(subs[s].end, now) + Period
       IN  subs' = [subs EXCEPT ![s] = [@ EXCEPT !.status = "ACTIVE", !.end = end, !.atEnd = FALSE,
                      !.grace = Never, !.next = IF subs[s].auto THEN ReminderAt(end) ELSE Never]]
    /\ attempts' = [attempts EXCEPT ![a].status = "SUCCEEDED"]
    /\ orders' = [orders EXCEPT ![o].status = "PAID"]
    /\ UNCHANGED coupon

\* The other branch: what runs is ended, PAST_DUE excepted, and a row created.
PayPurchase(o) ==
    /\ UnusedSubs # {}
    /\ orders[o].coupon => coupon.status = "LOCKED" /\ coupon.order = o
    /\ subs' = [s \in Subs |->
          CASE s = FirstOf(UnusedSubs) ->
                   [NoSub EXCEPT !.status = "ACTIVE", !.end = now + Period, !.order = o]
            [] subs[s].status \in Running -> [subs[s] EXCEPT !.status = "CANCELLED"]
            [] OTHER -> subs[s]]
    /\ coupon' = IF orders[o].coupon THEN [status |-> "REDEEMED", order |-> o] ELSE coupon
    /\ orders' = [orders EXCEPT ![o].status = "PAID"]
    /\ UNCHANGED attempts

Unsettled(o) == {a \in AttemptsOf(o) : attempts[a].status # "SUCCEEDED"}

\* markPaid, called again by every callback and replay of the payment.
MarkPaid ==
    \E o \in Orders :
       /\ orders[o].status \in {"PENDING", "PAID"}
       /\ \/ \E a \in Unsettled(o) : PayRenewal(o, a)
          \/ AttemptsOf(o) = {} /\ MadeFor(o) = {} /\ PayPurchase(o)
       /\ UNCHANGED <<now, user, job, troubles>>

(***************************************************************************)
(* The requests of the user.  current() settles the statuses first.        *)
(***************************************************************************)
Settle(sub) ==
    CASE sub.status \in Running /\ sub.end < now /\ (sub.atEnd \/ ~sub.auto) ->
             [sub EXCEPT !.status = "EXPIRED"]
      [] sub.status \in Running /\ sub.end < now /\ sub.auto /\ ~sub.atEnd ->
             [sub EXCEPT !.status = "PAST_DUE", !.grace = now + Grace]
      [] sub.status = "PAST_DUE" /\ sub.grace < now ->
             [sub EXCEPT !.status = "EXPIRED", !.auto = FALSE]
      [] OTHER -> sub

Current == {s \in Subs : Settle(subs[s]).status \in Live}

View ==
    /\ subs' = [s \in Subs |-> Settle(subs[s])]
    /\ UNCHANGED <<now, orders, attempts, coupon, user, job, troubles>>

Ask ==
    /\ Trouble
    /\ user = NoRequest /\ Current # {}
    /\ LET s == LastOf(Current) IN
          user' = [sub |-> s, trial |-> Settle(subs[s]).status = "TRIALING", end |-> subs[s].end]
    /\ subs' = [s \in Subs |-> Settle(subs[s])]
    /\ UNCHANGED <<now, orders, attempts, coupon, job>>

\* The row is written by its id, whatever became of it since.
Write(sub) ==
    /\ user # NoRequest
    /\ subs' = [subs EXCEPT ![user.sub] = sub]
    /\ user' = NoRequest
    /\ UNCHANGED <<now, orders, attempts, coupon, job, troubles>>

Cancel ==
    Write(IF user.trial
          THEN [subs[user.sub] EXCEPT !.status = "CANCELLED", !.auto = FALSE, !.next = Never]
          ELSE [subs[user.sub] EXCEPT !.atEnd = TRUE, !.auto = FALSE, !.next = Never])

ConfigureRenewal ==
    \E enabled \in BOOLEAN :
       Write([subs[user.sub] EXCEPT !.auto = enabled, !.atEnd = FALSE,
                !.next = IF enabled THEN ReminderAt(user.end) ELSE Never])

Terminate ==
    /\ Trouble
    /\ \E s \in Subs : /\ subs[s].status \in Running
                       /\ subs' = [subs EXCEPT ![s].status = "CANCELLED"]
    /\ UNCHANGED <<now, orders, attempts, coupon, user, job>>

(***************************************************************************)
(* createRenewalAttempt, for every subscription the scan found due or for  *)
(* the one the administrator retries.                                      *)
(***************************************************************************)
Due == {s \in Subs : /\ subs[s].status \in Live
                     /\ subs[s].auto /\ ~subs[s].atEnd /\ subs[s].next <= now}

AttemptsFor(s) == {a \in Attempts : attempts[a].sub = s}
\* The latest attempt of the subscription that waits for its payment.
Waiting(s)  == {a \in AttemptsFor(s) : attempts[a].status = "PAYMENT_REQUIRED"}
Answered(s) == Waiting(s) # {} /\ IsOpen(attempts[LastOf(Waiting(s))].order)
Numbers(s)  == {attempts[a].number : a \in AttemptsFor(s)} \cup {0}

Goto(j, label) == job' = [job EXCEPT ![j].pc = label]
NextSub(j) == job' = [job EXCEPT ![j] = [Idle EXCEPT !.pc = "next", !.todo = job[j].todo]]

StartPass ==
    /\ job["scan"].pc = "idle"
    /\ job' = [job EXCEPT !["scan"] = [Idle EXCEPT !.pc = "next", !.todo = Due]]
    /\ UNCHANGED <<now, subs, orders, attempts, coupon, user, troubles>>

RetryAttempt ==
    /\ Trouble
    /\ job["retry"].pc = "idle"
    /\ \E a \in Attempts :
          /\ attempts[a].status \in {"FAILED", "PAYMENT_REQUIRED"}
          /\ ~IsOpen(attempts[a].order)
          /\ job' = [job EXCEPT !["retry"] = [Idle EXCEPT !.pc = "enable", !.sub = attempts[a].sub]]
    /\ UNCHANGED <<now, subs, orders, attempts, coupon, user>>

Enable ==
    /\ job["retry"].pc = "enable"
    /\ subs' = [subs EXCEPT ![job["retry"].sub] = [@ EXCEPT !.auto = TRUE, !.next = now]]
    /\ job' = [job EXCEPT !["retry"] = [Idle EXCEPT !.pc = "next", !.todo = {job["retry"].sub}]]
    /\ UNCHANGED <<now, orders, attempts, coupon, user, troubles>>

\* Mutant of Wanted: an attempt that was begun counts as one that is open.
WantedOnce(s) == /\ subs[s].auto /\ ~subs[s].atEnd
                 /\ \A a \in AttemptsFor(s) : attempts[a].status # "PROCESSING"
                 /\ ~Answered(s)

Wanted(s) == subs[s].auto /\ ~subs[s].atEnd /\ ~Answered(s)

\* Its first reads; an open order or a renewal switched off ends it here.
ReadSub(j) ==
    /\ job[j].pc = "next"
    /\ \E s \in job[j].todo :
          LET rest == job[j].todo \ {s} IN
          IF Wanted(s)
          THEN job' = [job EXCEPT ![j] = [Idle EXCEPT !.pc = "insert", !.todo = rest, !.sub = s,
                          !.number = LastOf(Numbers(s)) + 1, !.end = subs[s].end]]
          ELSE job' = [job EXCEPT ![j].todo = rest]
    /\ UNCHANGED <<now, subs, orders, attempts, coupon, user, troubles>>

SameKey(j) == {a \in AttemptsFor(job[j].sub) :
                  attempts[a].number = job[j].number /\ attempts[a].end = job[j].end}

\* The idempotency key is unique: the second of two creators fails here.
InsertAttempt(j) ==
    /\ job[j].pc = "insert"
    /\ IF SameKey(j) # {}
       THEN NextSub(j) /\ UNCHANGED attempts
       ELSE /\ UnusedAttempts # {}
            /\ LET a == FirstOf(UnusedAttempts) IN
                  /\ attempts' = [attempts EXCEPT ![a] =
                        [status |-> "PROCESSING", sub |-> job[j].sub, number |-> job[j].number,
                         end |-> job[j].end, order |-> None]]
                  /\ \E label \in {"order", "no channel"} :
                        job' = [job EXCEPT ![j] = [@ EXCEPT !.pc = label, !.attempt = a, !.number = 0]]
    /\ UNCHANGED <<now, subs, orders, coupon, user, troubles>>

NoChannel(j) ==
    /\ job[j].pc = "no channel"
    /\ subs' = [subs EXCEPT ![job[j].sub].next = Never]
    /\ Goto(j, "fail")
    /\ UNCHANGED <<now, orders, attempts, coupon, user, troubles>>

FailAttempt(j) ==
    /\ job[j].pc = "fail"
    /\ attempts' = [attempts EXCEPT ![job[j].attempt].status = "FAILED"]
    /\ NextSub(j)
    /\ UNCHANGED <<now, subs, orders, coupon, user, troubles>>

InsertOrder(j) ==
    /\ job[j].pc = "order"
    /\ UnusedOrders # {}
    /\ LET o == FirstOf(UnusedOrders) IN
          /\ orders' = [orders EXCEPT ![o] = [status |-> "PENDING", coupon |-> FALSE]]
          /\ job' = [job EXCEPT ![j] = [@ EXCEPT !.pc = "link", !.order = o]]
    /\ UNCHANGED <<now, subs, attempts, coupon, user, troubles>>

\* Mutant of LinkOrder: the attempt is opened without its order.
LinkNothing(j) ==
    /\ job[j].pc = "link"
    /\ attempts' = [attempts EXCEPT ![job[j].attempt].status = "PAYMENT_REQUIRED"]
    /\ Goto(j, "postpone")
    /\ UNCHANGED <<now, subs, orders, coupon, user, troubles>>

LinkOrder(j) ==
    /\ job[j].pc = "link"
    /\ attempts' = [attempts EXCEPT ![job[j].attempt] =
                       [@ EXCEPT !.status = "PAYMENT_REQUIRED", !.order = job[j].order]]
    /\ Goto(j, "postpone")
    /\ UNCHANGED <<now, subs, orders, coupon, user, troubles>>

\* With the end of the period as it was read at the beginning.
Postpone(j) ==
    /\ job[j].pc = "postpone"
    /\ subs' = [subs EXCEPT ![job[j].sub] =
          IF job[j].end <= now
          THEN [@ EXCEPT !.next = Never, !.status = "PAST_DUE", !.grace = now + Grace]
          ELSE [@ EXCEPT !.next = Never]]
    /\ NextSub(j)
    /\ UNCHANGED <<now, orders, attempts, coupon, user, troubles>>

\* Mutant of ExpireGrace: only a subscription still due is ended.
ExpireDue(j) ==
    /\ job[j].pc = "next" /\ job[j].todo = {}
    /\ subs' = [s \in Subs |->
          IF j = "scan" /\ subs[s].status = "PAST_DUE" /\ subs[s].grace < now /\ subs[s].next <= now
          THEN [subs[s] EXCEPT !.status = "EXPIRED", !.auto = FALSE, !.next = Never] ELSE subs[s]]
    /\ job' = [job EXCEPT ![j] = Idle]
    /\ UNCHANGED <<now, orders, attempts, coupon, user, troubles>>

\* The end of a pass; a retry just returns.
ExpireGrace(j) ==
    /\ job[j].pc = "next" /\ job[j].todo = {}
    /\ subs' = [s \in Subs |->
          IF j = "scan" /\ subs[s].status = "PAST_DUE" /\ subs[s].grace < now
          THEN [subs[s] EXCEPT !.status = "EXPIRED", !.auto = FALSE, !.next = Never] ELSE subs[s]]
    /\ job' = [job EXCEPT ![j] = Idle]
    /\ UNCHANGED <<now, orders, attempts, coupon, user, troubles>>

\* Anything between two statements; a retry was counted when it began.
Dies(j) ==
    /\ job[j].pc # "idle"
    /\ IF j = "scan" THEN Trouble ELSE UNCHANGED troubles
    /\ job' = [job EXCEPT ![j] = Idle]
    /\ UNCHANGED <<now, subs, orders, attempts, coupon, user>>

Renew(j) ==
    \/ ReadSub(j) \/ InsertAttempt(j) \/ NoChannel(j) \/ FailAttempt(j) \/ InsertOrder(j)
    \/ LinkOrder(j) \/ Postpone(j) \/ ExpireGrace(j)

ScanStep == StartPass \/ Renew("scan")

Next ==
    \/ Tick \/ CreateOrder \/ ExpireCoupon \/ CancelOrder \/ MarkPaid
    \/ View \/ Ask \/ Cancel \/ ConfigureRenewal \/ Terminate
    \/ ScanStep \/ RetryAttempt \/ Enable \/ Renew("retry")
    \/ \E j \in Jobs : Dies(j)

Spec == Init /\ [][Next]_vars

\* The scheduler starts a pass every quarter of an hour and a worker runs it;
\* nobody has to visit, pay or retry.
FairSpec == Spec /\ WF_vars(ScanStep) /\ WF_vars(Tick)

-----------------------------------------------------------------------------
\* Every row and every local variable has the shape of its schema, and an
\* attempt that waits for its payment or got it names the order to pay.
TypeOK ==
    /\ now \in 0..MaxTime
    /\ subs \in [Subs -> [status : Live \cup {"none", "CANCELLED", "EXPIRED"}, end : Nat,
                          auto : BOOLEAN, atEnd : BOOLEAN, next : Nat, grace : Nat,
                          order : Orders \cup {None}]]
    /\ orders \in [Orders -> [status : {"none", "PENDING", "PAID", "CANCELLED"}, coupon : BOOLEAN]]
    /\ attempts \in [Attempts -> [status : {"none", "PROCESSING", "PAYMENT_REQUIRED", "SUCCEEDED",
                                            "FAILED", "CANCELLED"},
                                  sub : Subs \cup {None}, number : Nat, end : Nat,
                                  order : Orders \cup {None}]]
    /\ coupon \in [status : {"AVAILABLE", "LOCKED", "REDEEMED", "EXPIRED"}, order : Orders \cup {None}]
    /\ user \in [sub : Subs \cup {None}, trial : BOOLEAN, end : Nat]
    /\ job \in [Jobs -> [pc : {"idle", "next", "enable", "insert", "order", "no channel", "fail",
                               "link", "postpone"},
                         todo : SUBSET Subs, sub : Subs \cup {None}, number : Nat, end : Nat,
                         attempt : Attempts \cup {None}, order : Orders \cup {None}]]
    /\ troubles \in 0..MaxTroubles
    /\ \A a \in Attempts : (attempts[a].order = None) =
          (attempts[a].status \in {"none", "PROCESSING", "FAILED"})

\* A coupon discounts one order at a time: an order that still waits for its
\* payment finds its coupon locked for it, so that the payment can be booked,
\* and no two orders are ever paid with it, however orders are created,
\* cancelled, paid and the coupon expires in between.
CouponIsAccountedFor ==
    LET using == {o \in Orders : orders[o].coupon /\ orders[o].status \in {"PENDING", "PAID"}} IN
    /\ Cardinality(using) <= 1
    /\ \A o \in using :
          /\ coupon.order = o
          /\ coupon.status = IF orders[o].status = "PENDING" THEN "LOCKED" ELSE "REDEEMED"

\* A period that is longer than before was paid for by an order that had not
\* paid for one yet: callbacks and replays repeat the payment, not the period.
ExtensionIsPaidFor ==
    [][\A s \in Subs : subs'[s].end > subs[s].end =>
          \E o \in Orders : orders[o].status = "PENDING" /\ orders'[o].status = "PAID"]_vars

\* The bound on the rows leaves none for a renewal.
Full == UnusedOrders = {} \/ UnusedAttempts = {}

\* A renewal that is due gets an order to pay, or stops being due, although
\* its creator may die after any statement.
DueIsAnswered ==
    \A s \in Subs : s \in Due ~> (s \notin Due \/ Answered(s) \/ Full)

\* A subscription whose grace is over does not stay PAST_DUE.
GraceEnds ==
    \A s \in Subs : subs[s].status = "PAST_DUE" /\ subs[s].grace < now
                       ~> subs[s].status # "PAST_DUE" \/ subs[s].grace >= now \/ Full
=============================================================================
