------------------------ MODULE SubscriptionsProofs ------------------------
(***************************************************************************)
(* Proofs about Subscriptions, for any number of rows, any clock and any   *)
(* periods: the type invariant, and that a coupon is accounted for.        *)
(*                                                                         *)
(* The first rests on the ownership of the attempts: the one that a job    *)
(* has begun is PROCESSING and belongs to no other job.  The second rests  *)
(* on the orders of renewals, which never carry a coupon.                  *)
(***************************************************************************)
EXTENDS Subscriptions, TotalsProofs

SubType     == [status : Live \cup {"none", "CANCELLED", "EXPIRED"}, end : Nat, auto : BOOLEAN,
                atEnd : BOOLEAN, next : Nat, grace : Nat, order : Orders \cup {None}]
OrderType   == [status : {"none", "PENDING", "PAID", "CANCELLED"}, coupon : BOOLEAN]
AttemptType == [status : {"none", "PROCESSING", "PAYMENT_REQUIRED", "SUCCEEDED", "FAILED", "CANCELLED"},
                sub : Subs \cup {None}, number : Nat, end : Nat, order : Orders \cup {None}]
CouponType  == [status : {"AVAILABLE", "LOCKED", "REDEEMED", "EXPIRED"}, order : Orders \cup {None}]
UserType    == [sub : Subs \cup {None}, trial : BOOLEAN, end : Nat]
JobType     == [pc : {"idle", "next", "enable", "insert", "order", "no channel", "fail", "link",
                      "postpone"},
                todo : SUBSET Subs, sub : Subs \cup {None}, number : Nat, end : Nat,
                attempt : Attempts \cup {None}, order : Orders \cup {None}]

SubsOK == subs \in [Subs -> SubType]

\* The numbers of the attempts have a greatest one.
AttemptsOK ==
    /\ attempts \in [Attempts -> AttemptType]
    /\ \A a \in Attempts :
          /\ (attempts[a].order = None) = (attempts[a].status \in {"none", "PROCESSING", "FAILED"})
          /\ attempts[a].status # "none" => attempts[a].sub \in Subs
    /\ \E bound \in Nat : \A a \in Attempts : attempts[a].number <= bound

UserOK == user \in UserType /\ (user # NoRequest => user.sub \in Subs)

\* The places of a job where it has begun an attempt and not yet ended it.
Begun == {"order", "no channel", "fail", "link"}

JobOK(j) ==
    /\ job[j].pc \notin {"idle", "next"} => job[j].sub \in Subs
    /\ job[j].pc \in Begun => /\ job[j].attempt \in Attempts
                              /\ attempts[job[j].attempt].status = "PROCESSING"
    /\ job[j].pc = "link" => job[j].order \in Orders

JobsOK ==
    /\ job \in [Jobs -> JobType]
    /\ \A j \in Jobs : JobOK(j)
    /\ \A j \in Jobs, k \in Jobs :
          job[j].pc \in Begun /\ job[k].pc \in Begun /\ job[j].attempt = job[k].attempt => j = k

TypeInv ==
    /\ now \in 0..MaxTime /\ troubles \in 0..MaxTroubles
    /\ orders \in [Orders -> OrderType] /\ coupon \in CouponType
    /\ SubsOK /\ AttemptsOK /\ UserOK /\ JobsOK

\* An order of a renewal, also one that is not linked yet, carries no coupon.
Plain(o) == orders[o].status # "none" /\ ~orders[o].coupon

Uses(o) == orders[o].coupon /\ orders[o].status \in {"PENDING", "PAID"}

CouponInv ==
    /\ \A a \in Attempts : attempts[a].order # None => Plain(attempts[a].order)
    /\ \A j \in Jobs : job[j].pc = "link" => Plain(job[j].order)
    /\ \A o \in Orders : Uses(o) =>
          /\ coupon.order = o
          /\ coupon.status = IF orders[o].status = "PENDING" THEN "LOCKED" ELSE "REDEEMED"

-----------------------------------------------------------------------------
(***************************************************************************)
(* The first and the last of a set of rows or numbers.                     *)
(***************************************************************************)
LEMMA FirstExists ==
    ASSUME NEW rows \in SUBSET Nat, rows # {}
    PROVE  FirstOf(rows) \in rows /\ \A other \in rows : FirstOf(rows) <= other
BY LeastExists DEF FirstOf

\* The last is the first of the distances from the bound.
LEMMA LastExists ==
    ASSUME NEW rows \in SUBSET Nat, rows # {}, NEW bound \in Nat, \A r \in rows : r <= bound
    PROVE  LastOf(rows) \in rows
<1>. DEFINE distances == {bound - r : r \in rows}
<1>0. \A r \in rows : r \in Nat /\ bound - r \in Nat
  OBVIOUS
<1>1. distances \in SUBSET Nat /\ distances # {}
  BY <1>0
<1>2. PICK d \in distances : \A other \in distances : d <= other
  <2>. HIDE DEF distances
  <2>. QED
    BY <1>1, FirstExists
<1>3. PICK r \in rows : d = bound - r
  OBVIOUS
<1>4. \A other \in rows : r >= other
  <2>1. SUFFICES ASSUME NEW other \in rows PROVE r >= other
    OBVIOUS
  <2>2. bound - other \in distances
    OBVIOUS
  <2>3. bound - r <= bound - other
    <3>. HIDE DEF distances
    <3>. QED
      BY <1>2, <1>3, <2>2
  <2>4. r \in Nat /\ other \in Nat
    OBVIOUS
  <2>. QED
    BY <2>3, <2>4
<1>. QED
  BY <1>4 DEF LastOf

LEMMA FirstRows ==
    /\ UnusedSubs # {} => FirstOf(UnusedSubs) \in UnusedSubs
    /\ UnusedOrders # {} => FirstOf(UnusedOrders) \in UnusedOrders
    /\ UnusedAttempts # {} => FirstOf(UnusedAttempts) \in UnusedAttempts
<1>1. UnusedSubs \in SUBSET Nat /\ UnusedOrders \in SUBSET Nat /\ UnusedAttempts \in SUBSET Nat
  BY BoundsAssumption DEF UnusedSubs, UnusedOrders, UnusedAttempts, Subs, Orders, Attempts
<1>. QED
  BY <1>1, FirstExists

LEMMA LastCurrent == Current # {} => LastOf(Current) \in Current
<1>1. Current \in SUBSET Nat /\ MaxSubs \in Nat /\ \A s \in Current : s <= MaxSubs
  BY BoundsAssumption DEF Current, Subs
<1>. QED
  BY <1>1, LastExists

LEMMA NumbersHaveLast ==
    ASSUME AttemptsOK, NEW s
    PROVE  LastOf(Numbers(s)) \in Nat
<1>1. PICK bound \in Nat : \A a \in Attempts : attempts[a].number <= bound
  BY DEF AttemptsOK
<1>2. \A a \in Attempts : attempts[a].number \in Nat
  BY DEF AttemptsOK, AttemptType
<1>3. Numbers(s) \in SUBSET Nat /\ Numbers(s) # {} /\ \A n \in Numbers(s) : n <= bound
  BY <1>1, <1>2 DEF Numbers, AttemptsFor
<1>. QED
  BY <1>3, LastExists

-----------------------------------------------------------------------------
(***************************************************************************)
(* Types.                                                                  *)
(***************************************************************************)
LEMMA NowType == now \in 0..MaxTime => now \in Nat
BY BoundsAssumption

LEMMA LaterType == ASSUME NEW m \in Nat, NEW n \in Int PROVE Later(m, n) \in Nat /\ Later(n, m) \in Nat
BY DEF Later

LEMMA ReminderType == ASSUME NEW end \in Nat, now \in Nat PROVE ReminderAt(end) \in Nat
<1>1. end - Remind \in Int
  BY BoundsAssumption
<1>. QED
  BY <1>1, LaterType DEF ReminderAt

LEMMA NeverType == Never \in Nat
BY BoundsAssumption DEF Never

LEMMA NoSubType == NoSub \in SubType
BY NeverType DEF NoSub, SubType

LEMMA NoneIsNoRow == None \notin Subs /\ None \notin Orders /\ None \notin Attempts
BY BoundsAssumption DEF None, Subs, Orders, Attempts

LEMMA IdleType == Idle \in JobType /\ Idle.pc = "idle"
BY DEF Idle, JobType

LEMMA InitType == Init => TypeInv
<1>. SUFFICES ASSUME Init PROVE TypeInv
  OBVIOUS
<1>1. now \in 0..MaxTime /\ troubles \in 0..MaxTroubles /\ now = 0
  BY BoundsAssumption DEF Init
<1>2. orders \in [Orders -> OrderType] /\ coupon \in CouponType
  BY DEF Init, NoOrder, OrderType, CouponType
<1>3. SubsOK
  <2>1. PICK status \in Running :
           subs = [s \in Subs |-> IF s = 1
                     THEN [NoSub EXCEPT !.status = status, !.end = Period, !.auto = TRUE,
                                        !.next = Later(0, Period - Remind)]
                     ELSE NoSub]
    BY DEF Init
  <2>2. Later(0, Period - Remind) \in Nat /\ Period \in Nat
    <3>1. Period - Remind \in Int /\ Period \in Nat
      BY BoundsAssumption
    <3>. QED
      BY <3>1, LaterType
  <2>3. PICK next \in Nat : next = Later(0, Period - Remind)
    BY <2>2
  <2>4. status \in Live \cup {"none", "CANCELLED", "EXPIRED"}
    BY DEF Running, Live
  <2>5. [NoSub EXCEPT !.status = status, !.end = Period, !.auto = TRUE, !.next = next] \in SubType
    BY <2>2, <2>4, NoSubType DEF SubType
  <2>. QED
    BY <2>1, <2>3, <2>5, NoSubType DEF SubsOK
<1>4. AttemptsOK
  BY DEF Init, AttemptsOK, AttemptType, NoAttempt
<1>5. UserOK
  BY DEF Init, UserOK, UserType, NoRequest
<1>6. JobsOK
  BY IdleType DEF Init, JobsOK, JobOK, Begun
<1>. QED
  BY <1>1, <1>2, <1>3, <1>4, <1>5, <1>6 DEF TypeInv

\* The attempts that jobs have begun are theirs until they end them.
LEMMA JobsStay ==
    ASSUME JobsOK, UNCHANGED job,
           \A a \in Attempts : attempts[a].status = "PROCESSING" => attempts'[a] = attempts[a]
    PROVE  JobsOK'
BY DEF JobsOK, JobOK

\* A step of one job that has no attempt afterwards.
LEMMA JobDropsAttempt ==
    ASSUME JobsOK, NEW j \in Jobs, NEW row \in JobType, job' = [job EXCEPT ![j] = row],
           row.pc \notin Begun, row.pc \notin {"idle", "next"} => row.sub \in Subs,
           \A a \in Attempts : attempts[a].status = "PROCESSING" =>
              \/ attempts'[a] = attempts[a]
              \/ job[j].pc \in Begun /\ job[j].attempt = a
    PROVE  JobsOK'
<1>1. job' \in [Jobs -> JobType] /\ job'[j] = row /\ \A k \in Jobs : k # j => job'[k] = job[k]
  BY DEF JobsOK
<1>2. JobOK(j)'
  BY <1>1 DEF JobOK, Begun
<1>3. ASSUME NEW k \in Jobs, k # j PROVE JobOK(k)'
  <2>1. job'[k] = job[k] /\ JobOK(k)
    BY <1>1, <1>3 DEF JobsOK
  <2>2. CASE job[k].pc \in Begun
    <3>1. job[k].attempt \in Attempts /\ attempts[job[k].attempt].status = "PROCESSING"
      BY <2>1, <2>2 DEF JobOK
    <3>2. ~(job[j].pc \in Begun /\ job[j].attempt = job[k].attempt)
      BY <1>3, <2>2 DEF JobsOK
    <3>3. attempts'[job[k].attempt] = attempts[job[k].attempt]
      BY <3>1, <3>2
    <3>. QED
      BY <2>1, <3>3 DEF JobOK
  <2>3. CASE job[k].pc \notin Begun
    BY <2>1, <2>3 DEF JobOK, Begun
  <2>. QED
    BY <2>2, <2>3
<1>4. \A k, l \in Jobs : job'[k].pc \in Begun /\ job'[l].pc \in Begun
                         /\ job'[k].attempt = job'[l].attempt => k = l
  BY <1>1 DEF JobsOK
<1>. QED
  BY <1>1, <1>2, <1>3, <1>4 DEF JobsOK

\* A step of one job that keeps its attempt.
LEMMA JobKeepsAttempt ==
    ASSUME JobsOK, UNCHANGED attempts, NEW j \in Jobs, NEW row \in JobType,
           job' = [job EXCEPT ![j] = row],
           job[j].pc \in Begun, row.pc \in Begun,
           row.attempt = job[j].attempt, row.sub = job[j].sub,
           row.pc = "link" => row.order \in Orders
    PROVE  JobsOK'
<1>1. job' \in [Jobs -> JobType] /\ job'[j] = row /\ \A k \in Jobs : k # j => job'[k] = job[k]
  BY DEF JobsOK
<1>2. JobOK(j)'
  BY <1>1 DEF JobsOK, JobOK, Begun
<1>3. \A k \in Jobs : k # j => JobOK(k)'
  BY <1>1 DEF JobsOK, JobOK
<1>4. \A k, l \in Jobs : job'[k].pc \in Begun /\ job'[l].pc \in Begun
                         /\ job'[k].attempt = job'[l].attempt => k = l
  BY <1>1 DEF JobsOK
<1>. QED
  BY <1>1, <1>2, <1>3, <1>4 DEF JobsOK

\* One row of a subscription is written.
LEMMA SubWritten ==
    ASSUME SubsOK, NEW s, NEW row, s \in Subs => row \in SubType, subs' = [subs EXCEPT ![s] = row]
    PROVE  SubsOK'
BY DEF SubsOK

LEMMA SettleType ==
    ASSUME now \in Nat, NEW sub \in SubType
    PROVE  Settle(sub) \in SubType
<1>1. now + Grace \in Nat
  BY BoundsAssumption
<1>2. [sub EXCEPT !.status = "EXPIRED"] \in SubType
  BY DEF SubType
<1>3. [sub EXCEPT !.status = "PAST_DUE", !.grace = now + Grace] \in SubType
  BY <1>1 DEF SubType, Live
<1>4. [sub EXCEPT !.status = "EXPIRED", !.auto = FALSE] \in SubType
  BY DEF SubType
<1>. QED
  BY <1>2, <1>3, <1>4 DEF Settle

LEMMA CreateOrderType == TypeInv /\ CreateOrder => TypeInv'
<1>. SUFFICES ASSUME TypeInv, CreateOrder PROVE TypeInv'
  OBVIOUS
<1>1. PICK withCoupon \in BOOLEAN, o \in Orders :
         /\ orders' = [orders EXCEPT ![o] = [status |-> "PENDING", coupon |-> withCoupon]]
         /\ coupon' = IF withCoupon THEN [status |-> "LOCKED", order |-> o] ELSE coupon
  BY FirstRows DEF CreateOrder, UnusedOrders
<1>2. UNCHANGED <<now, subs, attempts, user, job, troubles>>
  BY DEF CreateOrder
<1>3. orders' \in [Orders -> OrderType] /\ coupon' \in CouponType
  BY <1>1 DEF TypeInv, OrderType, CouponType
<1>. QED
  BY <1>2, <1>3 DEF TypeInv, SubsOK, AttemptsOK, UserOK, JobsOK, JobOK

LEMMA ExpireCouponType == TypeInv /\ ExpireCoupon => TypeInv'
<1>. SUFFICES ASSUME TypeInv, ExpireCoupon PROVE TypeInv'
  OBVIOUS
<1>1. coupon' \in CouponType
  BY DEF ExpireCoupon, TypeInv, CouponType
<1>. QED
  BY <1>1 DEF ExpireCoupon, TypeInv, SubsOK, AttemptsOK, UserOK, JobsOK, JobOK

LEMMA CancelOrderType == TypeInv /\ CancelOrder => TypeInv'
<1>. SUFFICES ASSUME TypeInv, CancelOrder PROVE TypeInv'
  OBVIOUS
<1>1. PICK o \in Orders, own \in BOOLEAN :
         /\ orders' = [orders EXCEPT ![o].status = "CANCELLED"]
         /\ coupon' = Released(o)
         /\ attempts' = [a \in Attempts |->
               IF own /\ attempts[a].order = o /\ attempts[a].status = "PAYMENT_REQUIRED"
               THEN [attempts[a] EXCEPT !.status = "CANCELLED"] ELSE attempts[a]]
  BY DEF CancelOrder
<1>2. UNCHANGED <<now, subs, user, job, troubles>>
  BY DEF CancelOrder
<1>3. orders' \in [Orders -> OrderType]
  BY <1>1 DEF TypeInv, OrderType
<1>4. coupon' \in CouponType
  BY <1>1 DEF TypeInv, Released, CouponType
<1>5. \A a \in Attempts :
         \/ attempts'[a] = attempts[a]
         \/ /\ attempts[a].status = "PAYMENT_REQUIRED"
            /\ attempts'[a] = [attempts[a] EXCEPT !.status = "CANCELLED"]
  BY <1>1
<1>6. \A a \in Attempts :
         /\ attempts'[a] \in AttemptType
         /\ attempts'[a].order = attempts[a].order /\ attempts'[a].sub = attempts[a].sub
         /\ attempts'[a].number = attempts[a].number
         /\ \/ attempts'[a].status = attempts[a].status
            \/ attempts[a].status = "PAYMENT_REQUIRED" /\ attempts'[a].status = "CANCELLED"
  <2>1. TAKE a \in Attempts
  <2>2. attempts[a] \in AttemptType
    BY DEF TypeInv, AttemptsOK
  <2>3. /\ [attempts[a] EXCEPT !.status = "CANCELLED"] \in AttemptType
        /\ [attempts[a] EXCEPT !.status = "CANCELLED"].order = attempts[a].order
        /\ [attempts[a] EXCEPT !.status = "CANCELLED"].sub = attempts[a].sub
        /\ [attempts[a] EXCEPT !.status = "CANCELLED"].number = attempts[a].number
        /\ [attempts[a] EXCEPT !.status = "CANCELLED"].status = "CANCELLED"
    BY <2>2 DEF AttemptType
  <2>. QED
    BY <1>5, <2>2, <2>3
<1>7. AttemptsOK'
  <2>1. attempts' \in [Attempts -> AttemptType]
    BY <1>1, <1>6
  <2>. QED
    BY <1>6, <2>1 DEF TypeInv, AttemptsOK
<1>8. JobsOK'
  BY <1>2, <1>5, JobsStay DEF TypeInv
<1>. QED
  BY <1>2, <1>3, <1>4, <1>7, <1>8 DEF TypeInv, SubsOK, UserOK

LEMMA MarkPaidType == TypeInv /\ MarkPaid => TypeInv'
<1>. SUFFICES ASSUME TypeInv, MarkPaid PROVE TypeInv'
  OBVIOUS
<1>n. now \in Nat /\ now \in Int /\ Period \in Nat
  BY NowType, BoundsAssumption DEF TypeInv
<1>1. PICK o \in Orders :
         \/ \E a \in Unsettled(o) : PayRenewal(o, a)
         \/ PayPurchase(o)
  BY DEF MarkPaid
<1>2. UNCHANGED <<now, user, job, troubles>>
  BY DEF MarkPaid
<1>3. orders' = [orders EXCEPT ![o].status = "PAID"]
  BY <1>1 DEF PayRenewal, PayPurchase
<1>4. orders' \in [Orders -> OrderType]
  BY <1>3 DEF TypeInv, OrderType
<1>5. ASSUME NEW a \in Unsettled(o), PayRenewal(o, a) PROVE TypeInv'
  <2>1. a \in Attempts /\ attempts[a].order = o /\ attempts[a] \in AttemptType
    BY <1>5 DEF Unsettled, AttemptsOf, TypeInv, AttemptsOK
  <2>2. attempts[a].order # None /\ attempts[a].status \notin {"none", "PROCESSING", "FAILED"}
    BY <2>1, NoneIsNoRow DEF TypeInv, AttemptsOK
  <2>3. attempts[a].sub \in Subs /\ subs[attempts[a].sub] \in SubType
    BY <2>1, <2>2 DEF TypeInv, AttemptsOK, SubsOK
  <2>. DEFINE s   == attempts[a].sub
              end == Later(subs[s].end, now) + Period
              row == [subs[s] EXCEPT !.status = "ACTIVE", !.end = end, !.atEnd = FALSE,
                        !.grace = Never, !.next = IF subs[s].auto THEN ReminderAt(end) ELSE Never]
  <2>4. subs' = [subs EXCEPT ![s] = row]
    BY <1>5, <2>3 DEF PayRenewal, TypeInv, SubsOK
  <2>5. end \in Nat
    <3>1. subs[s].end \in Nat
      BY <2>3 DEF SubType
    <3>2. Later(subs[s].end, now) \in Nat
      BY <3>1, <1>n, LaterType
    <3>. QED
      BY <3>2, <1>n
  <2>6. PICK next \in Nat : next = IF subs[s].auto THEN ReminderAt(end) ELSE Never
    <3>. HIDE DEF end
    <3>. QED
      BY <2>5, <1>n, ReminderType, NeverType
  <2>7. row \in SubType
    <3>1. row = [subs[s] EXCEPT !.status = "ACTIVE", !.end = end, !.atEnd = FALSE, !.grace = Never,
                                !.next = next]
      BY <2>6
    <3>. HIDE DEF row, end
    <3>. QED
      BY <3>1, <2>3, <2>5, NeverType DEF SubType, Live, Running
  <2>8. SubsOK'
    <3>. HIDE DEF row
    <3>. QED
      BY <2>4, <2>7, SubWritten DEF TypeInv
  <2>9. /\ [attempts[a] EXCEPT !.status = "SUCCEEDED"] \in AttemptType
        /\ [attempts[a] EXCEPT !.status = "SUCCEEDED"].number = attempts[a].number
        /\ [attempts[a] EXCEPT !.status = "SUCCEEDED"].order = attempts[a].order
        /\ [attempts[a] EXCEPT !.status = "SUCCEEDED"].sub = attempts[a].sub
        /\ [attempts[a] EXCEPT !.status = "SUCCEEDED"].status = "SUCCEEDED"
    BY <2>1 DEF AttemptType
  <2>10. attempts' = [attempts EXCEPT ![a] = [attempts[a] EXCEPT !.status = "SUCCEEDED"]]
    BY <1>5 DEF PayRenewal, TypeInv, AttemptsOK
  <2>11. /\ attempts' \in [Attempts -> AttemptType]
         /\ \A b \in Attempts : b # a => attempts'[b] = attempts[b]
         /\ attempts'[a].number = attempts[a].number /\ attempts'[a].order = attempts[a].order
         /\ attempts'[a].sub = attempts[a].sub /\ attempts'[a].status = "SUCCEEDED"
    BY <2>1, <2>9, <2>10 DEF TypeInv, AttemptsOK
  <2>12. AttemptsOK'
    <3>1. \A b \in Attempts : attempts'[b].number = attempts[b].number
      BY <2>11
    <3>2. PICK bound \in Nat : \A b \in Attempts : attempts[b].number <= bound
      BY DEF TypeInv, AttemptsOK
    <3>3. \E n \in Nat : \A b \in Attempts : attempts'[b].number <= n
      BY <3>1, <3>2
    <3>4. \A b \in Attempts :
             /\ (attempts'[b].order = None) = (attempts'[b].status \in {"none", "PROCESSING", "FAILED"})
             /\ attempts'[b].status # "none" => attempts'[b].sub \in Subs
      BY <2>2, <2>3, <2>11 DEF TypeInv, AttemptsOK
    <3>. QED
      BY <2>11, <3>3, <3>4 DEF AttemptsOK
  <2>13. JobsOK'
    BY <1>2, <2>2, <2>11, JobsStay DEF TypeInv
  <2>14. coupon' = coupon
    BY <1>5 DEF PayRenewal
  <2>. QED
    BY <1>2, <1>4, <2>8, <2>12, <2>13, <2>14 DEF TypeInv, UserOK
<1>6. CASE PayPurchase(o)
  <2>1. attempts' = attempts /\ coupon' \in CouponType
    BY <1>6 DEF PayPurchase, TypeInv, CouponType
  <2>2. subs' = [s \in Subs |->
          CASE s = FirstOf(UnusedSubs) ->
                   [NoSub EXCEPT !.status = "ACTIVE", !.end = now + Period, !.order = o]
            [] subs[s].status \in Running -> [subs[s] EXCEPT !.status = "CANCELLED"]
            [] OTHER -> subs[s]]
    BY <1>6 DEF PayPurchase
  <2>3. [NoSub EXCEPT !.status = "ACTIVE", !.end = now + Period, !.order = o] \in SubType
    <3>1. now + Period \in Nat
      BY <1>n
    <3>. QED
      BY <3>1, NoSubType DEF SubType, Live, Running
  <2>4. \A s \in Subs : subs[s] \in SubType /\ [subs[s] EXCEPT !.status = "CANCELLED"] \in SubType
    BY DEF TypeInv, SubsOK, SubType
  <2>5. SubsOK'
    BY <2>2, <2>3, <2>4 DEF SubsOK
  <2>6. AttemptsOK' /\ JobsOK'
    BY <1>2, <2>1 DEF TypeInv, AttemptsOK, JobsOK, JobOK
  <2>. QED
    BY <1>2, <1>4, <2>1, <2>5, <2>6 DEF TypeInv, UserOK
<1>. QED
  BY <1>1, <1>5, <1>6

\* Settling writes only subscriptions.
LEMMA SettledSubs ==
    ASSUME TypeInv, subs' = [s \in Subs |-> Settle(subs[s])]
    PROVE  SubsOK'
<1>1. \A s \in Subs : Settle(subs[s]) \in SubType
  BY NowType, SettleType DEF TypeInv, SubsOK
<1>. QED
  BY <1>1 DEF SubsOK

LEMMA TroubleType == troubles \in 0..MaxTroubles /\ Trouble => troubles' \in 0..MaxTroubles
BY BoundsAssumption DEF Trouble

LEMMA UserRequestsType ==
    ASSUME TypeInv, View \/ Ask \/ Cancel \/ ConfigureRenewal \/ Terminate
    PROVE  TypeInv'
<1>n. now \in Nat /\ subs \in [Subs -> SubType]
  BY NowType DEF TypeInv, SubsOK
<1>1. CASE View
  <2>1. SubsOK' /\ UNCHANGED <<now, orders, attempts, coupon, user, job, troubles>>
    BY <1>1, SettledSubs DEF View
  <2>. QED
    BY <2>1 DEF TypeInv, AttemptsOK, UserOK, JobsOK, JobOK
<1>2. CASE Ask
  <2>1. /\ SubsOK' /\ troubles' \in 0..MaxTroubles
        /\ UNCHANGED <<now, orders, attempts, coupon, job>>
    BY <1>2, SettledSubs, TroubleType DEF Ask, TypeInv
  <2>2. PICK s \in Current :
           user' = [sub |-> s, trial |-> Settle(subs[s]).status = "TRIALING", end |-> subs[s].end]
    BY <1>2, LastCurrent DEF Ask
  <2>3. s \in Subs /\ subs[s].end \in Nat
    BY <1>n DEF Current, SubType
  <2>4. UserOK'
    <3>1. (Settle(subs[s]).status = "TRIALING") \in BOOLEAN
      OBVIOUS
    <3>. QED
      BY <2>2, <2>3, <3>1 DEF UserOK, UserType
  <2>. QED
    BY <2>1, <2>4 DEF TypeInv, AttemptsOK, JobsOK, JobOK
<1>3. ASSUME NEW row, Write(row),
             subs[user.sub] \in SubType => row \in SubType
      PROVE  TypeInv'
  <2>1. /\ subs' = [subs EXCEPT ![user.sub] = row] /\ user' = NoRequest
        /\ UNCHANGED <<now, orders, attempts, coupon, job, troubles>>
    BY <1>3 DEF Write
  <2>2. SubsOK'
    BY <2>1, <1>3, <1>n, SubWritten DEF TypeInv
  <2>3. UserOK'
    BY <2>1 DEF UserOK, UserType, NoRequest
  <2>. QED
    BY <2>1, <2>2, <2>3 DEF TypeInv, AttemptsOK, JobsOK, JobOK
<1>4. CASE Cancel
  <2>. DEFINE row == IF user.trial
          THEN [subs[user.sub] EXCEPT !.status = "CANCELLED", !.auto = FALSE, !.next = Never]
          ELSE [subs[user.sub] EXCEPT !.atEnd = TRUE, !.auto = FALSE, !.next = Never]
  <2>1. Write(row)
    BY <1>4 DEF Cancel
  <2>2. subs[user.sub] \in SubType => row \in SubType
    BY NeverType DEF SubType
  <2>. HIDE DEF row
  <2>. QED
    BY <1>3, <2>1, <2>2
<1>5. CASE ConfigureRenewal
  <2>1. PICK enabled \in BOOLEAN :
           Write([subs[user.sub] EXCEPT !.auto = enabled, !.atEnd = FALSE,
                    !.next = IF enabled THEN ReminderAt(user.end) ELSE Never])
    BY <1>5 DEF ConfigureRenewal
  <2>. DEFINE row == [subs[user.sub] EXCEPT !.auto = enabled, !.atEnd = FALSE,
                        !.next = IF enabled THEN ReminderAt(user.end) ELSE Never]
  <2>2. user.end \in Nat
    BY DEF TypeInv, UserOK, UserType
  <2>3. PICK next \in Nat : next = IF enabled THEN ReminderAt(user.end) ELSE Never
    BY <1>n, <2>2, ReminderType, NeverType
  <2>4. subs[user.sub] \in SubType => row \in SubType
    <3>1. row = [subs[user.sub] EXCEPT !.auto = enabled, !.atEnd = FALSE, !.next = next]
      BY <2>3
    <3>. HIDE DEF row
    <3>. QED
      BY <3>1 DEF SubType
  <2>5. Write(row)
    BY <2>1
  <2>. HIDE DEF row
  <2>. QED
    BY <1>3, <2>4, <2>5
<1>6. CASE Terminate
  <2>1. PICK s \in Subs : subs' = [subs EXCEPT ![s].status = "CANCELLED"]
    BY <1>6 DEF Terminate
  <2>2. subs' = [subs EXCEPT ![s] = [subs[s] EXCEPT !.status = "CANCELLED"]]
    BY <2>1, <1>n
  <2>3. [subs[s] EXCEPT !.status = "CANCELLED"] \in SubType
    BY <1>n DEF SubType
  <2>4. SubsOK'
    BY <2>2, <2>3, SubWritten DEF TypeInv
  <2>5. troubles' \in 0..MaxTroubles /\ UNCHANGED <<now, orders, attempts, coupon, user, job>>
    BY <1>6, TroubleType DEF Terminate, TypeInv
  <2>. QED
    BY <2>4, <2>5 DEF TypeInv, AttemptsOK, UserOK, JobsOK, JobOK
<1>. QED
  BY <1>1, <1>2, <1>4, <1>5, <1>6

\* What the rows of the jobs hold.
LEMMA JobRow ==
    ASSUME JobsOK, NEW j \in Jobs
    PROVE  /\ job[j] \in JobType /\ job \in [Jobs -> JobType]
           /\ job[j].todo \in SUBSET Subs /\ job[j].number \in Nat /\ job[j].end \in Nat
           /\ job[j].pc \notin {"idle", "next"} => job[j].sub \in Subs
           /\ job[j].pc \in Begun => /\ job[j].attempt \in Attempts
                                     /\ attempts[job[j].attempt].status = "PROCESSING"
           /\ job[j].pc = "link" => job[j].order \in Orders
BY DEF JobsOK, JobOK, JobType

\* The job goes on with the rest of its subscriptions.
LEMMA NextSubOK ==
    ASSUME JobsOK, NEW j \in Jobs, NextSub(j),
           \A a \in Attempts : attempts[a].status = "PROCESSING" =>
              \/ attempts'[a] = attempts[a]
              \/ job[j].pc \in Begun /\ job[j].attempt = a
    PROVE  JobsOK'
<1>. DEFINE row == [Idle EXCEPT !.pc = "next", !.todo = job[j].todo]
<1>1. row \in JobType /\ row.pc = "next"
  BY IdleType, JobRow DEF JobType
<1>2. job' = [job EXCEPT ![j] = row]
  BY DEF NextSub
<1>. HIDE DEF row
<1>. QED
  BY <1>1, <1>2, JobDropsAttempt DEF Begun

LEMMA RetryType ==
    ASSUME TypeInv, StartPass \/ RetryAttempt \/ Enable
    PROVE  TypeInv'
<1>n. now \in Nat /\ subs \in [Subs -> SubType] /\ JobsOK
  BY NowType DEF TypeInv, SubsOK
<1>j. "scan" \in Jobs /\ "retry" \in Jobs
  BY DEF Jobs
<1>1. CASE StartPass
  <2>. DEFINE row == [Idle EXCEPT !.pc = "next", !.todo = Due]
  <2>1. Due \in SUBSET Subs
    BY DEF Due
  <2>2. row \in JobType /\ row.pc = "next"
    BY <2>1, IdleType DEF JobType
  <2>3. job' = [job EXCEPT !["scan"] = row] /\ UNCHANGED <<now, subs, orders, attempts, coupon, user, troubles>>
    BY <1>1 DEF StartPass
  <2>. HIDE DEF row
  <2>4. JobsOK'
    BY <1>j, <1>n, <2>2, <2>3, JobDropsAttempt DEF Begun
  <2>. QED
    BY <2>3, <2>4 DEF TypeInv, SubsOK, AttemptsOK, UserOK
<1>2. CASE RetryAttempt
  <2>1. PICK a \in Attempts :
           /\ attempts[a].status \in {"FAILED", "PAYMENT_REQUIRED"}
           /\ job' = [job EXCEPT !["retry"] = [Idle EXCEPT !.pc = "enable", !.sub = attempts[a].sub]]
    BY <1>2 DEF RetryAttempt
  <2>2. attempts[a].sub \in Subs
    BY <2>1 DEF TypeInv, AttemptsOK
  <2>. DEFINE row == [Idle EXCEPT !.pc = "enable", !.sub = attempts[a].sub]
  <2>3. row \in JobType /\ row.pc = "enable" /\ row.sub \in Subs
    BY <2>2, IdleType DEF JobType
  <2>4. job' = [job EXCEPT !["retry"] = row]
    BY <2>1
  <2>. HIDE DEF row
  <2>5. /\ UNCHANGED <<now, subs, orders, attempts, coupon, user>>
        /\ troubles' \in 0..MaxTroubles
    BY <1>2, TroubleType DEF RetryAttempt, TypeInv
  <2>6. JobsOK'
    BY <1>j, <1>n, <2>3, <2>4, <2>5, JobDropsAttempt DEF Begun
  <2>. QED
    BY <2>5, <2>6 DEF TypeInv, SubsOK, AttemptsOK, UserOK
<1>3. CASE Enable
  <2>. DEFINE s   == job["retry"].sub
              row == [Idle EXCEPT !.pc = "next", !.todo = {s}]
  <2>1. s \in Subs
    BY <1>3, <1>j, <1>n, JobRow DEF Enable
  <2>2. /\ subs' = [subs EXCEPT ![s] = [subs[s] EXCEPT !.auto = TRUE, !.next = now]]
        /\ job' = [job EXCEPT !["retry"] = row]
        /\ UNCHANGED <<now, orders, attempts, coupon, user, troubles>>
    BY <1>3, <1>n, <2>1 DEF Enable
  <2>3. [subs[s] EXCEPT !.auto = TRUE, !.next = now] \in SubType
    BY <1>n, <2>1 DEF SubType
  <2>4. SubsOK'
    BY <2>2, <2>3, SubWritten DEF TypeInv
  <2>5. row \in JobType /\ row.pc = "next"
    BY <2>1, IdleType DEF JobType
  <2>. HIDE DEF row
  <2>6. JobsOK'
    BY <1>j, <1>n, <2>2, <2>5, JobDropsAttempt DEF Begun
  <2>. QED
    BY <2>2, <2>4, <2>6 DEF TypeInv, AttemptsOK, UserOK
<1>. QED
  BY <1>1, <1>2, <1>3

LEMMA CommonBound == \A m, k \in Nat : \E n \in Nat : m <= n /\ k <= n
<1>1. \A m, k \in Nat : m + k \in Nat /\ m <= m + k /\ k <= m + k
  OBVIOUS
<1>. QED
  BY <1>1

LEMMA BoundsCompose == \A m, k, n \in Nat : m <= k /\ k <= n => m <= n
OBVIOUS

LEMMA InsertAttemptType ==
    ASSUME TypeInv, NEW j \in Jobs, InsertAttempt(j)
    PROVE  TypeInv'
<1>. USE DEF TypeInv
<1>1. /\ job[j].pc = "insert" /\ JobsOK /\ UNCHANGED <<now, subs, orders, coupon, user, troubles>>
      /\ job[j] \in JobType /\ job[j].sub \in Subs /\ job[j].number \in Nat /\ job[j].end \in Nat
  BY JobRow DEF InsertAttempt
<1>2. CASE SameKey(j) # {}
  <2>1. NextSub(j) /\ attempts' = attempts
    BY <1>2 DEF InsertAttempt
  <2>2. JobsOK'
    BY <1>1, <2>1, NextSubOK
  <2>. QED
    BY <1>1, <2>1, <2>2 DEF SubsOK, AttemptsOK, UserOK
<1>3. CASE SameKey(j) = {}
  <2>. DEFINE a   == FirstOf(UnusedAttempts)
              new == [status |-> "PROCESSING", sub |-> job[j].sub, number |-> job[j].number,
                      end |-> job[j].end, order |-> None]
  <2>1. a \in Attempts /\ attempts[a].status = "none"
    BY <1>3, FirstRows DEF InsertAttempt, UnusedAttempts
  <2>2. PICK label \in {"order", "no channel"} :
           /\ attempts' = [attempts EXCEPT ![a] = new]
           /\ job' = [job EXCEPT ![j] = [job[j] EXCEPT !.pc = label, !.attempt = a, !.number = 0]]
    BY <1>1, <1>3 DEF InsertAttempt, JobsOK
  <2>3. new \in AttemptType /\ new.order = None /\ new.status = "PROCESSING" /\ new.sub \in Subs
        /\ new.number \in Nat
    BY <1>1 DEF AttemptType
  <2>. HIDE DEF a, new
  <2>4. /\ attempts' \in [Attempts -> AttemptType] /\ attempts'[a] = new
        /\ \A b \in Attempts : b # a => attempts'[b] = attempts[b]
    BY <2>1, <2>2, <2>3 DEF AttemptsOK
  <2>5. AttemptsOK'
    <3>1. PICK bound \in Nat : \A b \in Attempts : attempts[b].number <= bound
      BY DEF AttemptsOK
    <3>2. PICK n \in Nat : bound <= n /\ new.number <= n
      <4>. HIDE DEF new
      <4>1. PICK m \in Nat : m = new.number
        BY <2>3
      <4>. QED
        BY <4>1, CommonBound
    <3>3. \A b \in Attempts : attempts[b].number \in Nat
      BY DEF AttemptsOK, AttemptType
    <3>4. \A b \in Attempts : attempts'[b].number <= n
      <4>1. TAKE b \in Attempts
      <4>2. CASE b = a
        BY <2>4, <3>2, <4>2
      <4>3. CASE b # a
        <5>1. attempts'[b].number = attempts[b].number
          BY <2>4, <4>3
        <5>. QED
          BY <3>1, <3>2, <3>3, <5>1, BoundsCompose
      <4>. QED
        BY <4>2, <4>3
    <3>. QED
      BY <2>3, <2>4, <3>4 DEF AttemptsOK
  <2>6. /\ [job[j] EXCEPT !.pc = label, !.attempt = a, !.number = 0] \in JobType
        /\ [job[j] EXCEPT !.pc = label, !.attempt = a, !.number = 0].pc = label
        /\ [job[j] EXCEPT !.pc = label, !.attempt = a, !.number = 0].attempt = a
        /\ [job[j] EXCEPT !.pc = label, !.attempt = a, !.number = 0].sub = job[j].sub
    BY <1>1, <2>1 DEF JobType
  <2>7. /\ job' \in [Jobs -> JobType] /\ \A k \in Jobs : k # j => job'[k] = job[k]
        /\ job'[j].pc = label /\ job'[j].attempt = a /\ job'[j].sub = job[j].sub
    BY <2>2, <2>6 DEF JobsOK
  <2>8. \A k \in Jobs : k # j => /\ JobOK(k)'
                                 /\ job[k].pc \in Begun => job[k].attempt # a
    <3>1. SUFFICES ASSUME NEW k \in Jobs, k # j
                   PROVE  JobOK(k)' /\ (job[k].pc \in Begun => job[k].attempt # a)
      OBVIOUS
    <3>2. job'[k] = job[k] /\ JobOK(k)
      BY <2>7, <3>1 DEF JobsOK
    <3>3. job[k].pc \in Begun =>
             job[k].attempt # a /\ attempts'[job[k].attempt] = attempts[job[k].attempt]
      BY <2>1, <2>4, <3>2 DEF JobOK
    <3>. QED
      BY <3>2, <3>3 DEF JobOK
  <2>9. JobOK(j)'
    BY <1>1, <2>1, <2>3, <2>4, <2>7 DEF JobOK, Begun
  <2>10. JobsOK'
    BY <2>7, <2>8, <2>9 DEF JobsOK
  <2>. QED
    BY <1>1, <2>5, <2>10 DEF SubsOK, UserOK
<1>. QED
  BY <1>2, <1>3

\* The attempt of a job is ended.
LEMMA AttemptEnded ==
    ASSUME AttemptsOK, NEW a \in Attempts, attempts[a].status = "PROCESSING",
           NEW status \in {"FAILED", "PAYMENT_REQUIRED"}, NEW order \in Orders \cup {None},
           (order = None) = (status = "FAILED"),
           attempts' = [attempts EXCEPT ![a] = [@ EXCEPT !.status = status, !.order = order]]
    PROVE  AttemptsOK' /\ \A b \in Attempts : b # a => attempts'[b] = attempts[b]
<1>1. attempts[a] \in AttemptType /\ attempts \in [Attempts -> AttemptType] /\ attempts[a].sub \in Subs
  BY DEF AttemptsOK
<1>. DEFINE row == [attempts[a] EXCEPT !.status = status, !.order = order]
<1>2. row \in AttemptType /\ row.status = status /\ row.order = order
      /\ row.number = attempts[a].number /\ row.sub = attempts[a].sub
  BY <1>1 DEF AttemptType
<1>3. attempts' = [attempts EXCEPT ![a] = row]
  BY <1>1
<1>. HIDE DEF row
<1>4. /\ attempts' \in [Attempts -> AttemptType] /\ attempts'[a] = row
      /\ \A b \in Attempts : b # a => attempts'[b] = attempts[b]
  BY <1>1, <1>2, <1>3
<1>5. \A b \in Attempts :
         /\ (attempts'[b].order = None) = (attempts'[b].status \in {"none", "PROCESSING", "FAILED"})
         /\ attempts'[b].status # "none" => attempts'[b].sub \in Subs
         /\ attempts'[b].number = attempts[b].number
  BY <1>1, <1>2, <1>4 DEF AttemptsOK
<1>6. PICK bound \in Nat : \A b \in Attempts : attempts[b].number <= bound
  BY DEF AttemptsOK
<1>7. \E n \in Nat : \A b \in Attempts : attempts'[b].number <= n
  BY <1>5, <1>6
<1>. QED
  BY <1>4, <1>5, <1>7 DEF AttemptsOK

LEMMA RenewType ==
    ASSUME TypeInv, NEW j \in Jobs, Renew(j)
    PROVE  TypeInv'
<1>. USE DEF TypeInv
<1>n. now \in Nat /\ subs \in [Subs -> SubType] /\ JobsOK
  BY NowType DEF SubsOK
<1>j. /\ job[j] \in JobType /\ job \in [Jobs -> JobType]
      /\ job[j].todo \in SUBSET Subs /\ job[j].number \in Nat /\ job[j].end \in Nat
      /\ job[j].pc \notin {"idle", "next"} => job[j].sub \in Subs
      /\ job[j].pc \in Begun => /\ job[j].attempt \in Attempts
                                /\ attempts[job[j].attempt].status = "PROCESSING"
      /\ job[j].pc = "link" => job[j].order \in Orders
  BY <1>n, JobRow
<1>1. CASE ReadSub(j)
  <2>0. job[j].pc = "next" /\ UNCHANGED <<now, subs, orders, attempts, coupon, user, troubles>>
    BY <1>1 DEF ReadSub
  <2>1. PICK s \in job[j].todo :
           LET rest == job[j].todo \ {s} IN
           IF Wanted(s)
           THEN job' = [job EXCEPT ![j] = [Idle EXCEPT !.pc = "insert", !.todo = rest, !.sub = s,
                           !.number = LastOf(Numbers(s)) + 1, !.end = subs[s].end]]
           ELSE job' = [job EXCEPT ![j].todo = rest]
    BY <1>1 DEF ReadSub
  <2>. DEFINE rest == job[j].todo \ {s}
  <2>2. s \in Subs /\ rest \in SUBSET Subs /\ subs[s].end \in Nat
    BY <1>j, <1>n DEF SubType
  <2>3. LastOf(Numbers(s)) + 1 \in Nat
    <3>1. LastOf(Numbers(s)) \in Nat
      BY NumbersHaveLast
    <3>. QED
      BY <3>1
  <2>4. CASE Wanted(s)
    <3>1. PICK number \in Nat, end \in Nat : number = LastOf(Numbers(s)) + 1 /\ end = subs[s].end
      BY <2>2, <2>3
    <3>. DEFINE row == [Idle EXCEPT !.pc = "insert", !.todo = rest, !.sub = s, !.number = number,
                                    !.end = end]
    <3>2. job' = [job EXCEPT ![j] = row]
      BY <2>1, <2>4, <3>1
    <3>3. row \in JobType /\ row.pc = "insert" /\ row.sub = s
      BY <2>2, IdleType DEF JobType
    <3>. HIDE DEF row
    <3>4. JobsOK'
      BY <1>n, <2>0, <2>2, <3>2, <3>3, JobDropsAttempt DEF Begun
    <3>. QED
      BY <2>0, <3>4 DEF SubsOK, AttemptsOK, UserOK
  <2>5. CASE ~Wanted(s)
    <3>. DEFINE row == [job[j] EXCEPT !.todo = rest]
    <3>1. job' = [job EXCEPT ![j] = row]
      BY <1>j, <2>1, <2>5
    <3>2. row \in JobType /\ row.pc = "next"
      BY <1>j, <2>0, <2>2 DEF JobType
    <3>. HIDE DEF row
    <3>3. JobsOK'
      BY <1>n, <2>0, <3>1, <3>2, JobDropsAttempt DEF Begun
    <3>. QED
      BY <2>0, <3>3 DEF SubsOK, AttemptsOK, UserOK
  <2>. QED
    BY <2>4, <2>5
<1>2. CASE InsertAttempt(j)
  BY <1>2, InsertAttemptType
<1>3. CASE NoChannel(j)
  <2>0. job[j].pc = "no channel" /\ UNCHANGED <<now, orders, attempts, coupon, user, troubles>>
    BY <1>3 DEF NoChannel
  <2>1. job[j].sub \in Subs
    BY <1>j, <2>0
  <2>2. /\ subs' = [subs EXCEPT ![job[j].sub] = [subs[job[j].sub] EXCEPT !.next = Never]]
        /\ job' = [job EXCEPT ![j] = [job[j] EXCEPT !.pc = "fail"]]
    BY <1>3, <1>n, <1>j, <2>1 DEF NoChannel, Goto
  <2>3. [subs[job[j].sub] EXCEPT !.next = Never] \in SubType
    BY <1>n, <2>1, NeverType DEF SubType
  <2>4. SubsOK'
    BY <2>2, <2>3, SubWritten
  <2>. DEFINE row == [job[j] EXCEPT !.pc = "fail"]
  <2>5. row \in JobType /\ row.pc = "fail" /\ row.attempt = job[j].attempt /\ row.sub = job[j].sub
    BY <1>j DEF JobType
  <2>6. job' = [job EXCEPT ![j] = row]
    BY <2>2
  <2>. HIDE DEF row
  <2>7. JobsOK'
    BY <1>n, <2>0, <2>5, <2>6, JobKeepsAttempt DEF Begun
  <2>. QED
    BY <2>0, <2>4, <2>7 DEF AttemptsOK, UserOK
<1>4. CASE FailAttempt(j)
  <2>0. job[j].pc = "fail" /\ NextSub(j) /\ UNCHANGED <<now, subs, orders, coupon, user, troubles>>
    BY <1>4 DEF FailAttempt
  <2>. DEFINE a == job[j].attempt
  <2>1. a \in Attempts /\ attempts[a].status = "PROCESSING" /\ attempts[a].order = None
        /\ attempts[a] \in AttemptType
    BY <1>j, <2>0 DEF Begun, AttemptsOK
  <2>2. attempts' = [attempts EXCEPT ![a] = [@ EXCEPT !.status = "FAILED", !.order = None]]
    <3>1. [attempts[a] EXCEPT !.status = "FAILED"] =
             [attempts[a] EXCEPT !.status = "FAILED", !.order = None]
      BY <2>1 DEF AttemptType
    <3>2. attempts' = [attempts EXCEPT ![a] = [attempts[a] EXCEPT !.status = "FAILED"]]
      BY <1>4 DEF FailAttempt, AttemptsOK
    <3>. QED
      BY <3>1, <3>2 DEF AttemptsOK
  <2>. HIDE DEF a
  <2>3. AttemptsOK' /\ \A b \in Attempts : b # a => attempts'[b] = attempts[b]
    BY <2>1, <2>2, AttemptEnded
  <2>4. JobsOK'
    BY <1>n, <2>0, <2>3, NextSubOK DEF Begun, a
  <2>. QED
    BY <2>0, <2>3, <2>4 DEF SubsOK, UserOK
<1>5. CASE InsertOrder(j)
  <2>0. job[j].pc = "order" /\ UNCHANGED <<now, subs, attempts, coupon, user, troubles>>
    BY <1>5 DEF InsertOrder
  <2>1. PICK o \in Orders :
           /\ orders' = [orders EXCEPT ![o] = [status |-> "PENDING", coupon |-> FALSE]]
           /\ job' = [job EXCEPT ![j] = [job[j] EXCEPT !.pc = "link", !.order = o]]
    BY <1>5, <1>j, FirstRows DEF InsertOrder, UnusedOrders
  <2>2. orders' \in [Orders -> OrderType]
    BY <2>1 DEF OrderType
  <2>. DEFINE row == [job[j] EXCEPT !.pc = "link", !.order = o]
  <2>3. row \in JobType /\ row.pc = "link" /\ row.attempt = job[j].attempt /\ row.sub = job[j].sub
        /\ row.order = o
    BY <1>j DEF JobType
  <2>4. job' = [job EXCEPT ![j] = row]
    BY <2>1
  <2>. HIDE DEF row
  <2>5. JobsOK'
    BY <1>n, <2>0, <2>3, <2>4, JobKeepsAttempt DEF Begun
  <2>. QED
    BY <2>0, <2>2, <2>5 DEF SubsOK, AttemptsOK, UserOK
<1>6. CASE LinkOrder(j)
  <2>0. job[j].pc = "link" /\ UNCHANGED <<now, subs, orders, coupon, user, troubles>>
    BY <1>6 DEF LinkOrder
  <2>. DEFINE a == job[j].attempt
  <2>1. /\ a \in Attempts /\ attempts[a].status = "PROCESSING"
        /\ job[j].order \in Orders /\ job[j].order # None /\ job[j].sub \in Subs
    BY <1>j, <2>0, NoneIsNoRow DEF Begun
  <2>2. attempts' = [attempts EXCEPT ![a] =
                       [@ EXCEPT !.status = "PAYMENT_REQUIRED", !.order = job[j].order]]
    BY <1>6 DEF LinkOrder
  <2>3. AttemptsOK' /\ \A b \in Attempts : b # a => attempts'[b] = attempts[b]
    <3>1. PICK o \in Orders : o = job[j].order
      BY <2>1
    <3>. HIDE DEF a
    <3>2. attempts' = [attempts EXCEPT ![a] = [@ EXCEPT !.status = "PAYMENT_REQUIRED", !.order = o]]
      BY <2>2, <3>1
    <3>. QED
      BY <2>1, <3>1, <3>2, AttemptEnded
  <2>. DEFINE row == [job[j] EXCEPT !.pc = "postpone"]
  <2>4. row \in JobType /\ row.pc = "postpone" /\ row.sub = job[j].sub
    BY <1>j DEF JobType
  <2>5. job' = [job EXCEPT ![j] = row]
    BY <1>6, <1>j DEF LinkOrder, Goto
  <2>. HIDE DEF row
  <2>6. JobsOK'
    BY <1>n, <2>0, <2>1, <2>3, <2>4, <2>5, JobDropsAttempt DEF Begun
  <2>. QED
    BY <2>0, <2>3, <2>6 DEF SubsOK, UserOK
<1>7. CASE Postpone(j)
  <2>0. job[j].pc = "postpone" /\ NextSub(j) /\ UNCHANGED <<now, orders, attempts, coupon, user, troubles>>
    BY <1>7 DEF Postpone
  <2>. DEFINE s == job[j].sub
  <2>1. s \in Subs /\ now + Grace \in Nat
    BY <1>j, <1>n, <2>0, BoundsAssumption
  <2>2. \/ subs' = [subs EXCEPT ![s] = [subs[s] EXCEPT !.next = Never, !.status = "PAST_DUE",
                                                       !.grace = now + Grace]]
        \/ subs' = [subs EXCEPT ![s] = [subs[s] EXCEPT !.next = Never]]
    BY <1>7, <1>n, <2>1 DEF Postpone
  <2>3. PICK grace \in Nat : grace = now + Grace
    BY <2>1
  <2>4. /\ [subs[s] EXCEPT !.next = Never, !.status = "PAST_DUE", !.grace = grace] \in SubType
        /\ [subs[s] EXCEPT !.next = Never] \in SubType
    BY <1>n, <2>1, NeverType DEF SubType, Live
  <2>5. SubsOK'
    BY <2>2, <2>3, <2>4, SubWritten
  <2>6. JobsOK'
    BY <1>n, <2>0, NextSubOK
  <2>. QED
    BY <2>0, <2>5, <2>6 DEF AttemptsOK, UserOK
<1>8. CASE ExpireGrace(j)
  <2>1. /\ job' = [job EXCEPT ![j] = Idle]
        /\ UNCHANGED <<now, orders, attempts, coupon, user, troubles>>
        /\ subs' = [s \in Subs |->
              IF j = "scan" /\ subs[s].status = "PAST_DUE" /\ subs[s].grace < now
              THEN [subs[s] EXCEPT !.status = "EXPIRED", !.auto = FALSE, !.next = Never] ELSE subs[s]]
    BY <1>8 DEF ExpireGrace
  <2>2. \A s \in Subs :
           /\ subs[s] \in SubType
           /\ [subs[s] EXCEPT !.status = "EXPIRED", !.auto = FALSE, !.next = Never] \in SubType
    BY <1>n, NeverType DEF SubType
  <2>3. SubsOK'
    BY <2>1, <2>2 DEF SubsOK
  <2>4. JobsOK'
    BY <1>n, <2>1, IdleType, JobDropsAttempt DEF Begun
  <2>. QED
    BY <2>1, <2>3, <2>4 DEF AttemptsOK, UserOK
<1>. QED
  BY <1>1, <1>2, <1>3, <1>4, <1>5, <1>6, <1>7, <1>8 DEF Renew

LEMMA DiesType ==
    ASSUME TypeInv, NEW j \in Jobs, Dies(j)
    PROVE  TypeInv'
<1>1. /\ job' = [job EXCEPT ![j] = Idle] /\ UNCHANGED <<now, subs, orders, attempts, coupon, user>>
      /\ troubles' \in 0..MaxTroubles
  BY TroubleType DEF Dies, TypeInv
<1>2. JobsOK'
  BY <1>1, IdleType, JobDropsAttempt DEF TypeInv, Begun
<1>. QED
  BY <1>1, <1>2 DEF TypeInv, SubsOK, AttemptsOK, UserOK

LEMMA NextType == TypeInv /\ [Next]_vars => TypeInv'
<1>. SUFFICES ASSUME TypeInv, [Next]_vars PROVE TypeInv'
  OBVIOUS
<1>j. "scan" \in Jobs /\ "retry" \in Jobs
  BY DEF Jobs
<1>1. CASE Tick
  <2>1. now' \in 0..MaxTime
    BY <1>1, BoundsAssumption DEF Tick, TypeInv
  <2>. QED
    BY <1>1, <2>1 DEF Tick, TypeInv, SubsOK, AttemptsOK, UserOK, JobsOK, JobOK
<1>2. CASE CreateOrder \/ ExpireCoupon \/ CancelOrder \/ MarkPaid
  BY <1>2, CreateOrderType, ExpireCouponType, CancelOrderType, MarkPaidType
<1>3. CASE View \/ Ask \/ Cancel \/ ConfigureRenewal \/ Terminate
  BY <1>3, UserRequestsType
<1>4. CASE ScanStep \/ RetryAttempt \/ Enable \/ Renew("retry")
  BY <1>4, <1>j, RetryType, RenewType DEF ScanStep
<1>5. CASE \E j \in Jobs : Dies(j)
  BY <1>5, DiesType
<1>6. CASE UNCHANGED vars
  BY <1>6 DEF vars, TypeInv, SubsOK, AttemptsOK, UserOK, JobsOK, JobOK
<1>. QED
  BY <1>1, <1>2, <1>3, <1>4, <1>5, <1>6 DEF Next

\* Every row and every local variable keeps the shape of its schema, and an
\* attempt names its order exactly when it waits for the payment, got it or was
\* cancelled: whichever of the two jobs began it, nobody else ends it before.
THEOREM TypeCorrect == Spec => []TypeOK
<1>1. TypeInv => TypeOK
  BY DEF TypeInv, SubsOK, AttemptsOK, UserOK, JobsOK, TypeOK, SubType, OrderType, AttemptType,
         CouponType, UserType, JobType
<1>. QED
  BY <1>1, InitType, NextType, PTL DEF Spec

-----------------------------------------------------------------------------
(***************************************************************************)
(* The coupon.                                                             *)
(***************************************************************************)
\* A step that writes no order and not the coupon, and links only plain orders.
LEMMA OrdersKept ==
    ASSUME CouponInv, UNCHANGED <<orders, coupon>>,
           \A a \in Attempts : attempts'[a].order # None => Plain(attempts'[a].order),
           \A j \in Jobs : job'[j].pc = "link" => Plain(job'[j].order)
    PROVE  CouponInv'
<1>1. \A o : Plain(o)' = Plain(o) /\ Uses(o)' = Uses(o)
  BY DEF Plain, Uses
<1>2. \A a \in Attempts : attempts'[a].order # None => Plain(attempts[a].order)'
  BY DEF Plain
<1>3. \A j \in Jobs : job'[j].pc = "link" => Plain(job[j].order)'
  BY DEF Plain
<1>4. \A o \in Orders : Uses(o)' =>
         /\ coupon'.order = o
         /\ coupon'.status = IF orders'[o].status = "PENDING" THEN "LOCKED" ELSE "REDEEMED"
  BY DEF CouponInv, Uses
<1>. QED
  BY <1>2, <1>3, <1>4 DEF CouponInv

\* Neither does it link any.
LEMMA NothingLinked ==
    ASSUME CouponInv, UNCHANGED <<orders, coupon>>,
           \A a \in Attempts : attempts'[a].order \in {None, attempts[a].order},
           \A j \in Jobs : job'[j].pc = "link" => job'[j] = job[j]
    PROVE  CouponInv'
<1>1. \A a \in Attempts : attempts'[a].order # None => Plain(attempts'[a].order)
  BY DEF CouponInv
<1>2. \A j \in Jobs : job'[j].pc = "link" => Plain(job'[j].order)
  BY DEF CouponInv
<1>. QED
  BY <1>1, <1>2, OrdersKept

\* A step that writes one order, which no renewal has unless it stays plain.
LEMMA OrderWritten ==
    ASSUME TypeInv, CouponInv, UNCHANGED job, NEW o \in Orders,
           \A p \in Orders : p # o => orders'[p] = orders[p],
           Plain(o) => orders'[o].status # "none" /\ ~orders'[o].coupon,
           \A a \in Attempts : attempts'[a].order = attempts[a].order
    PROVE  /\ \A a \in Attempts : attempts'[a].order # None => Plain(attempts[a].order)'
           /\ \A j \in Jobs : job'[j].pc = "link" => Plain(job[j].order)'
<1>1. ASSUME NEW p \in Orders, Plain(p) PROVE orders'[p].status # "none" /\ ~orders'[p].coupon
  BY <1>1 DEF Plain
<1>2. ASSUME NEW a \in Attempts, attempts'[a].order # None PROVE Plain(attempts[a].order)'
  <2>1. attempts[a].order \in Orders /\ Plain(attempts[a].order)
    BY <1>2 DEF CouponInv, TypeInv, AttemptsOK, AttemptType
  <2>. QED
    BY <1>1, <2>1 DEF Plain
<1>3. ASSUME NEW j \in Jobs, job'[j].pc = "link" PROVE Plain(job[j].order)'
  <2>1. job[j].order \in Orders /\ Plain(job[j].order)
    BY <1>3 DEF CouponInv, TypeInv, JobsOK, JobOK
  <2>. QED
    BY <1>1, <2>1 DEF Plain
<1>. QED
  BY <1>2, <1>3

LEMMA InitCoupon == Init => CouponInv
<1>. SUFFICES ASSUME Init PROVE CouponInv
  OBVIOUS
<1>1. \A a \in Attempts : attempts[a].order = None
  BY DEF Init, NoAttempt
<1>2. \A j \in Jobs : job[j].pc # "link"
  BY IdleType DEF Init
<1>3. \A o \in Orders : ~Uses(o)
  BY DEF Init, NoOrder, Uses
<1>. QED
  BY <1>1, <1>2, <1>3 DEF CouponInv

\* The new order takes a coupon that no order uses.
LEMMA CreateOrderCoupon == TypeInv /\ CouponInv /\ CreateOrder => CouponInv'
<1>. SUFFICES ASSUME TypeInv, CouponInv, CreateOrder PROVE CouponInv'
  OBVIOUS
<1>1. PICK withCoupon \in BOOLEAN, o \in Orders :
         /\ orders[o].status = "none"
         /\ withCoupon => coupon.status = "AVAILABLE"
         /\ orders' = [orders EXCEPT ![o] = [status |-> "PENDING", coupon |-> withCoupon]]
         /\ coupon' = IF withCoupon THEN [status |-> "LOCKED", order |-> o] ELSE coupon
  BY FirstRows DEF CreateOrder, UnusedOrders
<1>2. UNCHANGED <<attempts, job>>
  BY DEF CreateOrder
<1>3. /\ orders'[o] = [status |-> "PENDING", coupon |-> withCoupon]
      /\ \A p \in Orders : p # o => orders'[p] = orders[p]
  BY <1>1 DEF TypeInv
<1>4. ~Plain(o)
  BY <1>1 DEF Plain
<1>5. /\ \A a \in Attempts : attempts'[a].order # None => Plain(attempts[a].order)'
      /\ \A j \in Jobs : job'[j].pc = "link" => Plain(job[j].order)'
  BY <1>2, <1>3, <1>4, OrderWritten
<1>6. ASSUME NEW p \in Orders, Uses(p)'
      PROVE  /\ coupon'.order = p
             /\ coupon'.status = IF orders'[p].status = "PENDING" THEN "LOCKED" ELSE "REDEEMED"
  <2>1. CASE p = o
    BY <1>1, <1>3, <1>6, <2>1 DEF Uses
  <2>2. CASE p # o
    <3>1. Uses(p) /\ orders'[p] = orders[p]
      BY <1>3, <1>6, <2>2 DEF Uses
    <3>2. coupon.status \in {"LOCKED", "REDEEMED"} /\ ~withCoupon
      BY <1>1, <3>1 DEF CouponInv
    <3>. QED
      BY <1>1, <3>1, <3>2 DEF CouponInv
  <2>. QED
    BY <2>1, <2>2
<1>. QED
  BY <1>5, <1>6 DEF CouponInv

LEMMA ExpireCouponCoupon == CouponInv /\ ExpireCoupon => CouponInv'
<1>. SUFFICES ASSUME CouponInv, ExpireCoupon PROVE CouponInv'
  OBVIOUS
<1>1. UNCHANGED <<orders, attempts, job>> /\ coupon.status = "AVAILABLE"
  BY DEF ExpireCoupon
<1>2. \A o \in Orders : ~Uses(o)
  BY <1>1 DEF CouponInv
<1>. QED
  BY <1>1, <1>2 DEF CouponInv, Uses, Plain

\* A cancelled order gives its own coupon back and no other.
LEMMA CancelOrderCoupon == TypeInv /\ CouponInv /\ CancelOrder => CouponInv'
<1>. SUFFICES ASSUME TypeInv, CouponInv, CancelOrder PROVE CouponInv'
  OBVIOUS
<1>1. PICK o \in Orders, own \in BOOLEAN :
         /\ IsOpen(o)
         /\ orders' = [orders EXCEPT ![o].status = "CANCELLED"]
         /\ coupon' = Released(o)
         /\ attempts' = [a \in Attempts |->
               IF own /\ attempts[a].order = o /\ attempts[a].status = "PAYMENT_REQUIRED"
               THEN [attempts[a] EXCEPT !.status = "CANCELLED"] ELSE attempts[a]]
  BY DEF CancelOrder
<1>2. job' = job
  BY DEF CancelOrder
<1>3. /\ orders'[o].status = "CANCELLED" /\ orders'[o].coupon = orders[o].coupon
      /\ \A p \in Orders : p # o => orders'[p] = orders[p]
  BY <1>1 DEF TypeInv, OrderType
<1>4. \A a \in Attempts : attempts'[a].order = attempts[a].order
  <2>1. TAKE a \in Attempts
  <2>2. attempts'[a] = attempts[a] \/ attempts'[a] = [attempts[a] EXCEPT !.status = "CANCELLED"]
    BY <1>1
  <2>3. attempts[a] \in AttemptType
    BY DEF TypeInv, AttemptsOK
  <2>. QED
    BY <2>2, <2>3 DEF AttemptType
<1>5. /\ \A a \in Attempts : attempts'[a].order # None => Plain(attempts[a].order)'
      /\ \A j \in Jobs : job'[j].pc = "link" => Plain(job[j].order)'
  BY <1>2, <1>3, <1>4, OrderWritten DEF Plain
<1>6. ASSUME NEW p \in Orders, Uses(p)'
      PROVE  /\ coupon'.order = p
             /\ coupon'.status = IF orders'[p].status = "PENDING" THEN "LOCKED" ELSE "REDEEMED"
  <2>1. p # o
    BY <1>3, <1>6 DEF Uses
  <2>2. Uses(p) /\ orders'[p] = orders[p]
    BY <1>3, <1>6, <2>1 DEF Uses
  <2>3. coupon' = coupon
    BY <1>1, <2>1, <2>2 DEF CouponInv, Released
  <2>. QED
    BY <2>2, <2>3 DEF CouponInv
<1>. QED
  BY <1>5, <1>6 DEF CouponInv

\* A paid renewal uses no coupon; a paid purchase redeems the one it locked.
LEMMA MarkPaidCoupon == TypeInv /\ CouponInv /\ MarkPaid => CouponInv'
<1>. SUFFICES ASSUME TypeInv, CouponInv, MarkPaid PROVE CouponInv'
  OBVIOUS
<1>1. PICK o \in Orders :
         /\ orders[o].status \in {"PENDING", "PAID"}
         /\ \/ \E a \in Unsettled(o) : PayRenewal(o, a)
            \/ PayPurchase(o)
  BY DEF MarkPaid
<1>2. job' = job
  BY DEF MarkPaid
<1>3. /\ orders'[o].status = "PAID" /\ orders'[o].coupon = orders[o].coupon
      /\ \A p \in Orders : p # o => orders'[p] = orders[p]
  <2>1. orders' = [orders EXCEPT ![o].status = "PAID"]
    BY <1>1 DEF PayRenewal, PayPurchase
  <2>2. orders \in [Orders -> OrderType] /\ orders[o] \in OrderType
    BY DEF TypeInv
  <2>. QED
    BY <2>1, <2>2 DEF OrderType
<1>4. \A a \in Attempts : attempts'[a].order = attempts[a].order
  <2>1. CASE PayPurchase(o)
    BY <2>1 DEF PayPurchase
  <2>2. ASSUME NEW b \in Unsettled(o), PayRenewal(o, b)
        PROVE  \A a \in Attempts : attempts'[a].order = attempts[a].order
    BY <2>2 DEF PayRenewal, TypeInv, AttemptsOK, AttemptType
  <2>. QED
    BY <1>1, <2>1, <2>2
<1>5. /\ \A a \in Attempts : attempts'[a].order # None => Plain(attempts[a].order)'
      /\ \A j \in Jobs : job'[j].pc = "link" => Plain(job[j].order)'
  BY <1>2, <1>3, <1>4, OrderWritten DEF Plain
<1>6. \A p \in Orders : p # o => Uses(p)' = Uses(p)
  BY <1>3 DEF Uses
<1>7. Uses(o)' => orders[o].coupon
  BY <1>3 DEF Uses
<1>8. orders[o].coupon => Uses(o)
  BY <1>1 DEF Uses
<1>9. CASE PayPurchase(o)
  <2>1. CASE orders[o].coupon
    <3>1. coupon' = [status |-> "REDEEMED", order |-> o] /\ coupon.order = o
      BY <1>9, <2>1 DEF PayPurchase
    <3>2. \A p \in Orders : Uses(p)' => p = o
      BY <1>6, <3>1 DEF CouponInv
    <3>. QED
      BY <1>3, <1>5, <3>1, <3>2 DEF CouponInv
  <2>2. CASE ~orders[o].coupon
    <3>1. coupon' = coupon
      BY <1>9, <2>2 DEF PayPurchase
    <3>2. \A p \in Orders : Uses(p)' => p # o /\ Uses(p)
      BY <1>6, <1>7, <2>2
    <3>. QED
      BY <1>3, <1>5, <3>1, <3>2 DEF CouponInv
  <2>. QED
    BY <2>1, <2>2
<1>10. ASSUME NEW a \in Unsettled(o), PayRenewal(o, a) PROVE CouponInv'
  <2>1. a \in Attempts /\ attempts[a].order = o /\ o # None
    BY NoneIsNoRow DEF Unsettled, AttemptsOf
  <2>2. ~orders[o].coupon
    BY <2>1 DEF CouponInv, Plain
  <2>3. coupon' = coupon
    BY <1>10 DEF PayRenewal
  <2>4. \A p \in Orders : Uses(p)' => p # o /\ Uses(p)
    BY <1>6, <1>7, <2>2
  <2>. QED
    BY <1>3, <1>5, <2>3, <2>4 DEF CouponInv
<1>. QED
  BY <1>1, <1>9, <1>10

\* A step of one job that writes no order and does not come to link one.
LEMMA JobLinksNothing ==
    ASSUME TypeInv, CouponInv, UNCHANGED <<orders, coupon>>, NEW j \in Jobs, NEW row,
           job' = [job EXCEPT ![j] = row], row.pc # "link",
           \A a \in Attempts : attempts'[a].order \in {None, attempts[a].order}
    PROVE  CouponInv'
<1>1. job'[j] = row /\ \A k \in Jobs : k # j => job'[k] = job[k]
  BY DEF TypeInv, JobsOK
<1>. QED
  BY <1>1, NothingLinked

LEMMA RetryCoupon ==
    ASSUME TypeInv, CouponInv, StartPass \/ RetryAttempt \/ Enable
    PROVE  CouponInv'
<1>. DEFINE row == job'["scan"]
            retry == job'["retry"]
<1>1. /\ UNCHANGED <<orders, coupon, attempts>>
      /\ "scan" \in Jobs /\ "retry" \in Jobs
  BY DEF StartPass, RetryAttempt, Enable, Jobs
<1>2. CASE StartPass
  <2>1. job' = [job EXCEPT !["scan"] = [Idle EXCEPT !.pc = "next", !.todo = Due]]
    BY <1>2 DEF StartPass
  <2>2. [Idle EXCEPT !.pc = "next", !.todo = Due].pc # "link"
    BY DEF Idle
  <2>. QED
    BY <1>1, <2>1, <2>2, JobLinksNothing
<1>3. CASE RetryAttempt
  <2>1. PICK a \in Attempts :
           job' = [job EXCEPT !["retry"] = [Idle EXCEPT !.pc = "enable", !.sub = attempts[a].sub]]
    BY <1>3 DEF RetryAttempt
  <2>2. [Idle EXCEPT !.pc = "enable", !.sub = attempts[a].sub].pc # "link"
    BY DEF Idle
  <2>. QED
    BY <1>1, <2>1, <2>2, JobLinksNothing
<1>4. CASE Enable
  <2>1. job' = [job EXCEPT !["retry"] = [Idle EXCEPT !.pc = "next", !.todo = {job["retry"].sub}]]
    BY <1>4 DEF Enable
  <2>2. [Idle EXCEPT !.pc = "next", !.todo = {job["retry"].sub}].pc # "link"
    BY DEF Idle
  <2>. QED
    BY <1>1, <2>1, <2>2, JobLinksNothing
<1>. QED
  BY <1>2, <1>3, <1>4

LEMMA NextSubCoupon ==
    ASSUME TypeInv, CouponInv, UNCHANGED <<orders, coupon>>, NEW j \in Jobs, NextSub(j),
           \A a \in Attempts : attempts'[a].order \in {None, attempts[a].order}
    PROVE  CouponInv'
<1>1. [Idle EXCEPT !.pc = "next", !.todo = job[j].todo].pc # "link"
  BY DEF Idle
<1>. QED
  BY <1>1, JobLinksNothing DEF NextSub

LEMMA InsertAttemptCoupon ==
    ASSUME TypeInv, CouponInv, NEW j \in Jobs, InsertAttempt(j)
    PROVE  CouponInv'
<1>1. UNCHANGED <<orders, coupon>> /\ job[j] \in JobType /\ attempts \in [Attempts -> AttemptType]
  BY DEF InsertAttempt, TypeInv, JobsOK, AttemptsOK
<1>2. CASE SameKey(j) # {}
  BY <1>1, <1>2, NextSubCoupon DEF InsertAttempt
<1>3. CASE SameKey(j) = {}
  <2>1. PICK a \in Attempts, label \in {"order", "no channel"} :
           /\ attempts' = [attempts EXCEPT ![a] =
                 [status |-> "PROCESSING", sub |-> job[j].sub, number |-> job[j].number,
                  end |-> job[j].end, order |-> None]]
           /\ job' = [job EXCEPT ![j] = [job[j] EXCEPT !.pc = label, !.attempt = a, !.number = 0]]
    BY <1>3, FirstRows DEF InsertAttempt, UnusedAttempts, TypeInv, JobsOK
  <2>2. \A b \in Attempts : attempts'[b].order \in {None, attempts[b].order}
    BY <1>1, <2>1
  <2>3. [job[j] EXCEPT !.pc = label, !.attempt = a, !.number = 0].pc # "link"
    BY <1>1 DEF JobType
  <2>. QED
    BY <1>1, <2>1, <2>2, <2>3, JobLinksNothing
<1>. QED
  BY <1>2, <1>3

\* The order of a renewal is plain from the start.
LEMMA InsertOrderCoupon ==
    ASSUME TypeInv, CouponInv, NEW j \in Jobs, InsertOrder(j)
    PROVE  CouponInv'
<1>1. PICK o \in Orders :
         /\ orders[o].status = "none"
         /\ orders' = [orders EXCEPT ![o] = [status |-> "PENDING", coupon |-> FALSE]]
         /\ job' = [job EXCEPT ![j] = [job[j] EXCEPT !.pc = "link", !.order = o]]
  BY FirstRows DEF InsertOrder, UnusedOrders, TypeInv, JobsOK
<1>2. /\ UNCHANGED <<attempts, coupon>> /\ job[j] \in JobType
      /\ orders \in [Orders -> OrderType] /\ attempts \in [Attempts -> AttemptType]
  BY DEF InsertOrder, TypeInv, JobsOK, AttemptsOK
<1>3. /\ orders'[o] = [status |-> "PENDING", coupon |-> FALSE]
      /\ \A p \in Orders : p # o => orders'[p] = orders[p]
  BY <1>1, <1>2
<1>4. Plain(o)' /\ ~Uses(o)'
  BY <1>3 DEF Plain, Uses
<1>5. \A p \in Orders : p # o => (Plain(p) => Plain(p)') /\ (Uses(p)' => Uses(p))
  BY <1>3 DEF Plain, Uses
<1>6. ASSUME NEW a \in Attempts, attempts'[a].order # None PROVE Plain(attempts[a].order)'
  <2>1. attempts[a].order \in Orders /\ Plain(attempts[a].order)
    BY <1>2, <1>6 DEF CouponInv, AttemptType
  <2>2. attempts[a].order # o
    BY <1>1, <2>1 DEF Plain
  <2>3. Plain(attempts[a].order) => orders'[attempts[a].order].status # "none" /\ ~orders'[attempts[a].order].coupon
    BY <1>3, <2>1, <2>2 DEF Plain
  <2>. QED
    BY <1>2, <2>1, <2>3 DEF Plain
<1>7. ASSUME NEW k \in Jobs, job'[k].pc = "link" PROVE Plain(job[k].order)'
  <2>1. CASE k = j
    <3>1. job'[k].order = o
      BY <1>1, <1>2, <2>1 DEF JobType, TypeInv, JobsOK
    <3>. QED
      BY <1>3, <3>1 DEF Plain
  <2>2. CASE k # j
    <3>1. job'[k] = job[k]
      BY <1>1, <2>2 DEF TypeInv, JobsOK
    <3>2. job[k].order \in Orders /\ Plain(job[k].order)
      BY <1>7, <3>1 DEF CouponInv, TypeInv, JobsOK, JobOK
    <3>3. job[k].order # o
      BY <1>1, <3>2 DEF Plain
    <3>. QED
      BY <1>3, <3>1, <3>2, <3>3 DEF Plain
  <2>. QED
    BY <2>1, <2>2
<1>8. ASSUME NEW p \in Orders, Uses(p)'
      PROVE  /\ coupon'.order = p
             /\ coupon'.status = IF orders'[p].status = "PENDING" THEN "LOCKED" ELSE "REDEEMED"
  <2>1. p # o /\ Uses(p) /\ orders'[p] = orders[p]
    BY <1>3, <1>4, <1>5, <1>8
  <2>. QED
    BY <1>2, <2>1 DEF CouponInv
<1>. QED
  BY <1>6, <1>7, <1>8 DEF CouponInv

LEMMA LinkOrderCoupon ==
    ASSUME TypeInv, CouponInv, NEW j \in Jobs, LinkOrder(j)
    PROVE  CouponInv'
<1>1. /\ job[j].pc = "link" /\ job[j] \in JobType /\ Plain(job[j].order)
      /\ UNCHANGED <<orders, coupon>> /\ attempts \in [Attempts -> AttemptType]
  BY DEF LinkOrder, TypeInv, JobsOK, AttemptsOK, CouponInv
<1>2. attempts' = [attempts EXCEPT ![job[j].attempt] =
                      [@ EXCEPT !.status = "PAYMENT_REQUIRED", !.order = job[j].order]]
  BY DEF LinkOrder
<1>3. \A a \in Attempts : attempts'[a].order \in {job[j].order, attempts[a].order}
  BY <1>1, <1>2 DEF AttemptType
<1>4. ASSUME NEW k \in Jobs, job'[k].pc = "link" PROVE Plain(job'[k].order)
  <2>1. job'[k] = job[k]
    BY <1>1, <1>4 DEF LinkOrder, Goto, TypeInv, JobsOK, JobType
  <2>. QED
    BY <1>4, <2>1 DEF CouponInv
<1>5. \A a \in Attempts : attempts'[a].order # None => Plain(attempts'[a].order)
  BY <1>1, <1>3 DEF CouponInv
<1>. QED
  BY <1>1, <1>4, <1>5, OrdersKept

LEMMA RenewCoupon ==
    ASSUME TypeInv, CouponInv, NEW j \in Jobs, Renew(j)
    PROVE  CouponInv'
<1>1. job[j] \in JobType /\ job \in [Jobs -> JobType] /\ attempts \in [Attempts -> AttemptType]
  BY DEF TypeInv, JobsOK, AttemptsOK
<1>2. CASE ReadSub(j)
  <2>1. UNCHANGED <<orders, coupon, attempts>> /\ job[j].pc = "next"
    BY <1>2 DEF ReadSub
  <2>2. PICK s \in job[j].todo :
           IF Wanted(s)
           THEN job' = [job EXCEPT ![j] =
                   [Idle EXCEPT !.pc = "insert", !.todo = job[j].todo \ {s}, !.sub = s,
                                !.number = LastOf(Numbers(s)) + 1, !.end = subs[s].end]]
           ELSE job' = [job EXCEPT ![j] = [job[j] EXCEPT !.todo = job[j].todo \ {s}]]
    BY <1>1, <1>2 DEF ReadSub
  <2>3. \A number, end : [Idle EXCEPT !.pc = "insert", !.todo = job[j].todo \ {s}, !.sub = s,
                                      !.number = number, !.end = end].pc # "link"
    BY DEF Idle
  <2>4. [job[j] EXCEPT !.todo = job[j].todo \ {s}].pc # "link"
    BY <1>1, <2>1 DEF JobType
  <2>5. CASE Wanted(s)
    <3>. DEFINE number == LastOf(Numbers(s)) + 1
                end == subs[s].end
                row == [Idle EXCEPT !.pc = "insert", !.todo = job[j].todo \ {s}, !.sub = s,
                                    !.number = number, !.end = end]
    <3>1. job' = [job EXCEPT ![j] = row]
      BY <2>2, <2>5
    <3>. HIDE DEF number, end
    <3>2. row.pc # "link"
      BY <2>3
    <3>. HIDE DEF row
    <3>. QED
      BY <2>1, <3>1, <3>2, JobLinksNothing
  <2>6. CASE ~Wanted(s)
    BY <2>1, <2>2, <2>4, <2>6, JobLinksNothing
  <2>. QED
    BY <2>5, <2>6
<1>3. CASE NoChannel(j)
  <2>1. /\ UNCHANGED <<orders, coupon, attempts>>
        /\ job' = [job EXCEPT ![j] = [job[j] EXCEPT !.pc = "fail"]]
    BY <1>1, <1>3 DEF NoChannel, Goto
  <2>2. [job[j] EXCEPT !.pc = "fail"].pc # "link"
    BY <1>1 DEF JobType
  <2>. QED
    BY <2>1, <2>2, JobLinksNothing
<1>4. CASE FailAttempt(j)
  <2>1. \A a \in Attempts : attempts'[a].order \in {None, attempts[a].order}
    BY <1>1, <1>4 DEF FailAttempt, AttemptType
  <2>. QED
    BY <1>4, <2>1, NextSubCoupon DEF FailAttempt
<1>5. CASE Postpone(j)
  BY <1>5, NextSubCoupon DEF Postpone
<1>6. CASE ExpireGrace(j)
  <2>1. UNCHANGED <<orders, coupon, attempts>> /\ job' = [job EXCEPT ![j] = Idle]
    BY <1>6 DEF ExpireGrace
  <2>. QED
    BY <2>1, IdleType, JobLinksNothing
<1>. QED
  BY <1>2, <1>3, <1>4, <1>5, <1>6, InsertAttemptCoupon, InsertOrderCoupon, LinkOrderCoupon DEF Renew

LEMMA NextCoupon == TypeInv /\ CouponInv /\ [Next]_vars => CouponInv'
<1>. SUFFICES ASSUME TypeInv, CouponInv, [Next]_vars PROVE CouponInv'
  OBVIOUS
<1>1. CASE Tick \/ View \/ Ask \/ Cancel \/ ConfigureRenewal \/ Terminate \/ UNCHANGED vars
  <2>1. UNCHANGED <<orders, coupon, attempts, job>>
    BY <1>1 DEF Tick, View, Ask, Cancel, ConfigureRenewal, Write, Terminate, vars
  <2>. QED
    BY <2>1, NothingLinked
<1>2. CASE CreateOrder \/ ExpireCoupon \/ CancelOrder \/ MarkPaid
  BY <1>2, CreateOrderCoupon, ExpireCouponCoupon, CancelOrderCoupon, MarkPaidCoupon
<1>3. CASE StartPass \/ RetryAttempt \/ Enable
  BY <1>3, RetryCoupon
<1>4. CASE Renew("scan") \/ Renew("retry")
  BY <1>4, RenewCoupon DEF Jobs
<1>5. CASE \E j \in Jobs : Dies(j)
  <2>1. PICK j \in Jobs : job' = [job EXCEPT ![j] = Idle] /\ UNCHANGED <<orders, coupon, attempts>>
    BY <1>5 DEF Dies
  <2>. QED
    BY <2>1, IdleType, JobLinksNothing
<1>. QED
  BY <1>1, <1>2, <1>3, <1>4, <1>5 DEF Next, ScanStep

\* An order waiting for its payment finds its coupon locked for it, and no two
\* orders are ever paid with it: whoever creates, cancels and pays orders in
\* between, and whatever order a renewal opens meanwhile.
THEOREM CouponIsAccountedForCorrect == Spec => []CouponIsAccountedFor
<1>1. CouponInv => CouponIsAccountedFor
  <2>. SUFFICES ASSUME CouponInv PROVE CouponIsAccountedFor
    OBVIOUS
  <2>. DEFINE using == {o \in Orders : orders[o].coupon /\ orders[o].status \in {"PENDING", "PAID"}}
  <2>1. \A o \in using :
           /\ coupon.order = o
           /\ coupon.status = IF orders[o].status = "PENDING" THEN "LOCKED" ELSE "REDEEMED"
    BY DEF CouponInv, Uses
  <2>2. using \subseteq {coupon.order}
    BY <2>1
  <2>3. IsFiniteSet({coupon.order}) /\ Cardinality({coupon.order}) = 1
    BY FS_Singleton
  <2>4. Cardinality(using) <= 1
    BY <2>2, <2>3, FS_Subset
  <2>. QED
    BY <2>1, <2>4 DEF CouponIsAccountedFor
<1>. QED
  BY <1>1, InitType, NextType, InitCoupon, NextCoupon, PTL DEF Spec

=============================================================================
