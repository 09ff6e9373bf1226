---------------------- MODULE GenerationCreationProofs ----------------------
(***************************************************************************)
(* Theorems about GenerationCreation, for any number of deliveries, on     *)
(* processes of their own or shared, any scopes, costs and bounds.         *)
(*                                                                         *)
(* What the request needs to know of the steps of the job is stated first: *)
(* which columns of the row, the holds and the ledger they may change.     *)
(***************************************************************************)
EXTENDS GenerationCreation, GenerationJobProofs

CreatorType == [pc : CreatorPC, spent : BOOLEAN, released : BOOLEAN, refs : SUBSET Scopes]

LedgerType == [spend : Nat, extra : Nat, back : Nat, refund : Nat, enqueue : Nat]

-----------------------------------------------------------------------------
(***************************************************************************)
(* Type correctness.                                                       *)
(***************************************************************************)
LEMMA CreationTypeInit == CreateInit => CreationTypeOK
<1>. SUFFICES ASSUME CreateInit PROVE CreationTypeOK
  OBVIOUS
<1>1. \A quota \in BOOLEAN : NewJob("PENDING", quota) \in JobType
  BY DEF NewJob, JobType, Settlements, Unsettled
<1>2. job \in JobType
  BY <1>1 DEF CreateInit
<1>3. NoLedger \in LedgerType
  BY DEF NoLedger, LedgerType
<1>4. TypeOK
  BY <1>2, <1>3, IdleTypes DEF CreateInit, TypeOK, LedgerType
<1>5. creator \in CreatorType
  BY DEF CreateInit, NewCreator, CreatorType, CreatorPC
<1>. QED
  BY <1>4, <1>5 DEF CreationTypeOK, CreatorType

LEMMA GotoCreateType ==
    ASSUME creator \in CreatorType, NEW label \in CreatorPC, GotoCreate(label)
    PROVE  creator' \in CreatorType /\ creator'.pc = label /\ creator'.spent = creator.spent
           /\ creator'.released = creator.released /\ creator'.refs = creator.refs
BY DEF GotoCreate, CreatorType

\* Releasing a hold keeps the table of the holds in its type.
LEMMA ReleaseType ==
    ASSUME TypeOK, NEW s \in Scopes, ReleaseReservation(s)
    PROVE  /\ resv' \in [Scopes -> {"none", "RESERVED", "RELEASED", "SETTLED"}]
           /\ \A q \in Scopes : /\ resv[q] = "SETTLED" => resv'[q] = "SETTLED"
                                /\ resv'[q] = "RESERVED" => resv[q] = "RESERVED" /\ q # s
BY DEF TypeOK, ReleaseReservation

LEMMA CreateStepType == CreationTypeOK /\ CreateStep => CreationTypeOK'
<1>. SUFFICES ASSUME CreationTypeOK, CreateStep PROVE CreationTypeOK'
  OBVIOUS
<1>1. TypeOK /\ creator \in CreatorType
  BY DEF CreationTypeOK, CreatorType
<1>2. \A label : label \in CreatorPC /\ GotoCreate(label) => creator' \in CreatorType
  BY <1>1, GotoCreateType
<1>3. UNCHANGED vars => TypeOK'
  BY <1>1 DEF vars, TypeOK
<1>l. {"hold", "giveback", "update", "spend", "mark", "queue", "fail", "refund", "release", "close",
       "over"} = CreatorPC
  BY DEF CreatorPC
<1>4. CASE HoldScope
  <2>1. PICK s \in Scopes : /\ resv' = [resv EXCEPT ![s] = "RESERVED"]
                            /\ \/ creator' = [creator EXCEPT !.refs = creator.refs \cup {s}]
                               \/ GotoCreate("fail")
    BY <1>1, <1>4 DEF HoldScope, CreatorType
  <2>2. creator' \in CreatorType
    <3>1. [creator EXCEPT !.refs = creator.refs \cup {s}] \in CreatorType
      BY <1>1 DEF CreatorType
    <3>. QED
      BY <2>1, <3>1, <1>2, <1>l
  <2>3. TypeOK'
    BY <1>1, <1>4, <2>1 DEF HoldScope, TypeOK
  <2>. QED
    BY <2>2, <2>3 DEF CreationTypeOK, CreatorType
<1>5. CASE \/ AllHeld \/ QuotaExhausted \/ AddToQueue \/ Abandon
           \/ \E label \in {"hold", "giveback", "update", "spend", "mark", "queue"} : CreateFails(label)
  <2>1. UNCHANGED vars /\ \E label \in CreatorPC : GotoCreate(label)
    BY <1>5, <1>l DEF AllHeld, QuotaExhausted, AddToQueue, Abandon, CreateFails
  <2>. QED
    BY <1>2, <1>3, <2>1 DEF CreationTypeOK, CreatorType
<1>6. CASE GiveBack
  <2>1. CASE \E s \in creator.refs : /\ ReleaseReservation(s)
                                     /\ creator' = [creator EXCEPT !.refs = @ \ {s}]
    <3>1. PICK s \in Scopes : /\ ReleaseReservation(s)
                              /\ creator' = [creator EXCEPT !.refs = creator.refs \ {s}]
      BY <1>1, <2>1 DEF CreatorType
    <3>2. creator' \in CreatorType
      BY <1>1, <3>1 DEF CreatorType
    <3>3. TypeOK'
      BY <1>1, <1>6, <3>1, ReleaseType DEF GiveBack, TypeOK
    <3>. QED
      BY <3>2, <3>3 DEF CreationTypeOK, CreatorType
  <2>2. CASE GotoCreate("update") /\ UNCHANGED resv
    <3>1. creator' \in CreatorType
      BY <1>2, <1>l, <2>2
    <3>2. TypeOK'
      BY <1>1, <1>6, <2>2 DEF GiveBack, TypeOK
    <3>. QED
      BY <3>1, <3>2 DEF CreationTypeOK, CreatorType
  <2>. QED
    BY <1>6, <2>1, <2>2 DEF GiveBack
<1>7. CASE UpdateOptions \/ MarkReserved \/ FailQueued
  <2>1. \E label \in CreatorPC : GotoCreate(label)
    BY <1>7, <1>l DEF UpdateOptions, MarkReserved, FailQueued
  <2>2. job' \in JobType
    <3>1. \A b \in BOOLEAN : [job EXCEPT !.quota = b] \in JobType
      BY <1>1 DEF TypeOK, JobType
    <3>2. [job EXCEPT !.settlement = "RESERVED"] \in JobType
      BY <1>1 DEF TypeOK, JobType, Settlements, Unsettled
    <3>3. [Unlocked(job) EXCEPT !.status = "FAILED"] \in JobType
      BY <1>1 DEF TypeOK, JobType, Unlocked, Terminal, Failed
    <3>. QED
      BY <1>1, <1>7, <3>1, <3>2, <3>3 DEF UpdateOptions, MarkReserved, FailQueued, TypeOK
  <2>3. TypeOK'
    BY <1>1, <1>7, <2>2 DEF UpdateOptions, MarkReserved, FailQueued, TypeOK
  <2>. QED
    BY <1>2, <2>1, <2>3 DEF CreationTypeOK, CreatorType
<1>8. CASE Spend \/ RefundAll
  <2>1. creator' \in CreatorType
    <3>1. [creator EXCEPT !.pc = "mark", !.spent = TRUE] \in CreatorType
      BY <1>1 DEF CreatorType, CreatorPC
    <3>. QED
      BY <1>2, <1>8, <1>l, <3>1 DEF Spend, RefundAll
  <2>2. ledger' \in LedgerType
    <3>1. Cost \in Nat /\ ledger \in LedgerType
      BY <1>1, BoundAssumption DEF TypeOK, LedgerType
    <3>. QED
      BY <1>8, <3>1 DEF Spend, RefundAll, LedgerType
  <2>3. books' \in SUBSET {"CAPTURE", "REFUND"}
    BY <1>1, <1>8 DEF Spend, RefundAll, TypeOK
  <2>4. TypeOK'
    BY <1>1, <1>8, <2>2, <2>3 DEF Spend, RefundAll, TypeOK, LedgerType
  <2>. QED
    BY <2>1, <2>4 DEF CreationTypeOK, CreatorType
<1>9. CASE ListHolds
  <2>1. \A refs \in SUBSET Scopes :
           /\ [creator EXCEPT !.pc = "close", !.refs = refs] \in CreatorType
           /\ [creator EXCEPT !.pc = "close", !.refs = refs, !.released = FALSE] \in CreatorType
    BY <1>1 DEF CreatorType, CreatorPC
  <2>. DEFINE held == {s \in Scopes : resv[s] = "RESERVED"}
  <2>2. UNCHANGED vars /\ \/ creator' = [creator EXCEPT !.pc = "close", !.refs = held]
                          \/ creator' = [creator EXCEPT !.pc = "close", !.refs = {}, !.released = FALSE]
    BY <1>9 DEF ListHolds
  <2>3. held \in SUBSET Scopes /\ {} \in SUBSET Scopes
    OBVIOUS
  <2>. HIDE DEF held
  <2>4. creator' \in CreatorType
    BY <2>1, <2>2, <2>3
  <2>. QED
    BY <1>3, <2>2, <2>4 DEF CreationTypeOK, CreatorType
<1>10. CASE ReleaseHeld
  <2>1. PICK s \in Scopes :
           \/ ReleaseReservation(s) /\ creator' = [creator EXCEPT !.refs = creator.refs \ {s}]
           \/ /\ creator' = [creator EXCEPT !.refs = creator.refs \ {s}, !.released = FALSE]
              /\ UNCHANGED resv
    BY <1>1, <1>10 DEF ReleaseHeld, CreatorType
  <2>2. creator' \in CreatorType
    BY <1>1, <2>1 DEF CreatorType
  <2>3. TypeOK'
    BY <1>1, <1>10, <2>1, ReleaseType DEF ReleaseHeld, TypeOK
  <2>. QED
    BY <2>2, <2>3 DEF CreationTypeOK, CreatorType
<1>11. CASE WriteSettlement
  <2>1. creator' \in CreatorType
    BY <1>2, <1>11, <1>l DEF WriteSettlement
  <2>2. [job EXCEPT !.settlement = ClosedAs] \in JobType
    BY <1>1 DEF ClosedAs, TypeOK, JobType, Settlements, Unsettled, Closed
  <2>3. TypeOK'
    BY <1>1, <1>11, <2>2 DEF WriteSettlement, TypeOK
  <2>. QED
    BY <2>1, <2>3 DEF CreationTypeOK, CreatorType
<1>. QED
  BY <1>4, <1>5, <1>6, <1>7, <1>8, <1>9, <1>10, <1>11 DEF CreateStep

LEMMA CreationTypeStep == CreationTypeOK /\ [CreateNext]_createVars => CreationTypeOK'
<1>. SUFFICES ASSUME CreationTypeOK, [CreateNext]_createVars PROVE CreationTypeOK'
  OBVIOUS
<1>1. CASE CreateStep
  BY <1>1, CreateStepType
<1>2. CASE [Next]_vars /\ UNCHANGED creator
  BY <1>2, TypeStep DEF CreationTypeOK
<1>. QED
  BY <1>1, <1>2 DEF CreateNext, createVars

\* The row and every local variable keep their shape while a request, the
\* deliveries and the passes write the same row at once.
THEOREM CreationTypeCorrect == CreateSpec => []CreationTypeOK
BY CreationTypeInit, CreationTypeStep, PTL DEF CreateSpec

-----------------------------------------------------------------------------
(***************************************************************************)
(* What a step of the job does to the row, the holds and the ledger.       *)
(***************************************************************************)
\* How the job is paid stays; a failed job stays failed and unlocked; and only
\* a failed job is closed.
RowFrame ==
    /\ job'.quota = job.quota
    /\ job.status \in Failed => job'.status = job.status /\ (job.lease = "none" => job'.lease = "none")
    /\ job'.status \in Failed => job.status \in Failed \/ job'.lease = "none"
    /\ job'.settlement \in Closed => job.settlement \in Closed \/ job.status \in Failed

\* A settled hold stays settled, and no hold is made.
HoldsFrame ==
    \A s \in Scopes : /\ resv[s] = "SETTLED" => resv'[s] = "SETTLED"
                      /\ resv'[s] = "RESERVED" => resv[s] = "RESERVED"

\* Of the ledger the steps write three entries: what a live worker adjusts, and
\* the refund of what is outstanding.
LedgerFrame ==
    \/ ledger' = ledger
    \/ \E d \in Deliveries :
          /\ HoldsLease(d)
          /\ \/ \E n \in 1..MaxExtra : ledger' = [ledger EXCEPT !.extra = n]
             \/ \E n \in 1..Cost     : ledger' = [ledger EXCEPT !.back = n]
    \/ \E c \in Closers :
          /\ closer[c].pc = "refund"
          /\ ledger' = [ledger EXCEPT !.refund = IF ledger.refund > 0 THEN ledger.refund ELSE Outstanding]

\* A step of a delivery that holds the lease, so that the job is running.
LEMMA RunningFrame ==
    ASSUME TypeOK, NEW d \in Deliveries, HoldsLease(d),
           \/ \E x \in {"RESERVED", "RECONCILING", "SETTLED"} : job' = [job EXCEPT !.settlement = x]
           \/ \E x \in {"SUCCEEDED", "QUEUED", "FAILED"} : job' = [Unlocked(job) EXCEPT !.status = x]
           \/ job' = job
    PROVE  RowFrame
<1>1. job.status = "RUNNING" /\ job \in JobType
  BY DEF HoldsLease, TypeOK
<1>. QED
  BY <1>1 DEF RowFrame, JobType, Unlocked, Failed, Closed

LEMMA WorkRow ==
    ASSUME TypeOK, NEW d \in Deliveries, Claim(d) \/ ClaimLost(d) \/ Rest(d) \/ Work(d)
    PROVE  RowFrame
<1>1. CASE job' = job
  BY <1>1 DEF RowFrame
<1>2. CASE Claim(d)
  <2>1. job.status = "QUEUED" /\ job \in JobType
    BY <1>2 DEF Claim, Claimable, TypeOK
  <2>2. job' = [job EXCEPT !.status = "RUNNING", !.startedAt = TRUE, !.lockedBy = Process[d],
                           !.leaseVersion = @ + 1, !.lease = "live"]
    BY <1>2 DEF Claim
  <2>3. /\ job'.quota = job.quota /\ job'.status = "RUNNING" /\ job'.settlement = job.settlement
    BY <2>1, <2>2 DEF JobType
  <2>. QED
    BY <2>1, <2>3 DEF RowFrame, Failed
<1>3. CASE Adopt(d) \/ MarkReconciling(d) \/ SettleNonChat(d) \/ Remark(d)
  <2>1. \/ job' = job
        \/ HoldsLease(d) /\ \E x \in {"RESERVED", "RECONCILING", "SETTLED"} :
                               job' = [job EXCEPT !.settlement = x]
    BY <1>3 DEF Adopt, MarkReconciling, SettleNonChat, Remark
  <2>. QED
    BY <1>1, <2>1, RunningFrame
<1>4. CASE CommitSettlement(d) \/ CommitUnacknowledged(d)
  <2>1. \/ job' = job
        \/ HoldsLease(d) /\ job' = [job EXCEPT !.settlement = "SETTLED"]
    BY <1>4 DEF CommitSettlement, CommitUnacknowledged, SettleGeneration, CanSettle
  <2>. QED
    BY <1>1, <2>1, RunningFrame
<1>5. CASE Finish(d) \/ ReleaseForRetry(d) \/ FailJob(d)
  <2>1. \/ job' = job
        \/ HoldsLease(d) /\ \E x \in {"SUCCEEDED", "QUEUED", "FAILED"} :
                               job' = [Unlocked(job) EXCEPT !.status = x]
    BY <1>5 DEF Finish, ReleaseForRetry, FailJob
  <2>. QED
    BY <1>1, <2>1, RunningFrame
<1>6. CASE \/ ClaimLost(d) \/ Rest(d) \/ ReadForeign(d) \/ ReadOwned(d)
           \/ ReserveTooEarly(d) \/ ReserveWithoutQuota(d) \/ ReserveFromTable(d) \/ Unreserve(d)
           \/ Die(d)
  BY <1>1, <1>6 DEF ClaimLost, Rest, ReadForeign, ReadOwned, ReserveTooEarly, ReserveWithoutQuota,
                    ReserveFromTable, Unreserve, Die, db
<1>7. CASE RunnerStep(d)
  BY <1>1, <1>3, <1>7
     DEF RunnerStep, CleanOutputs, StartAttempt, NoCandidate, ProviderRefuses, StreamBreaks,
         ChatAnswers, StoreOutput, UndoOutputs, FailAttempt, SucceedAttempt, Adjust, db
<1>8. CASE SettleStep(d)
  BY <1>1, <1>3, <1>4, <1>5, <1>8 DEF SettleStep, Verify, Book, db
<1>9. CASE ErrorStep(d)
  BY <1>1, <1>3, <1>5, <1>9 DEF ErrorStep, CatchForeign, CatchCancelled, CatchOwned, DatabaseFails, db
<1>. QED
  BY <1>2, <1>3, <1>6, <1>7, <1>8, <1>9 DEF Work

LEMMA EnvironmentRow ==
    ASSUME TypeOK, Environment
    PROVE  RowFrame
<1>1. CASE job' = job
  BY <1>1 DEF RowFrame
<1>t. job \in JobType
  BY DEF TypeOK
<1>2. CASE Cancel \/ RecoverStaleLease
  <2>1. job.status \in {"QUEUED", "RUNNING"} /\ job.settlement \in Unsettled \cup {"SETTLED"}
    BY <1>2 DEF Cancel, RecoverStaleLease, Open, Unsettled
  <2>2. /\ job'.quota = job.quota /\ job'.lease = "none"
        /\ job'.settlement \in {job.settlement, "RECONCILING"}
    BY <1>2, <1>t DEF Cancel, RecoverStaleLease, Unlocked, JobType
  <2>. QED
    BY <2>1, <2>2 DEF RowFrame, Failed, Closed, Unsettled
<1>3. CASE Expire
  <2>1. job.lease = "live" /\ job' = [job EXCEPT !.lease = "expired"]
    BY <1>3 DEF Expire
  <2>2. /\ job'.quota = job.quota /\ job'.status = job.status /\ job'.settlement = job.settlement
    BY <1>t, <2>1 DEF JobType
  <2>. QED
    BY <2>1, <2>2 DEF RowFrame
<1>4. ASSUME NEW c \in Closers, Publish(c) \/ CloseSettlement(c) PROVE RowFrame
  <2>1. closer[c].reason \in Failed
    BY DEF TypeOK, CloserType
  <2>2. \E x : /\ job' = [job EXCEPT !.settlement = x]
               /\ x = job.settlement \/ job.status \in Failed
    BY <1>4, <2>1 DEF Publish, CloseSettlement
  <2>3. PICK x : job' = [job EXCEPT !.settlement = x] /\ (x = job.settlement \/ job.status \in Failed)
    BY <2>2
  <2>4. /\ job'.quota = job.quota /\ job'.status = job.status /\ job'.lease = job.lease
        /\ job'.settlement = x
    BY <1>t, <2>3 DEF JobType
  <2>. QED
    BY <2>3, <2>4 DEF RowFrame
<1>5. ASSUME NEW c \in Closers, CloseStep(c) \/ CloseFails(c) PROVE RowFrame
  BY <1>1, <1>4, <1>5 DEF CloseStep, CloseFails, Inspect, RefundOutstanding, RecordRefund, ReleaseHold,
                          CleanTerminal, db
<1>6. ASSUME NEW r \in Recoverers, RecoverTerminal(r) PROVE RowFrame
  BY <1>1, <1>6 DEF RecoverTerminal, db
<1>. QED
  BY <1>2, <1>3, <1>5, <1>6 DEF Environment

LEMMA JobRowFrame == TypeOK /\ [Next]_vars => RowFrame
<1>. SUFFICES ASSUME TypeOK, [Next]_vars PROVE RowFrame
  OBVIOUS
<1>1. CASE UNCHANGED vars
  BY <1>1 DEF vars, RowFrame
<1>. QED
  BY <1>1, WorkRow, EnvironmentRow DEF Next

LEMMA JobHoldsFrame == TypeOK /\ [Next]_vars => HoldsFrame
<1>. SUFFICES ASSUME TypeOK, [Next]_vars PROVE HoldsFrame
  OBVIOUS
<1>1. CASE resv' = resv
  BY <1>1 DEF HoldsFrame
<1>2. ASSUME NEW s \in Scopes, ReleaseReservation(s) PROVE HoldsFrame
  BY <1>2, ReleaseType DEF HoldsFrame
<1>3. ASSUME NEW d \in Deliveries, Unreserve(d) PROVE HoldsFrame
  <2>1. worker[d].refs \subseteq Scopes
    BY DEF TypeOK, WorkerType
  <2>. QED
    BY <1>1, <1>2, <1>3, <2>1 DEF Unreserve
<1>4. ASSUME NEW c \in Closers, ReleaseHold(c) PROVE HoldsFrame
  <2>1. closer[c].refs \subseteq Scopes
    BY DEF TypeOK, CloserType
  <2>. QED
    BY <1>1, <1>2, <1>4, <2>1 DEF ReleaseHold
<1>5. ASSUME NEW d \in Deliveries, SettleStep(d) PROVE HoldsFrame
  <2>1. resv' = resv \/ resv' = [s \in Scopes |-> "SETTLED"]
    BY <1>5 DEF SettleStep, SettleNonChat, CommitSettlement, CommitUnacknowledged, SettleGeneration,
                Verify, Book, Finish, db
  <2>. QED
    BY <1>1, <2>1 DEF HoldsFrame
<1>6. ASSUME NEW d \in Deliveries, Claim(d) \/ ClaimLost(d) \/ Rest(d) \/ Work(d) PROVE HoldsFrame
  <2>1. CASE \/ Claim(d) \/ ClaimLost(d) \/ Rest(d) \/ ReadForeign(d) \/ ReadOwned(d)
             \/ ReserveTooEarly(d) \/ ReserveWithoutQuota(d) \/ ReserveFromTable(d) \/ Adopt(d)
    BY <1>1, <2>1 DEF Claim, ClaimLost, Rest, ReadForeign, ReadOwned, ReserveTooEarly,
                      ReserveWithoutQuota, ReserveFromTable, Adopt, db
  <2>2. CASE RunnerStep(d)
    BY <1>1, <2>2
       DEF RunnerStep, CleanOutputs, StartAttempt, NoCandidate, ProviderRefuses, StreamBreaks,
           ChatAnswers, StoreOutput, UndoOutputs, FailAttempt, SucceedAttempt, MarkReconciling, Adjust, db
  <2>3. CASE ErrorStep(d) \/ Die(d)
    BY <1>1, <2>3 DEF ErrorStep, CatchForeign, CatchCancelled, CatchOwned, ReleaseForRetry,
                      Remark, FailJob, DatabaseFails, Die, db
  <2>. QED
    BY <1>3, <1>5, <1>6, <2>1, <2>2, <2>3 DEF Work
<1>7. CASE Environment
  BY <1>1, <1>4, <1>7
     DEF Environment, Cancel, RecoverStaleLease, Expire, RecoverTerminal, CloseStep, CloseFails,
         Publish, Inspect, RefundOutstanding, RecordRefund, CloseSettlement, CleanTerminal, db
<1>8. CASE UNCHANGED vars
  BY <1>1, <1>8 DEF vars
<1>. QED
  BY <1>6, <1>7, <1>8 DEF Next

LEMMA JobLedgerFrame == [Next]_vars => LedgerFrame
<1>. SUFFICES ASSUME [Next]_vars PROVE LedgerFrame
  OBVIOUS
<1>1. CASE ledger' = ledger
  BY <1>1 DEF LedgerFrame
<1>2. ASSUME NEW d \in Deliveries, Adjust(d) PROVE LedgerFrame
  <2>1. \/ ledger' = ledger
        \/ /\ HoldsLease(d)
           /\ \/ \E n \in 1..MaxExtra : ledger' = [ledger EXCEPT !.extra = n]
              \/ \E n \in 1..Cost     : ledger' = [ledger EXCEPT !.back = n]
    BY <1>2 DEF Adjust, Chargeable
  <2>. QED
    BY <1>1, <2>1 DEF LedgerFrame
<1>3. ASSUME NEW c \in Closers, RefundOutstanding(c) PROVE LedgerFrame
  BY <1>3 DEF RefundOutstanding, LedgerFrame
<1>6. ASSUME NEW d \in Deliveries, Claim(d) \/ ClaimLost(d) \/ Rest(d) \/ Work(d) PROVE LedgerFrame
  <2>1. CASE \/ Claim(d) \/ ClaimLost(d) \/ Rest(d) \/ ReadForeign(d) \/ ReadOwned(d)
             \/ ReserveTooEarly(d) \/ ReserveWithoutQuota(d) \/ ReserveFromTable(d) \/ Adopt(d)
             \/ Unreserve(d)
    BY <1>1, <2>1 DEF Claim, ClaimLost, Rest, ReadForeign, ReadOwned, ReserveTooEarly, Unreserve,
                      ReserveWithoutQuota, ReserveFromTable, Adopt, db
  <2>2. CASE RunnerStep(d)
    BY <1>1, <1>2, <2>2
       DEF RunnerStep, CleanOutputs, StartAttempt, NoCandidate, ProviderRefuses, StreamBreaks,
           ChatAnswers, StoreOutput, UndoOutputs, FailAttempt, SucceedAttempt, MarkReconciling, db
  <2>3. CASE SettleStep(d)
    BY <1>1, <2>3 DEF SettleStep, SettleNonChat, CommitSettlement, CommitUnacknowledged,
                      Verify, Book, Finish, db
  <2>4. CASE ErrorStep(d) \/ Die(d)
    BY <1>1, <2>4 DEF ErrorStep, CatchForeign, CatchCancelled, CatchOwned, ReleaseForRetry,
                      Remark, FailJob, DatabaseFails, Die, db
  <2>. QED
    BY <1>6, <2>1, <2>2, <2>3, <2>4 DEF Work
<1>7. CASE Environment
  BY <1>1, <1>3, <1>7
     DEF Environment, Cancel, RecoverStaleLease, Expire, RecoverTerminal, CloseStep, CloseFails,
         Publish, Inspect, ReleaseHold, RecordRefund, CloseSettlement, CleanTerminal, db
<1>8. CASE UNCHANGED vars
  BY <1>1, <1>8 DEF vars
<1>. QED
  BY <1>6, <1>7, <1>8 DEF Next

-----------------------------------------------------------------------------
(***************************************************************************)
(* The error path of the request gives back at most the cost of the job on *)
(* top of what it took, because credits that it gives back were spent, and *)
(* what a closing gives back was outstanding, and nothing is spent after.  *)
(***************************************************************************)
RefundInv ==
    /\ ledger.spend \in {0, Cost} /\ ledger.enqueue \in {0, Cost} /\ ledger.back <= Cost
    /\ ledger.enqueue > 0 \/ creator.spent => ledger.spend = Cost
    /\ creator.pc = "refund" => creator.spent
    /\ \A c \in Closers : closer[c].pc \in {"inspect", "refund"} => job.status \in Failed
    /\ ledger.refund > 0 => job.status \in Failed /\ ledger.back + ledger.refund <= Taken

\* Only the closing of a failed job comes to look at its ledger.
LEMMA ClosingIsOfFailed ==
    ASSUME TypeOK, [Next]_vars, RowFrame,
           \A c \in Closers : closer[c].pc \in {"inspect", "refund"} => job.status \in Failed
    PROVE  \A c \in Closers : closer'[c].pc \in {"inspect", "refund"} => job'.status \in Failed
<1>. DEFINE Inside(f) == f.pc \in {"inspect", "refund"}
<1>c. closer \in [Closers -> CloserType] /\ job \in JobType
  BY DEF TypeOK
<1>n. NoClose.pc = "idle" /\ Deliveries \subseteq Closers /\ Api \in Closers /\ Recoverers \subseteq Closers
  BY DEF NoClose, Closers, Handlers
<1>1. SUFFICES ASSUME NEW c \in Closers, closer'[c].pc \in {"inspect", "refund"},
                      closer[c].pc \notin {"inspect", "refund"}
               PROVE  job'.status \in Failed
  BY DEF RowFrame
<1>2. CASE closer' = closer
  BY <1>1, <1>2
<1>3. ASSUME NEW f \in Closers, NEW row, row.pc \notin {"inspect", "refund"},
             closer' = [closer EXCEPT ![f] = row]
      PROVE  FALSE
  BY <1>1, <1>3, <1>c
<1>4. ASSUME NEW f \in Closers, NEW label, label \notin {"inspect", "refund"}, GotoClose(f, label)
      PROVE  FALSE
  BY <1>1, <1>4, <1>c DEF GotoClose, CloserType
<1>5. ASSUME NEW f \in Closers, NEW b, StopClose(f, b) PROVE FALSE
  BY <1>3, <1>5, <1>n DEF StopClose
<1>6. ASSUME NEW f \in Closers, NEW x, LeaveClose(f, x) PROVE FALSE
  BY <1>4, <1>5, <1>6 DEF LeaveClose
<1>7. ASSUME NEW f \in Closers, NEW reason, BeginClose(f, reason) PROVE FALSE
  <2>1. [NoClose EXCEPT !.pc = "publish", !.reason = reason].pc = "publish"
    BY DEF NoClose
  <2>. QED
    BY <1>3, <1>7, <2>1 DEF BeginClose
<1>8. ASSUME NEW f \in Closers, Publish(f) PROVE job'.status \in Failed
  <2>1. closer[f].reason \in Failed
    BY <1>c DEF CloserType
  <2>2. job.status = closer[f].reason
    BY <1>6, <1>8 DEF Publish
  <2>. QED
    BY <2>1, <2>2 DEF RowFrame
<1>9. ASSUME NEW f \in Closers, Inspect(f) PROVE job'.status \in Failed
  <2>1. closer[f].pc = "inspect"
    BY <1>9 DEF Inspect
  <2>. QED
    BY <2>1 DEF RowFrame
<1>10. ASSUME NEW f \in Closers, RefundOutstanding(f) PROVE job'.status \in Failed
  <2>1. closer[f].pc = "refund"
    BY <1>10 DEF RefundOutstanding
  <2>. QED
    BY <2>1 DEF RowFrame
<1>11. ASSUME NEW f \in Closers, ReleaseHold(f) PROVE FALSE
  <2>1. closer[f].pc = "release"
    BY <1>11 DEF ReleaseHold
  <2>2. CASE GotoClose(f, "close")
    BY <1>4, <2>2
  <2>3. ASSUME NEW s, closer' = [closer EXCEPT ![f].refs = @ \ {s}] PROVE FALSE
    BY <1>1, <1>c, <2>1, <2>3 DEF CloserType
  <2>. QED
    BY <1>11, <2>2, <2>3 DEF ReleaseHold
<1>12. ASSUME NEW f \in Closers, CloseStep(f) \/ CloseFails(f) PROVE job'.status \in Failed
  BY <1>4, <1>5, <1>6, <1>8, <1>9, <1>10, <1>11, <1>12
     DEF CloseStep, CloseFails, RecordRefund, CloseSettlement, CleanTerminal
<1>13. ASSUME NEW d \in Deliveries, Claim(d) \/ ClaimLost(d) \/ Rest(d) \/ Work(d)
       PROVE  job'.status \in Failed
  <2>1. CASE ReadForeign(d) \/ CatchCancelled(d) \/ FailJob(d) \/ Die(d)
    BY <1>2, <1>3, <1>7, <1>n, <2>1 DEF ReadForeign, CatchCancelled, FailJob, Die
  <2>2. CASE \/ Claim(d) \/ ClaimLost(d) \/ Rest(d) \/ ReadOwned(d)
             \/ ReserveTooEarly(d) \/ ReserveWithoutQuota(d) \/ ReserveFromTable(d) \/ Adopt(d)
             \/ Unreserve(d)
    BY <1>2, <2>2 DEF Claim, ClaimLost, Rest, ReadOwned, ReserveTooEarly, Unreserve,
                      ReserveWithoutQuota, ReserveFromTable, Adopt
  <2>3. CASE RunnerStep(d)
    BY <1>2, <2>3
       DEF RunnerStep, CleanOutputs, StartAttempt, NoCandidate, ProviderRefuses, StreamBreaks,
           ChatAnswers, StoreOutput, UndoOutputs, FailAttempt, SucceedAttempt, MarkReconciling, Adjust
  <2>4. CASE SettleStep(d)
    BY <1>2, <2>4 DEF SettleStep, SettleNonChat, CommitSettlement, CommitUnacknowledged,
                      Verify, Book, Finish
  <2>5. CASE ErrorStep(d)
    BY <1>2, <2>1, <2>5 DEF ErrorStep, CatchForeign, CatchOwned, ReleaseForRetry, Remark, DatabaseFails
  <2>. QED
    BY <1>13, <2>1, <2>2, <2>3, <2>4, <2>5 DEF Work
<1>14. CASE Environment
  BY <1>2, <1>7, <1>12, <1>14, <1>n DEF Environment, Cancel, RecoverStaleLease, Expire, RecoverTerminal
<1>15. CASE UNCHANGED vars
  BY <1>2, <1>15 DEF vars
<1>. QED
  BY <1>13, <1>14, <1>15 DEF Next

\* The credits of a row, as numbers.
LEMMA LedgerNumbers ==
    ASSUME TypeOK
    PROVE  /\ ledger \in LedgerType /\ Cost \in Nat
           /\ ledger.spend \in Nat /\ ledger.extra \in Nat /\ ledger.back \in Nat
           /\ ledger.refund \in Nat /\ ledger.enqueue \in Nat
BY BoundAssumption DEF TypeOK, LedgerType

LEMMA RefundJobStep == CreationTypeOK /\ RefundInv /\ [Next]_vars /\ UNCHANGED creator => RefundInv'
<1>. SUFFICES ASSUME CreationTypeOK, RefundInv, [Next]_vars, UNCHANGED creator PROVE RefundInv'
  OBVIOUS
<1>t. TypeOK /\ RowFrame /\ LedgerFrame
  BY JobRowFrame, JobLedgerFrame DEF CreationTypeOK
<1>n. /\ ledger \in LedgerType /\ Cost \in Nat
      /\ ledger.spend \in Nat /\ ledger.extra \in Nat /\ ledger.back \in Nat
      /\ ledger.refund \in Nat /\ ledger.enqueue \in Nat
  BY <1>t, LedgerNumbers
<1>c. \A c \in Closers : closer'[c].pc \in {"inspect", "refund"} => job'.status \in Failed
  BY <1>t, ClosingIsOfFailed DEF RefundInv
<1>f. job.status \in Failed => job'.status \in Failed
  BY <1>t DEF RowFrame
<1>1. CASE ledger' = ledger
  BY <1>1, <1>c, <1>f DEF RefundInv, Taken
<1>2. ASSUME NEW d \in Deliveries, HoldsLease(d),
             \/ \E n \in 1..MaxExtra : ledger' = [ledger EXCEPT !.extra = n]
             \/ \E n \in 1..Cost     : ledger' = [ledger EXCEPT !.back = n]
      PROVE  RefundInv'
  <2>1. /\ ledger'.spend = ledger.spend /\ ledger'.enqueue = ledger.enqueue
        /\ ledger'.refund = ledger.refund /\ ledger'.back \in {ledger.back} \cup 1..Cost
    BY <1>2, <1>n DEF LedgerType
  <2>2. ~(ledger.refund > 0)
    BY <1>2 DEF RefundInv, HoldsLease, Failed
  <2>3. ledger'.back <= Cost
    BY <1>n, <2>1 DEF RefundInv
  <2>. QED
    BY <1>c, <2>1, <2>2, <2>3 DEF RefundInv
<1>3. ASSUME NEW c \in Closers, closer[c].pc = "refund",
             ledger' = [ledger EXCEPT !.refund = IF ledger.refund > 0 THEN ledger.refund ELSE Outstanding]
      PROVE  RefundInv'
  <2>1. PICK amount : amount = IF ledger.refund > 0 THEN ledger.refund ELSE Outstanding
    OBVIOUS
  <2>2. /\ ledger'.spend = ledger.spend /\ ledger'.enqueue = ledger.enqueue
        /\ ledger'.extra = ledger.extra /\ ledger'.back = ledger.back /\ ledger'.refund = amount
    BY <1>3, <1>n, <2>1 DEF LedgerType
  <2>3. job'.status \in Failed
    BY <1>3, <1>f DEF RefundInv
  <2>4. amount > 0 => ledger.back + amount <= Taken
    BY <1>n, <2>1 DEF RefundInv, Outstanding, Taken, Given
  <2>5. Taken' = Taken
    BY <2>2 DEF Taken
  <2>. QED
    BY <1>c, <2>2, <2>3, <2>4, <2>5 DEF RefundInv
<1>. QED
  BY <1>1, <1>2, <1>3, <1>t DEF LedgerFrame

\* Beside Spend and RefundAll the request writes no entry, and it fails a job
\* but never revives one.
LEMMA RequestLedger ==
    ASSUME CreationTypeOK, CreateStep, ~Spend, ~RefundAll
    PROVE  /\ ledger' = ledger /\ closer' = closer /\ creator'.spent = creator.spent
           /\ creator'.pc = "refund" => creator.spent
           /\ job.status \in Failed => job'.status \in Failed
<1>1. creator \in CreatorType /\ job \in JobType
  BY DEF CreationTypeOK, CreatorType, TypeOK
<1>2. \A label \in CreatorPC : GotoCreate(label) => creator'.pc = label /\ creator'.spent = creator.spent
  BY <1>1, GotoCreateType
<1>l. CreatorPC = {"hold", "giveback", "update", "spend", "mark", "queue", "fail", "refund", "release",
                   "close", "over"}
  BY DEF CreatorPC
<1>3. CASE HoldScope \/ GiveBack \/ ReleaseHeld \/ ListHolds
  <2>1. /\ ledger' = ledger /\ closer' = closer /\ job' = job
        /\ creator.pc \in {"hold", "giveback", "close", "release"}
    BY <1>3 DEF HoldScope, GiveBack, ReleaseHeld, ListHolds, vars
  <2>2. creator'.spent = creator.spent /\ creator'.pc \in {creator.pc, "fail", "update", "close"}
    BY <1>1, <1>2, <1>3, <1>l DEF HoldScope, GiveBack, ReleaseHeld, ListHolds, CreatorType
  <2>. QED
    BY <2>1, <2>2
<1>4. CASE \/ AllHeld \/ QuotaExhausted \/ AddToQueue \/ Abandon
           \/ \E label \in {"hold", "giveback", "update", "spend", "mark", "queue"} : CreateFails(label)
  <2>1. UNCHANGED vars /\ \E label \in CreatorPC \ {"refund"} : GotoCreate(label)
    BY <1>4, <1>l DEF AllHeld, QuotaExhausted, AddToQueue, Abandon, CreateFails
  <2>. QED
    BY <1>2, <2>1 DEF vars
<1>5. CASE UpdateOptions \/ MarkReserved \/ WriteSettlement
  <2>1. \E label \in CreatorPC \ {"refund"} : GotoCreate(label)
    BY <1>5, <1>l DEF UpdateOptions, MarkReserved, WriteSettlement
  <2>2. ledger' = ledger /\ closer' = closer /\ job'.status = job.status
    BY <1>1, <1>5 DEF UpdateOptions, MarkReserved, WriteSettlement, JobType
  <2>. QED
    BY <1>2, <2>1, <2>2
<1>6. CASE FailQueued
  <2>1. GotoCreate(IF creator.spent THEN "refund" ELSE "release")
    BY <1>6 DEF FailQueued
  <2>2. ledger' = ledger /\ closer' = closer /\ (job.status \in Failed => job' = job)
    BY <1>6 DEF FailQueued, Failed
  <2>. QED
    BY <1>2, <1>l, <2>1, <2>2
<1>. QED
  BY <1>3, <1>4, <1>5, <1>6 DEF CreateStep

LEMMA RefundRequestStep == CreationTypeOK /\ RefundInv /\ CreateStep => RefundInv'
<1>. SUFFICES ASSUME CreationTypeOK, RefundInv, CreateStep PROVE RefundInv'
  OBVIOUS
<1>t. TypeOK /\ creator \in CreatorType
  BY DEF CreationTypeOK, CreatorType
<1>n. /\ ledger \in LedgerType /\ Cost \in Nat
      /\ ledger.spend \in Nat /\ ledger.extra \in Nat /\ ledger.back \in Nat
      /\ ledger.refund \in Nat /\ ledger.enqueue \in Nat
  BY <1>t, LedgerNumbers
<1>1. CASE ~Spend /\ ~RefundAll
  BY <1>1, RequestLedger DEF RefundInv, Taken
<1>2. CASE Spend
  <2>1. /\ ledger' = [ledger EXCEPT !.spend = Cost] /\ UNCHANGED <<job, closer>>
        /\ job.status \notin Failed /\ creator.pc = "spend"
    BY <1>2 DEF Spend, Spendable, Failed
  <2>2. /\ ledger'.spend = Cost /\ ledger'.enqueue = ledger.enqueue
        /\ ledger'.back = ledger.back /\ ledger'.refund = ledger.refund
    BY <1>n, <2>1 DEF LedgerType
  <2>3. creator'.pc \in {"mark", "fail"}
    BY <1>2, <1>t DEF Spend, GotoCreate, CreatorType
  <2>. QED
    BY <2>1, <2>2, <2>3 DEF RefundInv
<1>3. CASE RefundAll
  <2>1. /\ creator.pc = "refund" /\ UNCHANGED <<job, closer>>
        /\ ledger' \in {ledger, [ledger EXCEPT !.enqueue = Cost]}
    BY <1>3 DEF RefundAll
  <2>2. /\ ledger'.spend = ledger.spend /\ ledger'.enqueue \in {ledger.enqueue, Cost}
        /\ ledger'.extra = ledger.extra
        /\ ledger'.back = ledger.back /\ ledger'.refund = ledger.refund
    BY <1>n, <2>1 DEF LedgerType
  <2>3. creator'.pc \in {"release", "over"}
    BY <1>3, <1>t DEF RefundAll, GotoCreate, CreatorType
  <2>4. creator.spent /\ ledger.spend = Cost
    BY <2>1 DEF RefundInv
  <2>5. Taken' = Taken
    BY <2>2 DEF Taken
  <2>. QED
    BY <2>1, <2>2, <2>3, <2>4, <2>5 DEF RefundInv
<1>. QED
  BY <1>1, <1>2, <1>3

LEMMA RefundInit == CreateInit => RefundInv
<1>. SUFFICES ASSUME CreateInit PROVE RefundInv
  OBVIOUS
<1>1. Cost \in Nat
  BY BoundAssumption
<1>2. /\ ledger.spend = 0 /\ ledger.enqueue = 0 /\ ledger.back = 0 /\ ledger.refund = 0
      /\ ~creator.spent /\ creator.pc # "refund" /\ \A c \in Closers : closer[c].pc = "idle"
  BY DEF CreateInit, NoLedger, NewCreator, NoClose
<1>. QED
  BY <1>1, <1>2 DEF RefundInv

\* However the request, the cancellation and the recovery pass race, and
\* whichever statements fail, the user is at most the cost of the job ahead.
THEOREM OverRefundIsBoundedCorrect == CreateSpec => []OverRefundIsBounded
<1>1. CreationTypeOK /\ RefundInv /\ [CreateNext]_createVars => RefundInv'
  BY RefundJobStep, RefundRequestStep DEF CreateNext, createVars
<1>2. CreationTypeOK /\ RefundInv => OverRefundIsBounded
  <2>. SUFFICES ASSUME TypeOK, RefundInv PROVE OverRefundIsBounded
    BY DEF CreationTypeOK
  <2>1. CASE ledger.refund > 0
    BY <2>1, LedgerNumbers DEF RefundInv, OverRefundIsBounded, Given, Taken
  <2>2. CASE ~(ledger.refund > 0)
    BY <2>2, LedgerNumbers DEF RefundInv, OverRefundIsBounded, Given, Taken
  <2>. QED
    BY <2>1, <2>2
<1>. QED
  BY <1>1, <1>2, CreationTypeInit, CreationTypeStep, RefundInit, PTL DEF CreateSpec

-----------------------------------------------------------------------------
(***************************************************************************)
(* A job that succeeded on a quota was charged to every scope.  The row    *)
(* can only lose its quota, while its request falls back to credits; a     *)
(* delivery that settles without one has read a row without one; and a     *)
(* settled hold stays settled whoever releases it.                         *)
(***************************************************************************)
Paid == \A s \in Scopes : resv[s] = "SETTLED"

\* Where a delivery relies on what it read of the row.
Snapshot == {"reserve", "adopt", "clean", "start", "call", "undo", "refused", "accept", "mark",
             "adjust", "settle", "commit"}

RowPaid == job.quota /\ (job.settlement = "SETTLED" \/ job.status = "SUCCEEDED") => Paid

DeliveryPaid(d) ==
    /\ worker[d].pc \in Snapshot /\ ~worker[d].quota => ~job.quota
    /\ worker[d].pc \in {"book", "finish"} /\ job.quota => Paid

PaidInv == RowPaid /\ \A d \in Deliveries : DeliveryPaid(d)

\* The request rewrites the quota of a row that still has it.
RequestQuota == creator.pc \in {"hold", "giveback", "update"} => job.quota

\* A row that is settled or succeeded after a step was so before it, or the
\* step settled its holds or came from a delivery that saw them settled.
LEMMA StepPays ==
    ASSUME PaidInv, HoldsFrame, job'.quota => job.quota,
           job'.quota => \/ job'.settlement # "SETTLED" \/ job.settlement = "SETTLED" \/ Paid',
           job'.quota => \/ job'.status # "SUCCEEDED" \/ job.status = "SUCCEEDED" \/ Paid',
           \A d \in Deliveries : \/ worker'[d] = worker[d]
                                 \/ DeliveryPaid(d)'
    PROVE  PaidInv'
<1>1. Paid => Paid'
  BY DEF Paid, HoldsFrame
<1>2. RowPaid'
  BY <1>1 DEF PaidInv, RowPaid
<1>3. ASSUME NEW d \in Deliveries PROVE DeliveryPaid(d)'
  <2>1. CASE worker'[d] = worker[d]
    BY <1>1, <2>1 DEF PaidInv, DeliveryPaid
  <2>. QED
    BY <2>1
<1>. QED
  BY <1>2, <1>3 DEF PaidInv

\* A delivery that goes to a label.
LEMMA MovePays ==
    ASSUME TypeOK, PaidInv, RowFrame, HoldsFrame, NEW d \in Deliveries, NEW row,
           worker' = [worker EXCEPT ![d] = row],
           row.pc \in Snapshot /\ ~row.quota => ~job.quota,
           row.pc \in {"book", "finish"} => job.settlement = "SETTLED" \/ worker[d].pc = "book",
           \/ job'.settlement # "SETTLED" \/ job.settlement = "SETTLED" \/ (job.quota => Paid'),
           \/ job'.status # "SUCCEEDED" \/ job.status = "SUCCEEDED" \/ worker[d].pc = "finish"
    PROVE  PaidInv'
<1>1. worker'[d] = row /\ \A e \in Deliveries : e # d => worker'[e] = worker[e]
  BY DEF TypeOK
<1>2. job'.quota = job.quota
  BY DEF RowFrame
<1>3. Paid => Paid'
  BY DEF Paid, HoldsFrame
<1>4. job.quota /\ (job.settlement = "SETTLED" \/ worker[d].pc \in {"book", "finish"}) => Paid
  BY DEF PaidInv, RowPaid, DeliveryPaid
<1>5. DeliveryPaid(d)'
  BY <1>1, <1>2, <1>3, <1>4 DEF DeliveryPaid
<1>. QED
  BY <1>1, <1>2, <1>3, <1>4, <1>5, StepPays

\* A delivery that goes on, raises an error or ends.
LEMMA GotoPays ==
    ASSUME TypeOK, PaidInv, RowFrame, HoldsFrame, NEW d \in Deliveries, NEW label, Goto(d, label),
           label \in Snapshot => worker[d].pc \in Snapshot,
           label \in {"book", "finish"} => job.settlement = "SETTLED" \/ worker[d].pc = "book",
           \/ job'.settlement # "SETTLED" \/ job.settlement = "SETTLED" \/ (job.quota => Paid'),
           \/ job'.status # "SUCCEEDED" \/ job.status = "SUCCEEDED" \/ worker[d].pc = "finish"
    PROVE  PaidInv'
<1>. DEFINE row == [worker[d] EXCEPT !.pc = label]
<1>1. row.pc = label /\ row.quota = worker[d].quota
  BY DEF TypeOK, WorkerType
<1>2. worker' = [worker EXCEPT ![d] = row]
  BY DEF Goto
<1>3. row.pc \in Snapshot /\ ~row.quota => ~job.quota
  BY <1>1 DEF PaidInv, DeliveryPaid
<1>. HIDE DEF row
<1>. QED
  BY <1>1, <1>2, <1>3, MovePays

\* A delivery at a place where it relies on nothing.
LEMMA QuietPays ==
    ASSUME TypeOK, PaidInv, RowFrame, HoldsFrame, NEW d \in Deliveries, NEW row,
           worker' = [worker EXCEPT ![d] = row], row.pc \notin Snapshot \cup {"book", "finish"},
           \/ job'.settlement # "SETTLED" \/ job.settlement = "SETTLED" \/ (job.quota => Paid'),
           \/ job'.status # "SUCCEEDED" \/ job.status = "SUCCEEDED" \/ worker[d].pc = "finish"
    PROVE  PaidInv'
BY MovePays

LEMMA RaisePays ==
    ASSUME TypeOK, PaidInv, RowFrame, HoldsFrame, NEW d \in Deliveries, NEW error, Raise(d, error),
           \/ job'.settlement # "SETTLED" \/ job.settlement = "SETTLED" \/ (job.quota => Paid'),
           job'.status = job.status
    PROVE  PaidInv'
<1>1. [Idle EXCEPT !.pc = "catch", !.version = worker[d].version, !.error = error].pc = "catch"
  BY DEF Idle
<1>. QED
  BY <1>1, QuietPays DEF Raise, Snapshot

LEMMA EndPays ==
    ASSUME TypeOK, PaidInv, RowFrame, HoldsFrame, NEW d \in Deliveries, NEW label, End(d, label),
           label \notin Snapshot \cup {"book", "finish"},
           \/ job'.settlement # "SETTLED" \/ job.settlement = "SETTLED",
           \/ job'.status # "SUCCEEDED" \/ job.status = "SUCCEEDED" \/ worker[d].pc = "finish"
    PROVE  PaidInv'
<1>1. [Idle EXCEPT !.pc = label].pc = label
  BY DEF Idle
<1>. QED
  BY <1>1, QuietPays DEF End

\* Nobody delivers.
LEMMA OthersPay ==
    ASSUME PaidInv, RowFrame, HoldsFrame, worker' = worker,
           job'.settlement # "SETTLED" \/ job.settlement = "SETTLED",
           job'.status # "SUCCEEDED" \/ job.status = "SUCCEEDED"
    PROVE  PaidInv'
<1>1. job'.quota = job.quota
  BY DEF RowFrame
<1>. QED
  BY <1>1, StepPays

LEMMA ReadPays ==
    ASSUME TypeOK, PaidInv, RowFrame, HoldsFrame, NEW d \in Deliveries,
           Claim(d) \/ ClaimLost(d) \/ Rest(d) \/ ReadForeign(d) \/ ReadOwned(d) \/ Die(d)
    PROVE  PaidInv'
<1>t. job \in JobType /\ worker[d] \in WorkerType
  BY DEF TypeOK
<1>1. CASE Claim(d)
  <2>1. job'.settlement = job.settlement /\ job'.status = "RUNNING"
    BY <1>1, <1>t DEF Claim, JobType
  <2>2. [Idle EXCEPT !.pc = "read", !.started = TRUE].pc = "read"
    BY DEF Idle
  <2>. QED
    BY <1>1, <2>1, <2>2, QuietPays DEF Claim, Snapshot
<1>2. CASE ClaimLost(d)
  <2>1. [Idle EXCEPT !.pc = "read"].pc = "read"
    BY DEF Idle
  <2>. QED
    BY <1>2, <2>1, QuietPays DEF ClaimLost, Snapshot, db
<1>3. CASE Rest(d)
  BY <1>3, EndPays DEF Rest, Snapshot, db
<1>4. CASE ReadForeign(d)
  <2>1. [Idle EXCEPT !.pc = "closing"].pc = "closing"
    BY DEF Idle
  <2>2. job' = job /\ (worker' = [worker EXCEPT ![d] = [Idle EXCEPT !.pc = "closing"]]
                       \/ End(d, "returned"))
    BY <1>4 DEF ReadForeign, db
  <2>. QED
    BY <2>1, <2>2, EndPays, QuietPays DEF Snapshot
<1>5. CASE ReadOwned(d)
  <2>. DEFINE row == [worker[d] EXCEPT !.pc = AfterRead, !.version = job.leaseVersion,
                                       !.quota = job.quota, !.pending = job.settlement = "PENDING"]
  <2>1. worker' = [worker EXCEPT ![d] = row] /\ job' = job
    BY <1>5 DEF ReadOwned, db
  <2>2. row.pc = AfterRead /\ row.quota = job.quota
    BY <1>t DEF WorkerType
  <2>3. AfterRead \notin {"book", "finish"}
    BY DEF AfterRead
  <2>. HIDE DEF row
  <2>. QED
    BY <2>1, <2>2, <2>3, MovePays
<1>6. CASE Die(d)
  <2>1. Idle.pc = "idle"
    BY DEF Idle
  <2>. QED
    BY <1>6, <2>1, QuietPays DEF Die, Snapshot, db
<1>. QED
  BY <1>1, <1>2, <1>3, <1>4, <1>5, <1>6

LEMMA ReservePays ==
    ASSUME TypeOK, PaidInv, RowFrame, HoldsFrame, NEW d \in Deliveries,
           \/ ReserveTooEarly(d) \/ ReserveWithoutQuota(d) \/ ReserveFromTable(d)
           \/ Adopt(d) \/ Unreserve(d)
    PROVE  PaidInv'
<1>t. job \in JobType /\ worker[d] \in WorkerType
  BY DEF TypeOK
<1>1. CASE ReserveTooEarly(d)
  BY <1>1, RaisePays DEF ReserveTooEarly, db
<1>2. CASE ReserveWithoutQuota(d)
  BY <1>2, RaisePays, GotoPays DEF ReserveWithoutQuota, RunnerStart, Snapshot, db
<1>3. CASE ReserveFromTable(d)
  <2>1. job' = job /\ worker[d].quota
    BY <1>3 DEF ReserveFromTable, db
  <2>2. CASE worker' = [worker EXCEPT ![d] = [worker[d] EXCEPT !.pc = "adopt", !.pending = FALSE]]
    <3>1. /\ [worker[d] EXCEPT !.pc = "adopt", !.pending = FALSE].pc = "adopt"
          /\ [worker[d] EXCEPT !.pc = "adopt", !.pending = FALSE].quota
      BY <1>t, <2>1 DEF WorkerType
    <3>. QED
      BY <2>1, <2>2, <3>1, MovePays
  <2>3. ASSUME NEW refs,
               worker' = [worker EXCEPT ![d] = [worker[d] EXCEPT !.pc = "unreserve", !.pending = FALSE,
                                                                  !.refs = refs]]
        PROVE  PaidInv'
    <3>1. [worker[d] EXCEPT !.pc = "unreserve", !.pending = FALSE, !.refs = refs].pc = "unreserve"
      BY <1>t DEF WorkerType
    <3>. QED
      BY <2>1, <2>3, <3>1, QuietPays DEF Snapshot
  <2>4. worker \in [Deliveries -> WorkerType]
    BY DEF TypeOK
  <2>5. \/ worker' = [worker EXCEPT ![d] = [worker[d] EXCEPT !.pc = "adopt", !.pending = FALSE]]
        \/ Raise(d, "terminal")
        \/ \E refs : worker' = [worker EXCEPT ![d] = [worker[d] EXCEPT !.pc = "unreserve",
                                                         !.pending = FALSE, !.refs = refs]]
    BY <1>3, <2>4 DEF ReserveFromTable
  <2>. QED
    BY <2>1, <2>2, <2>3, <2>5, RaisePays
<1>4. CASE Adopt(d)
  <2>1. \/ job' = [job EXCEPT !.settlement = "RESERVED"] /\ Goto(d, RunnerStart)
        \/ Raise(d, "cancelled") /\ job' = job
    BY <1>4 DEF Adopt
  <2>2. job'.status = job.status /\ job'.settlement \in {job.settlement, "RESERVED"}
    BY <1>t, <2>1 DEF JobType
  <2>. QED
    BY <1>4, <2>1, <2>2, RaisePays, GotoPays DEF Adopt, RunnerStart, Snapshot
<1>5. CASE Unreserve(d)
  <2>1. job' = job /\ worker[d].pc = "unreserve"
    BY <1>5 DEF Unreserve
  <2>2. ASSUME NEW refs, worker' = [worker EXCEPT ![d] = [worker[d] EXCEPT !.refs = refs]]
        PROVE  PaidInv'
    <3>1. [worker[d] EXCEPT !.refs = refs].pc = "unreserve"
      BY <1>t, <2>1 DEF WorkerType
    <3>. QED
      BY <2>1, <2>2, <3>1, QuietPays DEF Snapshot
  <2>3. \/ Raise(d, "terminal")
        \/ \E refs : worker' = [worker EXCEPT ![d] = [worker[d] EXCEPT !.refs = refs]]
    BY <1>5 DEF Unreserve, TypeOK
  <2>. QED
    BY <2>1, <2>2, <2>3, RaisePays
<1>. QED
  BY <1>1, <1>2, <1>3, <1>4, <1>5

LEMMA RunnerPays ==
    ASSUME TypeOK, PaidInv, RowFrame, HoldsFrame, NEW d \in Deliveries, RunnerStep(d)
    PROVE  PaidInv'
<1>t. job \in JobType /\ worker[d] \in WorkerType /\ worker \in [Deliveries -> WorkerType]
  BY DEF TypeOK
<1>g. ASSUME NEW row, worker' = [worker EXCEPT ![d] = row], row.quota = worker[d].quota,
             worker[d].pc \in Snapshot, row.pc \notin {"book", "finish"}, job' = job
      PROVE  PaidInv'
  <2>1. row.pc \in Snapshot /\ ~row.quota => ~job.quota
    BY <1>g DEF PaidInv, DeliveryPaid
  <2>. QED
    BY <1>g, <2>1, MovePays
<1>1. CASE CleanOutputs(d)
  BY <1>1, RaisePays, GotoPays DEF CleanOutputs, Snapshot
<1>2. CASE StartAttempt(d)
  <2>1. job' = job /\ worker[d].pc = "start"
    BY <1>2 DEF StartAttempt
  <2>2. ASSUME NEW a, worker' = [worker EXCEPT ![d] = [worker[d] EXCEPT !.pc = "call", !.attempt = a,
                                                                        !.stored = 0]]
        PROVE  PaidInv'
    <3>1. /\ [worker[d] EXCEPT !.pc = "call", !.attempt = a, !.stored = 0].pc = "call"
          /\ [worker[d] EXCEPT !.pc = "call", !.attempt = a, !.stored = 0].quota = worker[d].quota
      BY <1>t DEF WorkerType
    <3>. QED
      BY <1>g, <2>1, <2>2, <3>1 DEF Snapshot
  <2>3. \/ \E error : Raise(d, error)
        \/ \E a : worker' = [worker EXCEPT ![d] = [worker[d] EXCEPT !.pc = "call", !.attempt = a,
                                                                    !.stored = 0]]
    BY <1>2, <1>t DEF StartAttempt
  <2>. QED
    BY <2>1, <2>2, <2>3, RaisePays
<1>3. CASE NoCandidate(d) \/ StreamBreaks(d)
  BY <1>3, RaisePays DEF NoCandidate, StreamBreaks, db
<1>4. CASE ChatAnswers(d)
  BY <1>4, GotoPays DEF ChatAnswers, Snapshot, db
<1>5. CASE ProviderRefuses(d)
  <2>. DEFINE label == IF Chat THEN "refused" ELSE "undo"
  <2>1. PICK error : worker' = [worker EXCEPT ![d] = [worker[d] EXCEPT !.pc = label, !.error = error]]
    BY <1>5, <1>t DEF ProviderRefuses
  <2>2. /\ [worker[d] EXCEPT !.pc = label, !.error = error].pc = label
        /\ [worker[d] EXCEPT !.pc = label, !.error = error].quota = worker[d].quota
    BY <1>t DEF WorkerType
  <2>3. label \notin {"book", "finish"} /\ job' = job /\ worker[d].pc = "call"
    BY <1>5 DEF ProviderRefuses, db
  <2>. HIDE DEF label
  <2>. QED
    BY <1>g, <2>1, <2>2, <2>3 DEF Snapshot
<1>6. CASE StoreOutput(d)
  <2>1. job' = job /\ worker[d].pc = "call"
    BY <1>6 DEF StoreOutput
  <2>2. CASE worker' = [worker EXCEPT ![d] = [worker[d] EXCEPT !.stored = worker[d].stored + 1]]
    <3>1. /\ [worker[d] EXCEPT !.stored = worker[d].stored + 1].pc = "call"
          /\ [worker[d] EXCEPT !.stored = worker[d].stored + 1].quota = worker[d].quota
      BY <1>t, <2>1 DEF WorkerType
    <3>. QED
      BY <1>g, <2>1, <2>2, <3>1 DEF Snapshot
  <2>3. CASE worker' = [worker EXCEPT ![d] = [worker[d] EXCEPT !.pc = "undo", !.error = "retriable"]]
    <3>1. /\ [worker[d] EXCEPT !.pc = "undo", !.error = "retriable"].pc = "undo"
          /\ [worker[d] EXCEPT !.pc = "undo", !.error = "retriable"].quota = worker[d].quota
      BY <1>t DEF WorkerType
    <3>. QED
      BY <1>g, <2>1, <2>3, <3>1 DEF Snapshot
  <2>4. CASE Goto(d, "accept")
    BY <2>1, <2>4, GotoPays DEF Snapshot
  <2>. QED
    BY <1>6, <1>t, <2>2, <2>3, <2>4 DEF StoreOutput
<1>7. CASE UndoOutputs(d)
  <2>1. job' = job /\ worker[d].pc = "undo"
    BY <1>7 DEF UndoOutputs
  <2>2. CASE worker' = [worker EXCEPT ![d] = [worker[d] EXCEPT !.pc = "refused", !.error = "reconcile"]]
    <3>1. /\ [worker[d] EXCEPT !.pc = "refused", !.error = "reconcile"].pc = "refused"
          /\ [worker[d] EXCEPT !.pc = "refused", !.error = "reconcile"].quota = worker[d].quota
      BY <1>t DEF WorkerType
    <3>. QED
      BY <1>g, <2>1, <2>2, <3>1 DEF Snapshot
  <2>3. CASE Goto(d, "refused")
    BY <2>1, <2>3, GotoPays DEF Snapshot
  <2>. QED
    BY <1>7, <1>t, <2>2, <2>3 DEF UndoOutputs
<1>8. CASE FailAttempt(d)
  <2>1. job' = job /\ worker[d].pc = "refused"
    BY <1>8 DEF FailAttempt
  <2>2. CASE worker' = [worker EXCEPT ![d] = [worker[d] EXCEPT !.pc = "start", !.error = "none",
                                                               !.attempt = None, !.stored = 0]]
    <3>1. /\ [worker[d] EXCEPT !.pc = "start", !.error = "none", !.attempt = None, !.stored = 0].pc = "start"
          /\ [worker[d] EXCEPT !.pc = "start", !.error = "none", !.attempt = None, !.stored = 0].quota
               = worker[d].quota
      BY <1>t DEF WorkerType
    <3>. QED
      BY <1>g, <2>1, <2>2, <3>1 DEF Snapshot
  <2>3. ASSUME NEW error, Raise(d, error) PROVE PaidInv'
    BY <2>1, <2>3, RaisePays
  <2>. QED
    BY <1>8, <1>t, <2>2, <2>3 DEF FailAttempt
<1>9. CASE SucceedAttempt(d)
  <2>1. job' = job /\ worker[d].pc = "accept"
    BY <1>9 DEF SucceedAttempt
  <2>2. CASE worker' = [worker EXCEPT ![d] = [worker[d] EXCEPT !.pc = "mark", !.attempt = None,
                                                               !.stored = 0]]
    <3>1. /\ [worker[d] EXCEPT !.pc = "mark", !.attempt = None, !.stored = 0].pc = "mark"
          /\ [worker[d] EXCEPT !.pc = "mark", !.attempt = None, !.stored = 0].quota = worker[d].quota
      BY <1>t DEF WorkerType
    <3>. QED
      BY <1>g, <2>1, <2>2, <3>1 DEF Snapshot
  <2>3. CASE Raise(d, "reconcile")
    BY <2>1, <2>3, RaisePays
  <2>. QED
    BY <1>9, <1>t, <2>2, <2>3 DEF SucceedAttempt
<1>10. CASE MarkReconciling(d)
  <2>1. \/ job' = [job EXCEPT !.settlement = "RECONCILING"] /\ Goto(d, IF Chat THEN "adjust" ELSE "settle")
        \/ Raise(d, "reconcile") /\ job' = job
    BY <1>10 DEF MarkReconciling
  <2>2. job'.status = job.status /\ job'.settlement \in {job.settlement, "RECONCILING"}
    BY <1>t, <2>1 DEF JobType
  <2>. QED
    BY <1>10, <2>1, <2>2, RaisePays, GotoPays DEF MarkReconciling, Snapshot
<1>11. CASE Adjust(d)
  <2>1. job' = job /\ worker[d].pc = "adjust" /\ (Goto(d, "commit") \/ Raise(d, "reconcile"))
    BY <1>11 DEF Adjust
  <2>. QED
    BY <2>1, RaisePays, GotoPays DEF Snapshot
<1>. QED
  BY <1>1, <1>2, <1>3, <1>4, <1>5, <1>6, <1>7, <1>8, <1>9, <1>10, <1>11 DEF RunnerStep

\* The settlement covers every scope, or was made for a row without a quota.
LEMMA SettlePays ==
    ASSUME TypeOK, PaidInv, RowFrame, HoldsFrame, NEW d \in Deliveries, SettleStep(d)
    PROVE  PaidInv'
<1>t. job \in JobType /\ worker[d] \in WorkerType
  BY DEF TypeOK
<1>1. CASE SettleNonChat(d)
  <2>. DEFINE now == IF job.settlement = "SETTLED" THEN "SETTLED" ELSE "RECONCILING"
  <2>1. /\ job' = [job EXCEPT !.settlement = now] \/ job' = job
        /\ Goto(d, "commit") \/ Raise(d, "terminal")
        /\ worker[d].pc = "settle"
    BY <1>1 DEF SettleNonChat
  <2>2. job'.status = job.status /\ job'.settlement \in {job.settlement, "RECONCILING"}
    BY <1>t, <2>1 DEF JobType
  <2>. QED
    BY <2>1, <2>2, RaisePays, GotoPays DEF Snapshot
<1>2. CASE CommitSettlement(d) \/ CommitUnacknowledged(d)
  <2>1. /\ worker[d].pc = "commit" /\ SettleGeneration(d)
        /\ Goto(d, "verify") \/ Raise(d, SettleError)
    BY <1>2 DEF CommitSettlement, CommitUnacknowledged
  <2>2. job'.status = job.status
    BY <1>t, <2>1 DEF SettleGeneration, JobType
  <2>3. job'.settlement # "SETTLED" \/ job.settlement = "SETTLED" \/ (job.quota => Paid')
    <3>1. CASE CanSettle(d)
      <4>1. resv' = IF worker[d].quota THEN [s \in Scopes |-> "SETTLED"] ELSE resv
        BY <2>1, <3>1 DEF SettleGeneration
      <4>2. job.quota => worker[d].quota
        BY <2>1 DEF PaidInv, DeliveryPaid, Snapshot
      <4>. QED
        BY <4>1, <4>2 DEF Paid
    <3>2. CASE ~CanSettle(d)
      BY <2>1, <3>2 DEF SettleGeneration
    <3>. QED
      BY <3>1, <3>2
  <2>. QED
    BY <2>1, <2>2, <2>3, RaisePays, GotoPays DEF Snapshot
<1>3. CASE Verify(d)
  <2>1. /\ job' = job
        /\ \/ \E error : Raise(d, error)
           \/ job.settlement = "SETTLED" /\ Goto(d, "book")
    BY <1>3 DEF Verify, db
  <2>. QED
    BY <2>1, RaisePays, GotoPays DEF Snapshot
<1>4. CASE Book(d)
  BY <1>4, GotoPays DEF Book, Snapshot
<1>5. CASE Finish(d)
  <2>1. /\ worker[d].pc = "finish"
        /\ \/ job' = [Unlocked(job) EXCEPT !.status = "SUCCEEDED"] /\ End(d, "returned")
           \/ Raise(d, "leaselost") /\ job' = job
    BY <1>5 DEF Finish
  <2>2. job'.settlement = job.settlement
    BY <1>t, <2>1 DEF Unlocked, JobType
  <2>. QED
    BY <2>1, <2>2, RaisePays, EndPays DEF Snapshot
<1>. QED
  BY <1>1, <1>2, <1>3, <1>4, <1>5 DEF SettleStep

LEMMA ErrorPays ==
    ASSUME TypeOK, PaidInv, RowFrame, HoldsFrame, NEW d \in Deliveries, ErrorStep(d)
    PROVE  PaidInv'
<1>t. job \in JobType /\ worker[d] \in WorkerType /\ worker \in [Deliveries -> WorkerType]
  BY DEF TypeOK
<1>r. ASSUME NEW status \in {"QUEUED", "FAILED"},
             job' \in {job, [Unlocked(job) EXCEPT !.status = status]}
      PROVE  /\ job'.status \in {job.status, status} /\ job'.settlement = job.settlement
             /\ job'.status # "SUCCEEDED" \/ job.status = "SUCCEEDED"
  BY <1>r, <1>t DEF Unlocked, JobType
<1>1. CASE CatchForeign(d)
  BY <1>1, EndPays DEF CatchForeign, Snapshot, db
<1>2. CASE CatchCancelled(d)
  <2>1. [Idle EXCEPT !.pc = "closing"].pc = "closing"
    BY DEF Idle
  <2>. QED
    BY <1>2, <2>1, QuietPays DEF CatchCancelled, Snapshot, db
<1>3. CASE CatchOwned(d)
  <2>1. PICK final \in BOOLEAN :
           worker' = [worker EXCEPT ![d] = [worker[d] EXCEPT !.pc = AfterCatch(d, final), !.last = final,
                                                             !.error = "none"]]
    BY <1>3, <1>t DEF CatchOwned
  <2>2. AfterCatch(d, final) \in {"threw", "release", "remark", "fail"}
    BY DEF AfterCatch
  <2>3. \A label : [worker[d] EXCEPT !.pc = label, !.last = final, !.error = "none"].pc = label
    BY <1>t DEF WorkerType
  <2>. DEFINE row == [worker[d] EXCEPT !.pc = AfterCatch(d, final), !.last = final, !.error = "none"]
  <2>4. worker' = [worker EXCEPT ![d] = row] /\ row.pc \notin Snapshot \cup {"book", "finish"}
    BY <2>1, <2>2, <2>3 DEF Snapshot
  <2>. HIDE DEF row
  <2>. QED
    BY <1>3, <2>4, QuietPays DEF CatchOwned, db
<1>4. CASE ReleaseForRetry(d)
  <2>1. End(d, "threw") /\ job' \in {job, [Unlocked(job) EXCEPT !.status = "QUEUED"]}
    BY <1>4 DEF ReleaseForRetry
  <2>. QED
    BY <1>r, <2>1, EndPays DEF Snapshot
<1>5. CASE Remark(d)
  <2>1. /\ worker[d].pc = "remark"
        /\ job' = job \/ job' = [job EXCEPT !.settlement = "RECONCILING"]
        /\ \/ \E label \in {"finalize", "release"} : Goto(d, label)
           \/ End(d, "threw")
    BY <1>5 DEF Remark
  <2>2. job'.status = job.status /\ job'.settlement \in {job.settlement, "RECONCILING"}
    BY <1>t, <2>1 DEF JobType
  <2>. QED
    BY <2>1, <2>2, GotoPays, EndPays DEF Snapshot
<1>6. CASE FailJob(d)
  <2>1. CASE HoldsLease(d)
    <3>1. PICK after \in {"returned", "threw"} :
             /\ job' = [Unlocked(job) EXCEPT !.status = "FAILED"]
             /\ worker' = [worker EXCEPT ![d] = [Idle EXCEPT !.pc = "closing", !.after = after]]
      BY <1>6, <2>1 DEF FailJob
    <3>2. [Idle EXCEPT !.pc = "closing", !.after = after].pc = "closing"
      BY DEF Idle
    <3>. QED
      BY <1>r, <3>1, <3>2, QuietPays DEF Snapshot
  <2>2. CASE ~HoldsLease(d)
    <3>1. job' = job /\ \E after \in {"returned", "threw"} : End(d, after)
      BY <1>6, <2>2 DEF FailJob
    <3>. QED
      BY <3>1, EndPays DEF Snapshot
  <2>. QED
    BY <2>1, <2>2
<1>7. CASE DatabaseFails(d)
  <2>1. job' = job /\ (End(d, "threw") \/ \E error : Raise(d, error))
    BY <1>7 DEF DatabaseFails, db
  <2>. QED
    BY <2>1, RaisePays, EndPays DEF Snapshot
<1>. QED
  BY <1>1, <1>2, <1>3, <1>4, <1>5, <1>6, <1>7 DEF ErrorStep

LEMMA ClosingPays ==
    ASSUME TypeOK, PaidInv, RowFrame, HoldsFrame, NEW c \in Closers, CloseStep(c) \/ CloseFails(c)
    PROVE  PaidInv'
<1>t. job \in JobType /\ worker \in [Deliveries -> WorkerType]
  BY DEF TypeOK
<1>1. job'.status = job.status /\ (job'.settlement # "SETTLED" \/ job.settlement = "SETTLED")
  <2>1. CASE job' = job
    BY <2>1
  <2>2. CASE Publish(c) \/ CloseSettlement(c)
    <3>1. \E x : /\ job' = [job EXCEPT !.settlement = x]
                 /\ x \in {job.settlement, "RECONCILING", "REFUNDED", "RELEASED"}
      BY <2>2 DEF Publish, CloseSettlement
    <3>. QED
      BY <1>t, <3>1 DEF JobType
  <2>. QED
    BY <2>1, <2>2 DEF CloseStep, CloseFails, Inspect, RefundOutstanding, RecordRefund, ReleaseHold,
                      CleanTerminal, db
<1>2. ASSUME NEW complete, StopClose(c, complete) PROVE PaidInv'
  <2>1. CASE c \notin Deliveries
    BY <1>1, <1>2, <2>1, OthersPay DEF StopClose
  <2>2. CASE c \in Deliveries
    <3>. DEFINE row == [Idle EXCEPT !.pc = IF complete THEN worker[c].after ELSE "threw"]
    <3>1. row.pc \in {"returned", "threw"}
      BY <1>t, <2>2 DEF Idle, WorkerType
    <3>2. worker' = [worker EXCEPT ![c] = row]
      BY <1>2, <2>2 DEF StopClose
    <3>. HIDE DEF row
    <3>. QED
      BY <1>1, <2>2, <3>1, <3>2, QuietPays DEF Snapshot
  <2>. QED
    BY <2>1, <2>2
<1>3. CASE worker' = worker
  BY <1>1, <1>3, OthersPay
<1>4. ASSUME NEW x, LeaveClose(c, x) PROVE PaidInv'
  BY <1>2, <1>3, <1>4 DEF LeaveClose
<1>. QED
  BY <1>2, <1>3, <1>4 DEF CloseStep, CloseFails, Publish, Inspect, RefundOutstanding, RecordRefund,
                          ReleaseHold, CloseSettlement, CleanTerminal

LEMMA EnvironmentPays ==
    ASSUME TypeOK, PaidInv, RowFrame, HoldsFrame, Environment
    PROVE  PaidInv'
<1>t. job \in JobType
  BY DEF TypeOK
<1>1. CASE Cancel \/ RecoverStaleLease \/ Expire
  <2>1. /\ worker' = worker
        /\ job'.settlement \in {job.settlement, "RECONCILING"}
        /\ job'.status \in {job.status, "CANCELLED", "QUEUED"}
    BY <1>1, <1>t DEF Cancel, RecoverStaleLease, Expire, Unlocked, JobType
  <2>. QED
    BY <2>1, OthersPay
<1>2. ASSUME NEW r \in Recoverers, RecoverTerminal(r) PROVE PaidInv'
  BY <1>2, OthersPay DEF RecoverTerminal, db
<1>. QED
  BY <1>1, <1>2, ClosingPays DEF Environment

LEMMA PaidJobStep == TypeOK /\ PaidInv /\ [Next]_vars => PaidInv'
<1>. SUFFICES ASSUME TypeOK, PaidInv, [Next]_vars PROVE PaidInv'
  OBVIOUS
<1>t. RowFrame /\ HoldsFrame
  BY JobRowFrame, JobHoldsFrame
<1>1. CASE UNCHANGED vars
  BY <1>t, <1>1, OthersPay DEF vars
<1>2. ASSUME NEW d \in Deliveries, Claim(d) \/ ClaimLost(d) \/ Rest(d) \/ Work(d) PROVE PaidInv'
  BY <1>t, <1>2, ReadPays, ReservePays, RunnerPays, SettlePays, ErrorPays DEF Work
<1>3. CASE Environment
  BY <1>t, <1>3, EnvironmentPays
<1>. QED
  BY <1>1, <1>2, <1>3 DEF Next

\* The request writes RESERVED, a closing or FAILED, never a success, and it
\* rewrites the quota only where the row still has it.
LEMMA PaidRequestStep ==
    ASSUME CreationTypeOK, PaidInv, RequestQuota, CreateStep
    PROVE  PaidInv' /\ RequestQuota'
<1>t. TypeOK /\ job \in JobType /\ creator \in CreatorType /\ resv \in [Scopes -> {"none", "RESERVED", "RELEASED", "SETTLED"}]
  BY DEF CreationTypeOK, TypeOK, CreatorType
<1>l. CreatorPC = {"hold", "giveback", "update", "spend", "mark", "queue", "fail", "refund", "release",
                   "close", "over"}
  BY DEF CreatorPC
<1>g. \A label \in CreatorPC : GotoCreate(label) => creator'.pc = label
  BY <1>t, GotoCreateType
<1>1. worker' = worker
  BY DEF CreateStep, HoldScope, AllHeld, QuotaExhausted, GiveBack, UpdateOptions, Spend, MarkReserved,
         AddToQueue, CreateFails, FailQueued, RefundAll, ListHolds, ReleaseHeld, WriteSettlement,
         Abandon, vars
<1>2. \A s \in Scopes : resv[s] = "SETTLED" => resv'[s] = "SETTLED"
  <2>1. CASE resv' = resv
    BY <2>1
  <2>2. CASE HoldScope
    BY <1>t, <2>2 DEF HoldScope
  <2>3. CASE GiveBack \/ ReleaseHeld
    <3>1. resv' = resv \/ \E s \in Scopes : ReleaseReservation(s)
      BY <1>t, <2>3 DEF GiveBack, ReleaseHeld, CreatorType
    <3>. QED
      BY <1>t, <2>1, <3>1, ReleaseType
  <2>. QED
    BY <2>1, <2>2, <2>3
       DEF CreateStep, AllHeld, QuotaExhausted, UpdateOptions, Spend, MarkReserved, AddToQueue,
           CreateFails, FailQueued, RefundAll, ListHolds, WriteSettlement, Abandon, vars
<1>3. /\ job'.quota => job.quota
      /\ job'.settlement # "SETTLED" \/ job.settlement = "SETTLED"
      /\ job'.status # "SUCCEEDED" \/ job.status = "SUCCEEDED"
      /\ UpdateOptions \/ job'.quota = job.quota
  <2>1. CASE job' = job
    BY <2>1
  <2>2. CASE UpdateOptions
    <3>1. job' = [job EXCEPT !.quota = creator.refs # {}] /\ job.quota
      BY <2>2 DEF UpdateOptions, RequestQuota
    <3>2. job'.settlement = job.settlement /\ job'.status = job.status
      BY <1>t, <3>1 DEF JobType
    <3>. QED
      BY <2>2, <3>1, <3>2
  <2>3. CASE MarkReserved \/ WriteSettlement
    <3>1. \E x \in {"RESERVED", "RECONCILING", "REFUNDED", "RELEASED"} :
             job' \in {job, [job EXCEPT !.settlement = x]}
      BY <2>3 DEF MarkReserved, WriteSettlement, ClosedAs
    <3>. QED
      BY <1>t, <3>1 DEF JobType
  <2>4. CASE FailQueued
    <3>1. job' \in {job, [Unlocked(job) EXCEPT !.status = "FAILED"]}
      BY <2>4 DEF FailQueued
    <3>. QED
      BY <1>t, <3>1 DEF JobType, Unlocked
  <2>. QED
    BY <2>1, <2>2, <2>3, <2>4
       DEF CreateStep, HoldScope, AllHeld, QuotaExhausted, GiveBack, Spend, AddToQueue,
           CreateFails, RefundAll, ListHolds, ReleaseHeld, Abandon, vars
<1>4. RequestQuota'
  <2>1. creator'.pc \in {"hold", "giveback", "update"} =>
           creator.pc \in {"hold", "giveback", "update"} /\ ~UpdateOptions
    <3>1. CASE HoldScope \/ AllHeld \/ QuotaExhausted \/ GiveBack
      <4>1. creator.pc \in {"hold", "giveback"}
        BY <3>1 DEF HoldScope, AllHeld, QuotaExhausted, GiveBack
      <4>. QED
        BY <4>1 DEF UpdateOptions
    <3>2. CASE \/ \E label \in {"hold", "giveback", "update", "spend", "mark", "queue"} : CreateFails(label)
               \/ UpdateOptions \/ MarkReserved \/ AddToQueue \/ FailQueued \/ WriteSettlement \/ Abandon
      <4>1. \E label \in CreatorPC \ {"hold", "giveback", "update"} : GotoCreate(label)
        BY <3>2, <1>l DEF CreateFails, UpdateOptions, MarkReserved, AddToQueue, FailQueued,
                          WriteSettlement, Abandon
      <4>. QED
        BY <1>g, <4>1
    <3>3. CASE Spend \/ RefundAll
      <4>1. creator'.pc \in {"mark", "fail", "release", "over"}
        BY <1>t, <3>3 DEF Spend, RefundAll, GotoCreate, CreatorType
      <4>. QED
        BY <4>1
    <3>4. CASE ListHolds \/ ReleaseHeld
      <4>1. creator'.pc = "close"
        BY <1>t, <3>4 DEF ListHolds, ReleaseHeld, CreatorType
      <4>. QED
        BY <4>1
    <3>. QED
      BY <3>1, <3>2, <3>3, <3>4 DEF CreateStep
  <2>. QED
    BY <1>3, <2>1 DEF RequestQuota
<1>5. PaidInv'
  <2>1. Paid => Paid'
    BY <1>2 DEF Paid, HoldsFrame
  <2>2. RowPaid'
    BY <1>3, <2>1 DEF PaidInv, RowPaid
  <2>3. \A d \in Deliveries : DeliveryPaid(d)'
    BY <1>1, <1>3, <2>1 DEF PaidInv, DeliveryPaid
  <2>. QED
    BY <2>2, <2>3 DEF PaidInv
<1>. QED
  BY <1>4, <1>5

LEMMA PaidInit == CreateInit => PaidInv /\ RequestQuota
<1>. SUFFICES ASSUME CreateInit PROVE PaidInv /\ RequestQuota
  OBVIOUS
<1>1. job = NewJob("PENDING", Scopes # {}) /\ \A d \in Deliveries : worker[d] = Idle
  BY DEF CreateInit
<1>2. RowPaid
  BY <1>1 DEF RowPaid, NewJob
<1>3. \A d \in Deliveries : DeliveryPaid(d)
  BY <1>1 DEF DeliveryPaid, Idle, Snapshot
<1>4. RequestQuota
  <2>1. creator.pc = IF Scopes = {} THEN "spend" ELSE "hold"
    BY DEF CreateInit, NewCreator
  <2>2. job.quota = (Scopes # {})
    BY <1>1 DEF NewJob
  <2>. QED
    BY <2>1, <2>2 DEF RequestQuota
<1>. QED
  BY <1>2, <1>3, <1>4 DEF PaidInv

\* A job that succeeded on a quota was charged to every scope of it, whatever
\* the request that created it released or overwrote under the delivery.
THEOREM SuccessIsPaidCorrect == CreateSpec => []SuccessIsPaid
<1>1. CreationTypeOK /\ PaidInv /\ RequestQuota /\ [CreateNext]_createVars => PaidInv' /\ RequestQuota'
  <2>. SUFFICES ASSUME CreationTypeOK, PaidInv, RequestQuota, [CreateNext]_createVars
                PROVE  PaidInv' /\ RequestQuota'
    OBVIOUS
  <2>1. CASE CreateStep
    BY <2>1, PaidRequestStep
  <2>2. CASE [Next]_vars /\ UNCHANGED creator
    <3>1. TypeOK /\ RowFrame
      BY <2>2, JobRowFrame DEF CreationTypeOK
    <3>. QED
      BY <2>2, <3>1, PaidJobStep DEF RowFrame, RequestQuota
  <2>. QED
    BY <2>1, <2>2 DEF CreateNext, createVars
<1>2. PaidInv => SuccessIsPaid
  BY DEF PaidInv, RowPaid, Paid, SuccessIsPaid
<1>. QED
  BY <1>1, <1>2, CreationTypeInit, CreationTypeStep, PaidInit, PTL DEF CreateSpec

-----------------------------------------------------------------------------
(***************************************************************************)
(* What the error path of the request closes holds nothing, and credits    *)
(* are only taken for a job that is not over.                              *)
(***************************************************************************)
\* Until the request is over, only failed jobs are closed; they keep no lease;
\* and a request about to close knows every hold that is left.
CloseInv ==
    /\ job.status \in Failed => job.lease = "none"
    /\ creator.pc # "over" /\ job.settlement \in Closed => job.status \in Failed
    /\ creator.pc = "close" /\ creator.released => Held \subseteq creator.refs

LEMMA CloseJobStep == CreationTypeOK /\ CloseInv /\ [Next]_vars /\ UNCHANGED creator => CloseInv'
<1>. SUFFICES ASSUME CreationTypeOK, CloseInv, [Next]_vars, UNCHANGED creator PROVE CloseInv'
  OBVIOUS
<1>1. RowFrame /\ HoldsFrame
  BY JobRowFrame, JobHoldsFrame DEF CreationTypeOK
<1>2. Held' \subseteq Held
  BY <1>1 DEF Held, HoldsFrame
<1>. QED
  BY <1>1, <1>2 DEF CloseInv, RowFrame

LEMMA CloseRequestStep == CreationTypeOK /\ CloseInv /\ CreateStep => CloseInv'
<1>. SUFFICES ASSUME CreationTypeOK, CloseInv, CreateStep PROVE CloseInv'
  OBVIOUS
<1>t. TypeOK /\ job \in JobType /\ creator \in CreatorType
  BY DEF CreationTypeOK, TypeOK, CreatorType
<1>l. CreatorPC = {"hold", "giveback", "update", "spend", "mark", "queue", "fail", "refund", "release",
                   "close", "over"}
  BY DEF CreatorPC
<1>g. \A label \in CreatorPC : GotoCreate(label) => creator'.pc = label
  BY <1>t, GotoCreateType
<1>1. ASSUME creator.pc \notin {"close", "over"}, creator'.pc # "close",
             \/ UNCHANGED <<job.status, job.lease, job.settlement>>
             \/ /\ job'.lease = "none" /\ job'.settlement = job.settlement
                /\ job'.status = "FAILED"
             \/ /\ job'.lease = job.lease /\ job'.status = job.status
                /\ job'.settlement = "RESERVED"
      PROVE  CloseInv'
  BY <1>1 DEF CloseInv, Closed, Failed
<1>2. CASE HoldScope \/ GiveBack \/ Spend \/ RefundAll
  <2>1. job' = job /\ creator.pc \notin {"close", "over"}
    BY <1>2 DEF HoldScope, GiveBack, Spend, RefundAll
  <2>2. creator'.pc # "close"
    BY <1>2, <1>t, <1>g, <1>l DEF HoldScope, GiveBack, Spend, RefundAll, CreatorType
  <2>. QED
    BY <1>1, <2>1, <2>2
<1>3. CASE \/ AllHeld \/ QuotaExhausted \/ AddToQueue
           \/ \E label \in {"hold", "giveback", "update", "spend", "mark", "queue"} : CreateFails(label)
  <2>1. job' = job /\ creator.pc \notin {"close", "over"} /\ \E label \in CreatorPC \ {"close"} : GotoCreate(label)
    BY <1>3, <1>l DEF AllHeld, QuotaExhausted, AddToQueue, CreateFails, vars
  <2>. QED
    BY <1>1, <1>g, <2>1
<1>4. CASE UpdateOptions
  <2>1. job' = [job EXCEPT !.quota = creator.refs # {}] /\ creator.pc = "update"
        /\ \E label \in CreatorPC \ {"close"} : GotoCreate(label)
    BY <1>4, <1>l DEF UpdateOptions
  <2>2. UNCHANGED <<job.status, job.lease, job.settlement>>
    BY <1>t, <2>1 DEF JobType
  <2>. QED
    BY <1>1, <1>g, <2>1, <2>2
<1>5. CASE MarkReserved
  <2>1. job' = [job EXCEPT !.settlement = "RESERVED"] /\ creator.pc = "mark"
        /\ \E label \in CreatorPC \ {"close"} : GotoCreate(label)
    BY <1>5, <1>l DEF MarkReserved
  <2>2. job'.lease = job.lease /\ job'.status = job.status /\ job'.settlement = "RESERVED"
    BY <1>t, <2>1 DEF JobType
  <2>. QED
    BY <1>1, <1>g, <2>1, <2>2
<1>6. CASE FailQueued
  <2>1. /\ creator.pc = "fail" /\ \E label \in CreatorPC \ {"close"} : GotoCreate(label)
        /\ job' = job \/ job' = [Unlocked(job) EXCEPT !.status = "FAILED"]
    BY <1>6, <1>l DEF FailQueued
  <2>2. \/ job' = job
        \/ job'.lease = "none" /\ job'.settlement = job.settlement /\ job'.status = "FAILED"
    BY <1>t, <2>1 DEF JobType, Unlocked
  <2>. QED
    BY <1>1, <1>g, <2>1, <2>2
<1>7. CASE ListHolds
  <2>1. /\ UNCHANGED <<job, resv>> /\ creator.pc = "release"
        /\ \/ creator' = [creator EXCEPT !.pc = "close", !.refs = Held]
           \/ creator' = [creator EXCEPT !.pc = "close", !.refs = {}, !.released = FALSE]
    BY <1>7 DEF ListHolds, Held, vars
  <2>2. creator'.released => creator'.refs = Held
    BY <1>t, <2>1 DEF CreatorType
  <2>3. Held' = Held
    BY <2>1 DEF Held
  <2>. QED
    BY <2>1, <2>2, <2>3 DEF CloseInv
<1>8. CASE ReleaseHeld
  <2>1. PICK s \in creator.refs :
           \/ ReleaseReservation(s) /\ creator' = [creator EXCEPT !.refs = creator.refs \ {s}]
           \/ /\ creator' = [creator EXCEPT !.refs = creator.refs \ {s}, !.released = FALSE]
              /\ UNCHANGED resv
    BY <1>8, <1>t DEF ReleaseHeld, CreatorType
  <2>2. s \in Scopes /\ creator.pc = "close" /\ job' = job
    BY <1>8, <1>t DEF ReleaseHeld, CreatorType
  <2>3. CASE ReleaseReservation(s) /\ creator' = [creator EXCEPT !.refs = creator.refs \ {s}]
    <3>1. Held' \subseteq Held \ {s}
      BY <1>t, <2>2, <2>3, ReleaseType DEF Held
    <3>2. creator'.refs = creator.refs \ {s} /\ creator'.released = creator.released
          /\ creator'.pc = creator.pc
      BY <1>t, <2>3 DEF CreatorType
    <3>. QED
      BY <2>2, <3>1, <3>2 DEF CloseInv
  <2>4. CASE creator' = [creator EXCEPT !.refs = creator.refs \ {s}, !.released = FALSE]
    <3>1. ~creator'.released /\ creator'.pc = creator.pc
      BY <1>t, <2>4 DEF CreatorType
    <3>. QED
      BY <2>2, <3>1 DEF CloseInv
  <2>. QED
    BY <2>1, <2>3, <2>4
<1>9. CASE WriteSettlement
  <2>1. creator'.pc = "over" /\ job' \in {job, [job EXCEPT !.settlement = ClosedAs]}
    BY <1>9, <1>g, <1>l DEF WriteSettlement
  <2>2. job'.status = job.status /\ job'.lease = job.lease
    BY <1>t, <2>1 DEF JobType
  <2>. QED
    BY <2>1, <2>2 DEF CloseInv
<1>10. CASE Abandon
  <2>1. creator'.pc = "over" /\ job' = job
    BY <1>10, <1>g, <1>l DEF Abandon, vars
  <2>. QED
    BY <2>1 DEF CloseInv
<1>. QED
  BY <1>2, <1>3, <1>4, <1>5, <1>6, <1>7, <1>8, <1>9, <1>10 DEF CreateStep

LEMMA CloseStepInv == CreationTypeOK /\ CloseInv /\ [CreateNext]_createVars => CloseInv'
BY CloseJobStep, CloseRequestStep DEF CreateNext, createVars

LEMMA CloseInit == CreateInit => CloseInv
BY DEF CreateInit, CloseInv, NewJob, NewCreator, Failed, Closed

\* A failed or closed row that its own deliveries and passes write again, with
\* a final settlement, was given that settlement by a closing without holds.
LEMMA JobClosesEmpty ==
    ASSUME TypeOK, Next, job.settlement \in Closed => job.status \in Failed,
           job.status \in Failed => job.lease = "none",
           job' # job, job'.settlement \in Closed
    PROVE  \A s \in Scopes : resv[s] # "RESERVED"
<1>t. job \in JobType
  BY DEF TypeOK
<1>r. RowFrame
  BY JobRowFrame
<1>f. job.status \in Failed
  BY <1>r DEF RowFrame
<1>n. /\ \A d \in Deliveries : ~HoldsLease(d)
      /\ job.lease = "none" /\ job.status \notin {"QUEUED", "RUNNING"}
  BY <1>f DEF HoldsLease, Failed
<1>1. ASSUME NEW d \in Deliveries, Claim(d) \/ ClaimLost(d) \/ Rest(d) \/ Work(d) PROVE job' = job
  <2>1. CASE \/ Claim(d) \/ ClaimLost(d) \/ Rest(d) \/ ReadForeign(d) \/ ReadOwned(d)
             \/ ReserveTooEarly(d) \/ ReserveWithoutQuota(d) \/ ReserveFromTable(d) \/ Adopt(d)
             \/ Unreserve(d) \/ Die(d)
    BY <1>n, <2>1 DEF Claim, Claimable, ClaimLost, Rest, ReadForeign, ReadOwned, ReserveTooEarly,
                      Unreserve, ReserveWithoutQuota, ReserveFromTable, Adopt, Die, db
  <2>2. CASE RunnerStep(d)
    BY <1>n, <2>2
       DEF RunnerStep, CleanOutputs, StartAttempt, NoCandidate, ProviderRefuses, StreamBreaks,
           ChatAnswers, StoreOutput, UndoOutputs, FailAttempt, SucceedAttempt, MarkReconciling,
           Adjust, db
  <2>3. CASE SettleStep(d)
    BY <1>n, <2>3 DEF SettleStep, SettleNonChat, CommitSettlement, CommitUnacknowledged,
                      SettleGeneration, CanSettle, Verify, Book, Finish, db
  <2>4. CASE ErrorStep(d)
    BY <1>n, <2>4 DEF ErrorStep, CatchForeign, CatchCancelled, CatchOwned, ReleaseForRetry,
                      Remark, FailJob, DatabaseFails, db
  <2>. QED
    BY <1>1, <2>1, <2>2, <2>3, <2>4 DEF Work
<1>2. ASSUME NEW c \in Closers, Publish(c) PROVE job'.settlement \notin Closed \/ job' = job
  <2>1. PICK x : /\ job' = [job EXCEPT !.settlement = x]
                 /\ x \in {"RECONCILING", job.settlement}
    BY <1>2 DEF Publish
  <2>2. job'.settlement = x /\ (x = job.settlement => job' = job)
    BY <1>t, <2>1 DEF JobType
  <2>. QED
    BY <2>1, <2>2 DEF Closed
<1>3. ASSUME NEW c \in Closers, CloseSettlement(c)
      PROVE  (\A s \in Scopes : resv[s] # "RESERVED") \/ job' = job
  <2>1. CASE \A s \in Scopes : resv[s] \notin {"RESERVED", "SETTLED"}
    BY <2>1
  <2>2. CASE ~(\A s \in Scopes : resv[s] \notin {"RESERVED", "SETTLED"})
    <3>1. job' = [job EXCEPT !.settlement = job.settlement]
      BY <1>3, <2>2 DEF CloseSettlement
    <3>. QED
      BY <1>t, <3>1 DEF JobType
  <2>. QED
    BY <2>1, <2>2
<1>4. CASE Environment
  BY <1>2, <1>3, <1>4, <1>n
     DEF Environment, Cancel, RecoverStaleLease, Expire, RecoverTerminal, CloseStep, CloseFails,
         Inspect, RefundOutstanding, RecordRefund, ReleaseHold, CleanTerminal, db
<1>. QED
  BY <1>1, <1>4 DEF Next

\* A request that writes RELEASED or REFUNDED in its error path leaves no hold
\* behind, whichever of its statements failed, and neither does anybody who
\* closes the job at that time.
THEOREM ClosedHoldsNothingCorrect == CreateSpec => ClosedHoldsNothing
<1>1. CreationTypeOK /\ CloseInv /\ [CreateNext]_createVars =>
         (creator.pc = "close" /\ job' # job /\ job'.settlement \in Closed =>
             \A s \in Scopes : resv[s] # "RESERVED")
  <2>. SUFFICES ASSUME CreationTypeOK, CloseInv, [CreateNext]_createVars, creator.pc = "close",
                       job' # job, job'.settlement \in Closed
                PROVE  \A s \in Scopes : resv[s] # "RESERVED"
    OBVIOUS
  <2>1. CASE CreateStep
    <3>1. WriteSettlement
      BY <2>1 DEF CreateStep, HoldScope, AllHeld, QuotaExhausted, GiveBack, UpdateOptions, Spend,
                  MarkReserved, AddToQueue, CreateFails, FailQueued, RefundAll, ListHolds, ReleaseHeld,
                  Abandon, vars
    <3>2. /\ creator.refs = {} /\ job \in JobType
          /\ job' = [job EXCEPT !.settlement = ClosedAs]
      BY <3>1 DEF WriteSettlement, CreationTypeOK, TypeOK
    <3>3. ClosedAs \in Closed
      BY <3>2 DEF JobType
    <3>4. creator.released
      BY <3>3 DEF ClosedAs, Closed
    <3>. QED
      BY <3>2, <3>4 DEF CloseInv, Held
  <2>2. CASE Next
    BY <2>2, JobClosesEmpty DEF CloseInv, CreationTypeOK
  <2>. QED
    BY <2>1, <2>2 DEF CreateNext, createVars, vars
<1>. QED
  BY <1>1, CreationTypeInit, CreationTypeStep, CloseInit, CloseStepInv, PTL
     DEF CreateSpec, ClosedHoldsNothing

\* The cancellation of a job being created ends what it can cost: only Spend
\* takes credits up front, and it looks at the row in its own transaction.
THEOREM NothingSpentWhenOverCorrect == CreateSpec => NothingSpentWhenOver
<1>1. CreationTypeOK /\ [CreateNext]_createVars =>
         (ledger'.spend > ledger.spend => job.status \notin Terminal /\ job.settlement \notin Closed)
  <2>. SUFFICES ASSUME CreationTypeOK, [CreateNext]_createVars, ledger'.spend > ledger.spend
                PROVE  job.status \notin Terminal /\ job.settlement \notin Closed
    OBVIOUS
  <2>n. ledger \in LedgerType /\ ledger.spend \in Nat
    BY LedgerNumbers DEF CreationTypeOK
  <2>1. ledger'.spend # ledger.spend
    BY <2>n
  <2>2. CASE [Next]_vars
    <3>1. LedgerFrame
      BY <2>2, JobLedgerFrame
    <3>. QED
      BY <2>n, <2>1, <3>1 DEF LedgerFrame, LedgerType
  <2>3. CASE CreateStep
    <3>1. CASE Spend
      BY <3>1 DEF Spend, Spendable, Unsettled, Closed, Terminal, Failed
    <3>2. CASE RefundAll
      BY <2>n, <2>1, <3>2 DEF RefundAll, LedgerType
    <3>. QED
      BY <2>1, <2>3, <3>1, <3>2, RequestLedger
  <2>. QED
    BY <2>2, <2>3 DEF CreateNext, createVars
<1>. QED
  BY <1>1, CreationTypeInit, CreationTypeStep, PTL DEF CreateSpec, NothingSpentWhenOver

=============================================================================
