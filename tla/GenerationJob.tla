--------------------------- MODULE GenerationJob ---------------------------
(***************************************************************************)
(* One generation job, from its row QUEUED in the database to a terminal   *)
(* status with its money settled or given back: the lifecycle and lease of *)
(* generation-lifecycle.service.ts, the worker of generations.processor.ts *)
(* with the image, video and chat runners, the attempt audit, the outputs, *)
(* the settlement, the terminal reconciliation, cancellation by the user   *)
(* and the recovery pass.                                                  *)
(*                                                                         *)
(* Several deliveries of the same job run at once (BullMQ delivers at      *)
(* least once, a stalled delivery keeps running), on one or on several     *)
(* server processes.  A step is one database statement or transaction, or  *)
(* one answer of the Provider; every process may die between two steps and *)
(* every statement may fail.  The lease's clock is abstracted to what its  *)
(* guards read: a lease is live until Expire, after which no heartbeat can *)
(* revive it.                                                              *)
(***************************************************************************)
EXTENDS Naturals, FiniteSets, TLC

CONSTANTS
    Deliveries,  \* executions of process(), of one or of several queue jobs
    Processes,   \* server processes, each with one workerId
    Process,     \* Process[d] is the process that runs delivery d
    Recoverers,  \* processes whose recovery pass may run
    Kind,        \* "CHAT", or "IMAGE" for IMAGE, VIDEO and COMMERCE jobs
    Scopes,      \* quota scopes (monthly, daily) a chat paid by quota reserves
    AttemptIds,  \* rows of ProviderAttempt the job may create
    Expected,    \* outputs the job must store, 0 for a chat
    Cost,        \* credits spent up front by a job that no quota pays
    MaxExtra,    \* bound: credits a chat may cost beyond Cost
    MaxLease,    \* bound: claims, recoveries and cancels of the job
    None         \* the null of lockedBy and of an attempt id

Api == "api"
Handlers == {Api} \cup Recoverers
Closers  == Deliveries \cup Handlers

ASSUME ProcessAssumption == Process \in [Deliveries -> Processes] /\ None \notin Processes
ASSUME CloserAssumption  == Deliveries \cap Handlers = {} /\ None \notin AttemptIds
ASSUME KindAssumption    == /\ Kind \in {"CHAT", "IMAGE"}
                            /\ Kind = "IMAGE" => Scopes = {}
ASSUME BoundAssumption   == {Expected, Cost, MaxExtra, MaxLease} \subseteq Nat

VARIABLES
    job,       \* the row of GenerationJob
    attempts,  \* the rows of ProviderAttempt
    outputs,   \* how many rows of JobOutput the job has
    resv,      \* the rows of TokenQuotaReservation, by scope
    ledger,    \* the credit ledger of this generation, by idempotency key
    books,     \* the BillingTransactions of this generation
    worker,    \* the local state of each delivery
    closer     \* the local state of each execution of finalizeTerminal

vars == <<job, attempts, outputs, resv, ledger, books, worker, closer>>
db   == <<job, attempts, outputs, resv, ledger, books>>

Chat == Kind = "CHAT"
Open      == {"PENDING", "RESERVED"}
Unsettled == {"PENDING", "RESERVED", "RECONCILING"}
Closed    == {"RELEASED", "REFUNDED"}
Failed    == {"FAILED", "CANCELLED"}
Terminal  == {"SUCCEEDED"} \cup Failed

Settlements == Unsettled \cup Closed \cup {"SETTLED"}

WorkerPC == {"idle", "read", "reserve", "adopt", "unreserve", "clean", "start", "call",
             "undo", "refused", "accept", "mark", "adjust", "settle", "commit", "verify", "book",
             "finish", "catch", "release", "remark", "finalize", "fail", "closing",
             "returned", "threw"}
Errors   == {"none", "retriable", "terminal", "reconcile", "leaselost", "cancelled"}
CloserPC == {"idle", "publish", "inspect", "refund", "record", "release", "close", "cleanup"}

Idle    == [pc |-> "idle", started |-> FALSE, last |-> FALSE, version |-> 0,
            quota |-> FALSE, pending |-> FALSE, attempt |-> None, stored |-> 0, refs |-> {},
            error |-> "none", after |-> "returned"]
NoClose == [pc |-> "idle", reason |-> "FAILED", seen |-> "PENDING", refs |-> {}, refund |-> FALSE]

\* Mutant of HoldsLease: any live lease will do, whoever holds it.
HoldsLeaseOfAnyone(d) == job.status = "RUNNING" /\ job.lease = "live"

(***************************************************************************)
(* The fence of every write of a worker: the row is RUNNING, locked by the *)
(* worker's process at the worker's version, and the lease has not         *)
(* expired.                                                                *)
(***************************************************************************)
HoldsLease(d) ==
    /\ job.status = "RUNNING"
    /\ job.lockedBy = Process[d]
    /\ job.leaseVersion = worker[d].version
    /\ job.lease = "live"

Unresolved  == {a \in AttemptIds : attempts[a] \in {"RUNNING", "SUCCEEDED"}}
\* Mutant of MustReconcile: an attempt that already succeeded is overlooked.
MustReconcileRunning == \E a \in AttemptIds : attempts[a] = "RUNNING"

\* The check of ProviderAttempts that cancel, recovery and attempt start share.
MustReconcile == Unresolved # {}

\* What the ledger entries of the generation took and gave back in all.
Taken == ledger.spend + ledger.extra
Given == ledger.back + ledger.refund + ledger.enqueue
Outstanding == IF Taken > Given THEN Taken - Given ELSE 0

Goto(d, label)  == worker' = [worker EXCEPT ![d].pc = label]
Raise(d, error) == worker' = [worker EXCEPT ![d] =
                       [Idle EXCEPT !.pc = "catch", !.version = worker[d].version, !.error = error]]
End(d, label)   == worker' = [worker EXCEPT ![d] = [Idle EXCEPT !.pc = label]]
Unlocked(j)     == [j EXCEPT !.lockedBy = None, !.lease = "none"]

(***************************************************************************)
(* create() left the row QUEUED and RESERVED, paid by a quota held in every *)
(* scope or by credits spent; or its process died with the row PENDING and *)
(* the money half taken.  A chat whose quota ran out in one scope fell back *)
(* to credits and released the other scopes.  A start-up pass enqueues all *)
(* of them.                                                                *)
(***************************************************************************)
NewJob(settlement, quota) ==
    [status |-> "QUEUED", settlement |-> settlement, quota |-> quota, lockedBy |-> None,
     leaseVersion |-> 0, lease |-> "none", startedAt |-> FALSE]

NoLedger == [spend |-> 0, extra |-> 0, back |-> 0, refund |-> 0, enqueue |-> 0]

\* A scope is released only because another one could not be reserved.
FallenBack == (\E s \in Scopes : resv[s] = "RELEASED") => \E s \in Scopes : resv[s] = "none"

InitQuota ==
    /\ Scopes # {}
    /\ \/ /\ job = NewJob("RESERVED", TRUE)
          /\ resv = [s \in Scopes |-> "RESERVED"]
       \/ /\ job = NewJob("PENDING", TRUE)
          /\ resv \in [Scopes -> {"none", "RESERVED", "RELEASED"}]
          /\ FallenBack
    /\ ledger = NoLedger

InitCredits ==
    /\ resv \in [Scopes -> {"none", "RELEASED"}]
    /\ FallenBack
    /\ \/ /\ job = NewJob("RESERVED", FALSE)
          /\ ledger = [NoLedger EXCEPT !.spend = Cost]
       \/ /\ job = NewJob("PENDING", FALSE)
          /\ \E spent \in {0, Cost} : ledger = [NoLedger EXCEPT !.spend = spent]

InitMoney == InitQuota \/ InitCredits

Init ==
    /\ InitMoney
    /\ attempts = [a \in AttemptIds |-> "none"]
    /\ outputs = 0
    /\ books = {}
    /\ worker = [d \in Deliveries |-> Idle]
    /\ closer = [c \in Closers |-> NoClose]

(***************************************************************************)
(* process(): claim the row, then read it back.                            *)
(***************************************************************************)
Claimable == job.status = "QUEUED" /\ job.lease # "live"

Claim(d) ==
    /\ worker[d].pc = "idle"
    /\ Claimable
    /\ job.leaseVersion < MaxLease
    /\ job' = [job EXCEPT !.status = "RUNNING", !.startedAt = TRUE, !.lockedBy = Process[d],
                          !.leaseVersion = @ + 1, !.lease = "live"]
    /\ worker' = [worker EXCEPT ![d] = [Idle EXCEPT !.pc = "read", !.started = TRUE]]
    /\ UNCHANGED <<attempts, outputs, resv, ledger, books, closer>>

ClaimLost(d) ==
    /\ worker[d].pc = "idle"
    /\ ~Claimable
    /\ worker' = [worker EXCEPT ![d] = [Idle EXCEPT !.pc = "read"]]
    /\ UNCHANGED <<db, closer>>

Owns(d) == worker[d].started /\ job.status # "CANCELLED" /\ job.lockedBy = Process[d]

\* Starts finalizeTerminal for closer c; the worker or handler waits for it.
BeginClose(c, reason) ==
    closer' = [closer EXCEPT ![c] = [NoClose EXCEPT !.pc = "publish", !.reason = reason]]

ReadForeign(d) ==
    /\ worker[d].pc = "read"
    /\ ~Owns(d)
    /\ IF job.status \in Failed /\ job.settlement \in Unsettled
       THEN /\ worker' = [worker EXCEPT ![d] = [Idle EXCEPT !.pc = "closing"]]
            /\ BeginClose(d, job.status)
       ELSE End(d, "returned") /\ UNCHANGED closer
    /\ UNCHANGED db

\* Mutant of AfterRead: a settled job is finished without its bookkeeping.
AfterReadUnbooked ==
    CASE job.settlement = "RECONCILING" -> IF Chat THEN "finalize" ELSE "settle"
      [] job.settlement = "SETTLED"     -> "finish"
      [] OTHER                          -> "reserve"

AfterRead ==
    CASE job.settlement = "RECONCILING" -> IF Chat THEN "finalize" ELSE "settle"
      [] job.settlement = "SETTLED"     -> "verify"
      [] OTHER                          -> "reserve"

ReadOwned(d) ==
    /\ worker[d].pc = "read"
    /\ Owns(d)
    /\ worker' = [worker EXCEPT ![d] = [@ EXCEPT !.pc = AfterRead, !.version = job.leaseVersion,
                                                 !.quota = job.quota,
                                                 !.pending = job.settlement = "PENDING"]]
    /\ UNCHANGED <<db, closer>>

(***************************************************************************)
(* recoverTokenReservations: the reservation table decides whether the     *)
(* Provider may be called.                                                 *)
(***************************************************************************)
RunnerStart == IF Chat THEN "start" ELSE "clean"

ReserveTooEarly(d) ==
    /\ worker[d].pc = "reserve"
    /\ worker[d].pending
    /\ Raise(d, "retriable")
    /\ UNCHANGED <<db, closer>>

ReserveWithoutQuota(d) ==
    /\ worker[d].pc = "reserve"
    /\ ~worker[d].quota
    /\ IF worker[d].pending THEN Raise(d, "terminal") ELSE Goto(d, RunnerStart)
    /\ UNCHANGED <<db, closer>>

\* Mutant of ReserveFromTable: the snapshot in the options is trusted.
ReserveFromSnapshot(d) ==
    /\ worker[d].pc = "reserve"
    /\ worker[d].quota
    /\ worker' = [worker EXCEPT ![d] = [@ EXCEPT !.pc = "adopt", !.pending = FALSE]]
    /\ UNCHANGED <<db, closer>>

ReserveFromTable(d) ==
    /\ worker[d].pc = "reserve"
    /\ worker[d].quota
    /\ IF \A s \in Scopes : resv[s] = "RESERVED"
       THEN worker' = [worker EXCEPT ![d] = [@ EXCEPT !.pc = "adopt", !.pending = FALSE]]
       ELSE IF \E s \in Scopes : resv[s] = "SETTLED" THEN Raise(d, "terminal")
       ELSE worker' = [worker EXCEPT ![d] = [@ EXCEPT !.pc = "unreserve",
                                                      !.pending = FALSE,
                                                      !.refs = {s \in Scopes : resv[s] = "RESERVED"}]]
    /\ UNCHANGED <<db, closer>>

Adopt(d) ==
    /\ worker[d].pc = "adopt"
    /\ IF HoldsLease(d) /\ job.settlement \in Unsettled
       THEN job' = [job EXCEPT !.settlement = "RESERVED"] /\ Goto(d, RunnerStart)
       ELSE Raise(d, "cancelled") /\ UNCHANGED job
    /\ UNCHANGED <<attempts, outputs, resv, ledger, books, closer>>

\* Mutant of ReleaseReservation: a settled reservation is released too.
ReleaseSettled(s) == resv' = [resv EXCEPT ![s] = IF @ # "none" THEN "RELEASED" ELSE @]

\* tokenQuota.release: idempotent, and no effect on a settled reservation.
ReleaseReservation(s) == resv' = [resv EXCEPT ![s] = IF @ = "RESERVED" THEN "RELEASED" ELSE @]

Unreserve(d) ==
    /\ worker[d].pc = "unreserve"
    /\ \/ \E s \in worker[d].refs :
            /\ ReleaseReservation(s) \/ UNCHANGED resv  \* a failed release is skipped
            /\ worker' = [worker EXCEPT ![d].refs = @ \ {s}]
       \/ worker[d].refs = {} /\ Raise(d, "terminal") /\ UNCHANGED resv
    /\ UNCHANGED <<job, attempts, outputs, ledger, books, closer>>

\* Mutant of CleanOutputs: the runner deletes old outputs without its lease.
CleanOutputsUnfenced(d) ==
    /\ worker[d].pc = "clean"
    /\ outputs' = 0
    /\ Goto(d, "start")
    /\ UNCHANGED <<job, attempts, resv, ledger, books, closer>>

(***************************************************************************)
(* The runners: withProviderFailover over the candidates, each call behind *)
(* an attempt row, then the outputs, then the settlement.                  *)
(***************************************************************************)
CleanOutputs(d) ==
    /\ worker[d].pc = "clean"
    /\ IF HoldsLease(d) THEN outputs' = 0 /\ Goto(d, "start")
                        ELSE Raise(d, "retriable") /\ UNCHANGED outputs
    /\ UNCHANGED <<job, attempts, resv, ledger, books, closer>>

StartAttempt(d) ==
    /\ worker[d].pc = "start"
    /\ \/ /\ HoldsLease(d) /\ ~MustReconcile
          /\ \E a \in AttemptIds :
                /\ attempts[a] = "none"
                /\ attempts' = [attempts EXCEPT ![a] = "RUNNING"]
                /\ worker' = [worker EXCEPT ![d] = [@ EXCEPT !.pc = "call", !.attempt = a, !.stored = 0]]
       \/ HoldsLease(d) /\ MustReconcile /\ Raise(d, "reconcile") /\ UNCHANGED attempts
       \/ ~HoldsLease(d) /\ Raise(d, "terminal") /\ UNCHANGED attempts
    /\ UNCHANGED <<job, outputs, resv, ledger, books, closer>>

\* No candidate, or none left after a failover.
NoCandidate(d) ==
    /\ worker[d].pc = "start"
    /\ Raise(d, "retriable")
    /\ UNCHANGED <<db, closer>>

\* The Provider refused, timed out, or returned something unusable.
ProviderRefuses(d) ==
    /\ worker[d].pc = "call"
    /\ \E e \in {"retriable", "terminal"} :
          worker' = [worker EXCEPT ![d] = [@ EXCEPT !.pc = IF Chat THEN "refused" ELSE "undo", !.error = e]]
    /\ UNCHANGED <<db, closer>>

\* A chat stream broke after its first chunk: nobody knows what was billed.
StreamBreaks(d) ==
    /\ worker[d].pc = "call"
    /\ Chat
    /\ Raise(d, "reconcile")
    /\ UNCHANGED <<db, closer>>

ChatAnswers(d) ==
    /\ worker[d].pc = "call"
    /\ Chat
    /\ Goto(d, "accept")
    /\ UNCHANGED <<db, closer>>

StoreOutput(d) ==
    /\ worker[d].pc = "call"
    /\ ~Chat
    /\ IF worker[d].stored = Expected THEN Goto(d, "accept") /\ UNCHANGED outputs
       ELSE IF HoldsLease(d)
       THEN outputs' = outputs + 1 /\ worker' = [worker EXCEPT ![d].stored = @ + 1]
       ELSE /\ worker' = [worker EXCEPT ![d] = [@ EXCEPT !.pc = "undo", !.error = "retriable"]]
            /\ UNCHANGED outputs
    /\ UNCHANGED <<job, attempts, resv, ledger, books, closer>>

\* A partial result must not reach the next candidate.
UndoOutputs(d) ==
    /\ worker[d].pc = "undo"
    /\ \/ HoldsLease(d) /\ outputs' = 0 /\ Goto(d, "refused")
       \/ /\ worker' = [worker EXCEPT ![d] = [@ EXCEPT !.pc = "refused", !.error = "reconcile"]]
          /\ UNCHANGED outputs
    /\ UNCHANGED <<job, attempts, resv, ledger, books, closer>>

FailAttempt(d) ==
    /\ worker[d].pc = "refused"
    /\ IF HoldsLease(d) /\ attempts[worker[d].attempt] = "RUNNING"
       THEN /\ attempts' = [attempts EXCEPT ![worker[d].attempt] = "FAILED"]
            /\ \/ Raise(d, worker[d].error)
               \/ /\ worker[d].error # "reconcile"
                  /\ worker' = [worker EXCEPT ![d] = [@ EXCEPT !.pc = "start", !.error = "none",
                                                              !.attempt = None, !.stored = 0]]
       ELSE Raise(d, "terminal") /\ UNCHANGED attempts
    /\ UNCHANGED <<job, outputs, resv, ledger, books, closer>>

SucceedAttempt(d) ==
    /\ worker[d].pc = "accept"
    /\ IF HoldsLease(d) /\ attempts[worker[d].attempt] = "RUNNING"
       THEN /\ attempts' = [attempts EXCEPT ![worker[d].attempt] = "SUCCEEDED"]
            /\ worker' = [worker EXCEPT ![d] = [@ EXCEPT !.pc = "mark", !.attempt = None, !.stored = 0]]
       ELSE Raise(d, "reconcile") /\ UNCHANGED attempts
    /\ UNCHANGED <<job, outputs, resv, ledger, books, closer>>

\* From here on the job may be settled or given back, never run again.
MarkReconciling(d) ==
    /\ worker[d].pc = "mark"
    /\ IF HoldsLease(d)
       THEN /\ job' = [job EXCEPT !.settlement = "RECONCILING"]
            /\ Goto(d, IF Chat THEN "adjust" ELSE "settle")
       ELSE Raise(d, "reconcile") /\ UNCHANGED job
    /\ UNCHANGED <<attempts, outputs, resv, ledger, books, closer>>

\* spend and refund of a worker: its lease is live and nothing is final.
Chargeable(d) == HoldsLease(d) /\ job.settlement \in Unsettled

\* A chat paid with credits: its real cost replaces what was spent up front,
\* under a key of its own each, whether or not the statement is acknowledged.
Adjust(d) ==
    /\ worker[d].pc = "adjust"
    /\ \/ /\ Goto(d, "commit") \/ Raise(d, "reconcile")
          /\ UNCHANGED ledger
       \/ /\ ~worker[d].quota
          /\ Chargeable(d)
          /\ ledger.extra + ledger.back = 0
          /\ \/ \E n \in 1..MaxExtra : ledger' = [ledger EXCEPT !.extra = n]
             \/ \E n \in 1..Cost     : ledger' = [ledger EXCEPT !.back = n]
          /\ Goto(d, "commit") \/ Raise(d, "reconcile")
    /\ UNCHANGED <<job, attempts, outputs, resv, books, closer>>

(***************************************************************************)
(* settleNonChat and settleGeneration: one serializable transaction        *)
(* settles every reservation and the job, or nothing.                      *)
(***************************************************************************)
SettleNonChat(d) ==
    /\ worker[d].pc = "settle"
    /\ IF /\ HoldsLease(d)
          /\ outputs = Expected
          /\ \E a \in AttemptIds : attempts[a] = "SUCCEEDED"
          /\ job.settlement \in Unsettled \cup {"SETTLED"}
       THEN /\ job' = [job EXCEPT !.settlement = IF @ = "SETTLED" THEN @ ELSE "RECONCILING"]
            /\ Goto(d, "commit")
       ELSE Raise(d, "terminal") /\ UNCHANGED job
    /\ UNCHANGED <<attempts, outputs, resv, ledger, books, closer>>

\* A quota settlement covers exactly the full set of live reservations, any
\* other settlement finds none.
ReservationsSettleable(d) ==
    IF worker[d].quota THEN \A s \in Scopes : resv[s] = "RESERVED"
                       ELSE \A s \in Scopes : resv[s] \notin {"RESERVED", "SETTLED"}

\* Mutant of CanSettle: a worker whose lease was taken over settles all the same.
CanSettleUnfenced(d) ==
    /\ job.settlement \in Unsettled
    /\ ReservationsSettleable(d)

CanSettle(d) ==
    /\ HoldsLease(d)
    /\ job.settlement \in Unsettled
    /\ ReservationsSettleable(d)

SettleGeneration(d) ==
    IF CanSettle(d)
    THEN /\ job' = [job EXCEPT !.settlement = "SETTLED"]
         /\ resv' = IF worker[d].quota THEN [s \in Scopes |-> "SETTLED"] ELSE resv
    ELSE UNCHANGED <<job, resv>>

SettleError == IF Chat THEN "reconcile" ELSE "terminal"

CommitSettlement(d) ==
    /\ worker[d].pc = "commit"
    /\ SettleGeneration(d)
    /\ IF CanSettle(d) \/ (HoldsLease(d) /\ job.settlement = "SETTLED")
       THEN Goto(d, "verify") ELSE Raise(d, SettleError)
    /\ UNCHANGED <<attempts, outputs, ledger, books, closer>>

\* The transaction committed, its acknowledgement was lost.
CommitUnacknowledged(d) ==
    /\ worker[d].pc = "commit"
    /\ CanSettle(d)
    /\ SettleGeneration(d)
    /\ Raise(d, SettleError)
    /\ UNCHANGED <<attempts, outputs, ledger, books, closer>>

(***************************************************************************)
(* After the settlement: bookkeeping, then SUCCEEDED.                      *)
(***************************************************************************)
Verify(d) ==
    /\ worker[d].pc = "verify"
    /\ \/ job.settlement # "SETTLED" /\ Raise(d, "reconcile")
       \/ job.settlement = "SETTLED" /\ HoldsLease(d) /\ Goto(d, "book")
       \/ job.settlement = "SETTLED" /\ ~HoldsLease(d) /\ Raise(d, "leaselost")
       \/ job.settlement = "SETTLED" /\ Raise(d, "leaselost")  \* an earlier heartbeat failed
    /\ UNCHANGED <<db, closer>>

Book(d) ==
    /\ worker[d].pc = "book"
    /\ books' = books \cup {"CAPTURE"}
    /\ Goto(d, "finish")
    /\ UNCHANGED <<job, attempts, outputs, resv, ledger, closer>>

Finish(d) ==
    /\ worker[d].pc = "finish"
    /\ IF HoldsLease(d)
       THEN job' = [Unlocked(job) EXCEPT !.status = "SUCCEEDED"] /\ End(d, "returned")
       ELSE Raise(d, "leaselost") /\ UNCHANGED job
    /\ UNCHANGED <<attempts, outputs, resv, ledger, books, closer>>

(***************************************************************************)
(* The catch of process(): what the row says now decides what the error    *)
(* may still do.                                                           *)
(***************************************************************************)
CatchForeign(d) ==
    /\ worker[d].pc = "catch"
    /\ \/ worker[d].error = "leaselost"
       \/ job.status # "CANCELLED" /\ ~HoldsLease(d)
    /\ End(d, "returned")
    /\ UNCHANGED <<db, closer>>

CatchCancelled(d) ==
    /\ worker[d].pc = "catch"
    /\ worker[d].error # "leaselost"
    /\ job.status = "CANCELLED"
    /\ worker' = [worker EXCEPT ![d] = [Idle EXCEPT !.pc = "closing"]]
    /\ BeginClose(d, "CANCELLED")
    /\ UNCHANGED db

\* final: the queue job has no attempt left after this delivery.
AfterCatch(d, final) ==
    IF worker[d].error = "cancelled" THEN "threw"
    ELSE IF job.settlement = "SETTLED" THEN "release"
    ELSE IF worker[d].error = "reconcile" \/ job.settlement = "RECONCILING" THEN "remark"
    ELSE IF worker[d].error = "terminal" \/ final THEN "fail" ELSE "release"

CatchOwned(d) ==
    /\ worker[d].pc = "catch"
    /\ worker[d].error # "leaselost"
    /\ HoldsLease(d)
    /\ \E final \in BOOLEAN :
          worker' = [worker EXCEPT ![d] = [@ EXCEPT !.pc = AfterCatch(d, final), !.last = final,
                                                    !.error = "none"]]
    /\ UNCHANGED <<db, closer>>

\* Mutant of ReleaseForRetry: the settlement's vocabulary in the status.
ReleaseAsReleased(d) ==
    /\ worker[d].pc = "release"
    /\ job' = IF HoldsLease(d) THEN [Unlocked(job) EXCEPT !.status = "RELEASED"] ELSE job
    /\ End(d, "threw")
    /\ UNCHANGED <<attempts, outputs, resv, ledger, books, closer>>

ReleaseForRetry(d) ==
    /\ worker[d].pc = "release"
    /\ job' = IF HoldsLease(d) THEN [Unlocked(job) EXCEPT !.status = "QUEUED"] ELSE job
    /\ End(d, "threw")
    /\ UNCHANGED <<attempts, outputs, resv, ledger, books, closer>>

\* Mutant of Remark: the reconciliation mark is written without the lease.
RemarkUnfenced(d) ==
    /\ worker[d].pc = "remark"
    /\ job' = [job EXCEPT !.settlement = "RECONCILING"]
    /\ Goto(d, "release")
    /\ UNCHANGED <<attempts, outputs, resv, ledger, books, closer>>

Remark(d) ==
    /\ worker[d].pc = "remark"
    /\ IF HoldsLease(d)
       THEN /\ job' = [job EXCEPT !.settlement = "RECONCILING"]
            /\ Goto(d, IF Chat \/ worker[d].last THEN "finalize" ELSE "release")
       ELSE End(d, "threw") /\ UNCHANGED job
    /\ UNCHANGED <<attempts, outputs, resv, ledger, books, closer>>

\* lifecycle.fail: "finalize" returns to the queue, "fail" rethrows the error.
FailJob(d) ==
    /\ worker[d].pc \in {"finalize", "fail"}
    /\ LET after == IF worker[d].pc = "finalize" THEN "returned" ELSE "threw" IN
       IF HoldsLease(d)
       THEN /\ job' = [Unlocked(job) EXCEPT !.status = "FAILED"]
            /\ worker' = [worker EXCEPT ![d] = [Idle EXCEPT !.pc = "closing", !.after = after]]
            /\ BeginClose(d, "FAILED")
       ELSE End(d, after) /\ UNCHANGED <<job, closer>>
    /\ UNCHANGED <<attempts, outputs, resv, ledger, books>>

\* A statement of delivery d fails: the error its place in process() gives it.
DatabaseError(label) ==
    CASE label \in {"accept", "mark", "adjust"}               -> "reconcile"
      [] label \in {"reserve", "start", "refused"}            -> "terminal"
      [] label = "commit"                                     -> SettleError
      [] label \in {"adopt", "clean", "settle", "verify", "book", "finish"} -> "retriable"
      [] OTHER                                                -> "none"

DatabaseFails(d) ==
    /\ worker[d].pc \notin {"idle", "call", "undo", "unreserve", "closing", "returned", "threw"}
    /\ IF DatabaseError(worker[d].pc) = "none" THEN End(d, "threw")
       ELSE Raise(d, DatabaseError(worker[d].pc))
    /\ UNCHANGED <<db, closer>>

\* The queue takes the result of the delivery back.
Rest(d) ==
    /\ worker[d].pc \in {"returned", "threw"}
    /\ End(d, "idle")
    /\ UNCHANGED <<db, closer>>

(***************************************************************************)
(* finalizeTerminal, run by a delivery, by the cancelling request or by a  *)
(* recovery pass; any of them may run it at the same time as another, and  *)
(* may stop between two of its statements.                                 *)
(***************************************************************************)
GotoClose(c, label) == closer' = [closer EXCEPT ![c].pc = label]

StopClose(c, complete) ==
    /\ closer' = [closer EXCEPT ![c] = NoClose]
    /\ worker' = IF c \notin Deliveries THEN worker
                 ELSE [worker EXCEPT ![c] = [Idle EXCEPT !.pc = IF complete THEN worker[c].after
                                                                ELSE "threw"]]

\* completeTerminalReconciliation goes on to the outputs; the request does not.
LeaveClose(c, settlement) ==
    LET complete == settlement \in Closed \cup {"SETTLED"} IN
    IF complete /\ ~Chat /\ c # Api
    THEN GotoClose(c, "cleanup") /\ UNCHANGED worker
    ELSE StopClose(c, complete)

Publish(c) ==
    /\ closer[c].pc = "publish"
    /\ LET open == job.status = closer[c].reason /\ job.settlement \in Open
           now  == IF open THEN "RECONCILING" ELSE job.settlement IN
       /\ job' = [job EXCEPT !.settlement = now]
       /\ IF job.status # closer[c].reason \/ now = "SETTLED" THEN LeaveClose(c, now)
          ELSE /\ closer' = [closer EXCEPT ![c] = [@ EXCEPT !.pc = "inspect", !.seen = now]]
               /\ UNCHANGED worker
    /\ UNCHANGED <<attempts, outputs, resv, ledger, books>>

Inspect(c) ==
    /\ closer[c].pc = "inspect"
    /\ IF \E s \in Scopes : resv[s] = "SETTLED"
       THEN LeaveClose(c, job.settlement) /\ UNCHANGED attempts
       ELSE /\ attempts' = [a \in AttemptIds |->
                              IF attempts[a] = "RUNNING" THEN "FAILED" ELSE attempts[a]]
            /\ IF closer[c].seen \in Closed THEN LeaveClose(c, job.settlement)
               ELSE /\ closer' = [closer EXCEPT ![c] = [@ EXCEPT !.pc = "refund",
                                                              !.refs = {s \in Scopes : resv[s] = "RESERVED"}]]
                    /\ UNCHANGED worker
    /\ UNCHANGED <<job, outputs, resv, ledger, books>>

\* Mutants of RefundOutstanding: a repeated pass does not find its own refund,
\* and the whole cost is refunded instead of what is outstanding.
RefundForgotten(c) ==
    /\ closer[c].pc = "refund"
    /\ ledger' = [ledger EXCEPT !.refund = @ + Outstanding]
    /\ closer' = [closer EXCEPT ![c] = [@ EXCEPT !.pc = IF Outstanding > 0 THEN "record" ELSE "release",
                                                 !.refund = Outstanding > 0]]
    /\ UNCHANGED <<job, attempts, outputs, resv, books, worker>>

RefundGross(c) ==
    /\ closer[c].pc = "refund"
    /\ ledger' = [ledger EXCEPT !.refund = @ + Taken]
    /\ closer' = [closer EXCEPT ![c] = [@ EXCEPT !.pc = "record", !.refund = TRUE]]
    /\ UNCHANGED <<job, attempts, outputs, resv, books, worker>>

\* refundOutstandingGeneration under the key of the terminal status.
RefundOutstanding(c) ==
    /\ closer[c].pc = "refund"
    /\ LET amount == IF ledger.refund > 0 THEN ledger.refund ELSE Outstanding IN
       /\ ledger' = [ledger EXCEPT !.refund = amount]
       /\ closer' = [closer EXCEPT ![c] = [@ EXCEPT !.pc = IF amount > 0 THEN "record" ELSE "release",
                                                    !.refund = amount > 0]]
    /\ UNCHANGED <<job, attempts, outputs, resv, books, worker>>

RecordRefund(c) ==
    /\ closer[c].pc = "record"
    /\ books' = books \cup {"REFUND"}
    /\ GotoClose(c, "release")
    /\ UNCHANGED <<job, attempts, outputs, resv, ledger, worker>>

ReleaseHold(c) ==
    /\ closer[c].pc = "release"
    /\ \/ \E s \in closer[c].refs :
            ReleaseReservation(s) /\ closer' = [closer EXCEPT ![c].refs = @ \ {s}]
       \/ closer[c].refs = {} /\ GotoClose(c, "close") /\ UNCHANGED resv
    /\ UNCHANGED <<job, attempts, outputs, ledger, books, worker>>

CloseSettlement(c) ==
    /\ closer[c].pc = "close"
    /\ LET clear == \A s \in Scopes : resv[s] \notin {"RESERVED", "SETTLED"}
           now   == IF clear /\ job.status = closer[c].reason /\ job.settlement \in Unsettled
                    THEN IF closer[c].refund THEN "REFUNDED" ELSE "RELEASED"
                    ELSE job.settlement IN
       /\ job' = [job EXCEPT !.settlement = now]
       /\ LeaveClose(c, now)
    /\ UNCHANGED <<attempts, outputs, resv, ledger, books>>

\* outputs.cleanup without a lease: the job is terminal.
CleanTerminal(c) ==
    /\ closer[c].pc = "cleanup"
    /\ outputs' = 0
    /\ StopClose(c, TRUE)
    /\ UNCHANGED <<job, attempts, resv, ledger, books>>

\* A statement fails, or the process that closes the job dies.
CloseFails(c) ==
    /\ closer[c].pc # "idle"
    /\ StopClose(c, FALSE)
    /\ UNCHANGED db

CloseStep(c) ==
    \/ Publish(c) \/ Inspect(c) \/ RefundOutstanding(c) \/ RecordRefund(c)
    \/ ReleaseHold(c) \/ CloseSettlement(c) \/ CleanTerminal(c)

(***************************************************************************)
(* Cancellation by the user, the recovery pass, the lease's clock and the  *)
(* death of a process.                                                     *)
(***************************************************************************)
Cancel ==
    /\ closer[Api].pc = "idle"
    /\ job.status \in {"QUEUED", "RUNNING"}
    /\ job.settlement \in Open
    /\ job.leaseVersion < MaxLease
    /\ job' = [Unlocked(job) EXCEPT !.status = "CANCELLED", !.leaseVersion = @ + 1,
                  !.settlement = IF MustReconcile THEN "RECONCILING" ELSE @]
    /\ BeginClose(Api, "CANCELLED")
    /\ UNCHANGED <<attempts, outputs, resv, ledger, books, worker>>

\* Mutant of RecoverStaleLease: the job is requeued whatever its attempts did.
RecoverBlindly ==
    /\ job.status = "RUNNING" /\ job.lease = "expired"
    /\ job.leaseVersion < MaxLease
    /\ job' = [Unlocked(job) EXCEPT !.status = "QUEUED", !.leaseVersion = @ + 1, !.startedAt = FALSE]
    /\ UNCHANGED <<attempts, outputs, resv, ledger, books, worker, closer>>

RecoverStaleLease ==
    /\ job.status = "RUNNING" /\ job.lease = "expired"
    /\ job.settlement \in Unsettled \cup {"SETTLED"}
    /\ job.leaseVersion < MaxLease
    /\ job' = [Unlocked(job) EXCEPT !.status = "QUEUED", !.leaseVersion = @ + 1,
                  !.startedAt = FALSE,
                  !.settlement = IF @ \in Open /\ MustReconcile THEN "RECONCILING" ELSE @]
    /\ UNCHANGED <<attempts, outputs, resv, ledger, books, worker, closer>>

\* Mutant of RecoverTerminal: only jobs already published as RECONCILING.
RecoverReconciling(r) ==
    /\ closer[r].pc = "idle"
    /\ job.status \in Failed
    /\ job.settlement = "RECONCILING"
    /\ BeginClose(r, job.status)
    /\ UNCHANGED <<db, worker>>

RecoverTerminal(r) ==
    /\ closer[r].pc = "idle"
    /\ job.status \in Failed
    /\ job.settlement \in Unsettled
    /\ BeginClose(r, job.status)
    /\ UNCHANGED <<db, worker>>

Expire ==
    /\ job.lease = "live"
    /\ job' = [job EXCEPT !.lease = "expired"]
    /\ UNCHANGED <<attempts, outputs, resv, ledger, books, worker, closer>>

\* The process of delivery d dies; its queue job is delivered again.
Die(d) ==
    /\ worker[d].pc \notin {"idle", "returned", "threw"}
    /\ worker' = [worker EXCEPT ![d] = Idle]
    /\ closer' = [closer EXCEPT ![d] = NoClose]
    /\ UNCHANGED db

-----------------------------------------------------------------------------
RunnerStep(d) ==
    \/ CleanOutputs(d) \/ StartAttempt(d) \/ NoCandidate(d) \/ ProviderRefuses(d)
    \/ StreamBreaks(d) \/ ChatAnswers(d) \/ StoreOutput(d) \/ UndoOutputs(d)
    \/ FailAttempt(d) \/ SucceedAttempt(d) \/ MarkReconciling(d) \/ Adjust(d)

SettleStep(d) ==
    \/ SettleNonChat(d) \/ CommitSettlement(d) \/ CommitUnacknowledged(d)
    \/ Verify(d) \/ Book(d) \/ Finish(d)

ErrorStep(d) ==
    \/ CatchForeign(d) \/ CatchCancelled(d) \/ CatchOwned(d)
    \/ ReleaseForRetry(d) \/ Remark(d) \/ FailJob(d) \/ DatabaseFails(d)

Work(d) ==
    \/ ReadForeign(d) \/ ReadOwned(d) \/ ReserveTooEarly(d) \/ ReserveWithoutQuota(d)
    \/ ReserveFromTable(d) \/ Adopt(d) \/ Unreserve(d)
    \/ RunnerStep(d) \/ SettleStep(d) \/ ErrorStep(d) \/ Die(d)

Environment ==
    \/ Cancel \/ RecoverStaleLease \/ Expire
    \/ \E r \in Recoverers : RecoverTerminal(r)
    \/ \E c \in Closers : CloseStep(c) \/ CloseFails(c)

Next ==
    \/ \E d \in Deliveries : Claim(d) \/ ClaimLost(d) \/ Rest(d) \/ Work(d)
    \/ Environment

Spec == Init /\ [][Next]_vars

-----------------------------------------------------------------------------
(***************************************************************************)
(* The type invariant, over every variable.                                *)
(***************************************************************************)
JobType ==
    [status : {"QUEUED", "RUNNING"} \cup Terminal, settlement : Settlements,
     quota : BOOLEAN,
     lockedBy : Processes \cup {None}, leaseVersion : Nat,
     lease : {"none", "live", "expired"}, startedAt : BOOLEAN]

WorkerType ==
    [pc : WorkerPC, started : BOOLEAN, last : BOOLEAN, version : Nat,
     quota : BOOLEAN, pending : BOOLEAN, attempt : AttemptIds \cup {None}, stored : Nat,
     refs : SUBSET Scopes, error : Errors, after : {"returned", "threw"}]

CloserType ==
    [pc : CloserPC, reason : Failed, seen : Settlements, refs : SUBSET Scopes, refund : BOOLEAN]

\* Every row and every local variable has the shape the schema and the code give it.
TypeOK ==
    /\ job \in JobType
    /\ attempts \in [AttemptIds -> {"none", "RUNNING", "SUCCEEDED", "FAILED"}]
    /\ outputs \in Nat
    /\ resv \in [Scopes -> {"none", "RESERVED", "RELEASED", "SETTLED"}]
    /\ ledger \in [spend : Nat, extra : Nat, back : Nat, refund : Nat, enqueue : Nat]
    /\ books \in SUBSET {"CAPTURE", "REFUND"}
    /\ worker \in [Deliveries -> WorkerType]
    /\ closer \in [Closers -> CloserType]

(***************************************************************************)
(* Safety invariants.                                                      *)
(***************************************************************************)

\* A job succeeds only once it is settled, a settled job never fails, and
\* only a failed or cancelled job gives its money back (succeed, fail, cancel
\* and finalizeTerminal race for the same row).
OutcomeMatchesMoney ==
    /\ job.status = "SUCCEEDED" => job.settlement = "SETTLED"
    /\ job.status \in Failed => job.settlement # "SETTLED"
    /\ job.settlement \in Closed => job.status \in Failed

\* A settled job keeps its charge and has every hold settled, with no hold
\* settled outside that transaction; a closed job has no hold left and owes
\* nothing, and is REFUNDED exactly when credits went back.
MoneyIsWhole ==
    /\ job.settlement = "SETTLED" => ledger.refund = 0
    /\ \A s \in Scopes : (resv[s] = "SETTLED") <=> (job.settlement = "SETTLED" /\ job.quota)
    /\ job.settlement \in Closed =>
          /\ Outstanding = 0
          /\ \A s \in Scopes : resv[s] # "RESERVED"
          /\ (job.settlement = "REFUNDED") <=> (ledger.refund > 0)

\* Whoever refunds, and however often, the user never gets back more than
\* the job took (refundOutstandingGeneration and create()'s enqueue-refund).
NeverOverRefunded == Given <= Taken

\* The platform never pays two Providers for one job: at most one attempt is
\* running or has succeeded, over every delivery and failover.
OneBillableAttempt == Cardinality(Unresolved) <= 1

\* A job back in the queue that still may call a Provider has no attempt a
\* Provider may have billed (releaseForRetry and the recovery pass).
RequeuedIsReplayable ==
    job.status = "QUEUED" /\ job.settlement \in Open => Unresolved = {}

\* A charged job was answered, and all its outputs are there although
\* retries, failovers and the unfenced cleanup delete outputs.
ChargedIsDelivered ==
    job.settlement = "SETTLED" =>
        /\ \E a \in AttemptIds : attempts[a] = "SUCCEEDED"
        /\ ~Chat => outputs = Expected

\* The billing transactions tell what happened to the money: no capture
\* without a settlement, no success without its capture, no refund row
\* without a refund, no REFUNDED job without its row.
BooksMatchMoney ==
    /\ "CAPTURE" \in books => job.settlement = "SETTLED"
    /\ job.status = "SUCCEEDED" => "CAPTURE" \in books
    /\ "REFUND" \in books => ledger.refund > 0
    /\ job.settlement = "REFUNDED" => "REFUND" \in books

\* "A SETTLED job is never refunded" (ARCHITECTURE.md, 7.2): once the capture
\* of its charge is on the books, no later failure or cancellation refunds it.
CapturedIsNeverRefunded == "CAPTURE" \in books => ledger.refund = 0

(***************************************************************************)
(* What makes OutcomeMatchesMoney inductive when no two deliveries share a *)
(* process: a delivery that holds the lease has not been overtaken.        *)
(***************************************************************************)
OwnProcesses == \A d, e \in Deliveries : Process[d] = Process[e] => d = e

\* From the read-back to the settlement, and on the ways to a failed job.
BeforeSettlement == {"reserve", "adopt", "unreserve", "clean", "start", "call", "undo",
                     "refused", "accept", "mark", "adjust", "remark", "finalize", "fail"}

\* Only a running job is locked.
LockedIsRunning == job.lockedBy # None => job.status = "RUNNING"

\* Only the owner of the lease settles, so it knows what the settlement is not.
OwnerSettles ==
    \A d \in Deliveries : HoldsLease(d) /\ worker[d].pc \in BeforeSettlement =>
                             job.settlement \in Unsettled

\* A delivery past Verify saw the job SETTLED, and SETTLED is final.
VerifiedIsSettled ==
    \A d \in Deliveries : worker[d].pc \in {"book", "finish"} => job.settlement = "SETTLED"

LeaseInvariant ==
    LockedIsRunning /\ OwnerSettles /\ VerifiedIsSettled /\ OutcomeMatchesMoney

(***************************************************************************)
(* Action properties.                                                      *)
(***************************************************************************)

\* A Provider call starts only while the job is open, with the money still
\* held in full: after start() of a job whose holds are being released or
\* whose earlier answer waits for reconciliation, the call would be unpaid.
CallsArePaidFor ==
    [][\A a \in AttemptIds : attempts[a] = "none" /\ attempts'[a] = "RUNNING" =>
          /\ job.settlement \in Open
          /\ IF job.quota THEN \A s \in Scopes : resv[s] = "RESERVED" ELSE ledger.spend = Cost
          /\ ledger.refund = 0]_vars

\* A terminal status and a final settlement are never overwritten, whatever
\* stale worker, request or recovery pass still runs.
KeepsFinal ==
    /\ job.status \in Terminal => job'.status = job.status
    /\ job.settlement \in Closed \cup {"SETTLED"} => job'.settlement = job.settlement

FinalIsFinal == [][KeepsFinal]_vars

(***************************************************************************)
(* The contract of the job, which workers, closers and recovery implement. *)
(***************************************************************************)
Contract ==
    INSTANCE SettlementContract WITH
        status     <- IF job.status \in Terminal THEN job.status ELSE "active",
        settlement <- job.settlement,
        billable   <- Unresolved # {},
        balance    <- Outstanding,
        held       <- {s \in Scopes : resv[s] = "RESERVED"}

\* Deliveries, recovery and cancellation together keep the contract of the
\* job: each of their steps is one of its steps or none at all.
ImplementsContract == Contract!Spec

(***************************************************************************)
(* Liveness: the recovery pass closes every failed or cancelled job.       *)
(* Strong fairness of each statement of a recoverer: the pass runs again   *)
(* after every failure, and no statement fails for ever.                   *)
(***************************************************************************)
CloserFairness(r) ==
    /\ WF_vars(RecoverTerminal(r))
    /\ SF_vars(Publish(r)) /\ SF_vars(Inspect(r)) /\ SF_vars(RefundOutstanding(r))
    /\ SF_vars(RecordRefund(r)) /\ SF_vars(ReleaseHold(r)) /\ SF_vars(CloseSettlement(r))

FairSpec == Spec /\ \A r \in Recoverers : CloserFairness(r)

\* A job that failed or was cancelled gets its holds released and its credits
\* back in the end, although each attempt at closing it may stop half-way.
FailedIsMadeWhole == (job.status \in Failed) ~> (job.settlement \in Closed)
=============================================================================
