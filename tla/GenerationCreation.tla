-------------------------- MODULE GenerationCreation --------------------------
(***************************************************************************)
(* create() of generations.service.ts beside everything GenerationJob      *)
(* models.  The row is committed QUEUED and PENDING first; the holds, the  *)
(* credits, the mark RESERVED and the queue job follow as statements of    *)
(* their own, each of which may fail or commit unacknowledged, and so does *)
(* the catch block that takes them back.  Meanwhile the user may cancel    *)
(* the row, a start-up pass of another process may enqueue it, and the     *)
(* recovery pass may close it.                                             *)
(***************************************************************************)
EXTENDS GenerationJob

CONSTANT Overage  \* the plan pays with credits once its quota runs out

ASSUME OverageAssumption == Overage \in BOOLEAN

VARIABLE creator  \* the local state of create()

createVars == <<vars, creator>>

CreatorPC == {"hold", "giveback", "update", "spend", "mark", "queue", "fail", "refund",
              "release", "close", "over"}

NewCreator == [pc |-> IF Scopes = {} THEN "spend" ELSE "hold", spent |-> FALSE, released |-> TRUE,
               refs |-> {}]

\* The row before anything was held or spent for it.
CreateInit ==
    /\ job = NewJob("PENDING", Scopes # {})
    /\ resv = [s \in Scopes |-> "none"]
    /\ ledger = NoLedger
    /\ attempts = [a \in AttemptIds |-> "none"]
    /\ outputs = 0
    /\ books = {}
    /\ worker = [d \in Deliveries |-> Idle]
    /\ closer = [c \in Closers |-> NoClose]
    /\ creator = NewCreator

GotoCreate(label) == creator' = [creator EXCEPT !.pc = label]

\* Any error of the try block ends in the catch block.
CreateFails(label) ==
    /\ creator.pc = label
    /\ GotoCreate("fail")
    /\ UNCHANGED vars

(***************************************************************************)
(* The holds, one scope after the other.  tokenQuota.reserve() does not    *)
(* look at the job: a cancelled and closed job is held for all the same.   *)
(***************************************************************************)
HoldScope ==
    /\ creator.pc = "hold"
    /\ \E s \in Scopes :
          /\ resv[s] = "none"
          /\ resv' = [resv EXCEPT ![s] = "RESERVED"]
          /\ \/ creator' = [creator EXCEPT !.refs = @ \cup {s}]
             \/ GotoCreate("fail")  \* committed, the acknowledgement lost
    /\ UNCHANGED <<job, attempts, outputs, ledger, books, worker, closer>>

AllHeld ==
    /\ creator.pc = "hold"
    /\ creator.refs = Scopes
    /\ GotoCreate("update")
    /\ UNCHANGED vars

\* The quota of a scope is used up: fall back to credits, or give up.
QuotaExhausted ==
    /\ creator.pc = "hold"
    /\ creator.refs # Scopes
    /\ GotoCreate(IF Overage THEN "giveback" ELSE "fail")
    /\ UNCHANGED vars

GiveBack ==
    /\ creator.pc = "giveback"
    /\ \/ \E s \in creator.refs :
            /\ ReleaseReservation(s)
            /\ creator' = [creator EXCEPT !.refs = @ \ {s}]
       \/ /\ creator.refs = {}
          /\ GotoCreate("update")
          /\ UNCHANGED resv
    /\ UNCHANGED <<job, attempts, outputs, ledger, books, worker, closer>>

\* The options of the row are rewritten with what was really held.
UpdateOptions ==
    /\ creator.pc = "update"
    /\ job' = [job EXCEPT !.quota = creator.refs # {}]
    /\ GotoCreate(IF creator.refs = {} THEN "spend" ELSE "mark")
    /\ UNCHANGED <<attempts, outputs, resv, ledger, books, worker, closer>>

\* Mutant of Spendable: credits are taken for a job that is already over.
SpendableAlways == TRUE

\* assertGenerationChargeable for a request, which holds no lease.
Spendable == job.status \in {"QUEUED", "RUNNING"} /\ job.settlement \in Unsettled

Spend ==
    /\ creator.pc = "spend"
    /\ Spendable
    /\ ledger' = [ledger EXCEPT !.spend = Cost]
    /\ \/ creator' = [creator EXCEPT !.pc = "mark", !.spent = TRUE]
       \/ GotoCreate("fail")  \* committed, the acknowledgement lost
    /\ UNCHANGED <<job, attempts, outputs, resv, books, worker, closer>>

(***************************************************************************)
(* RESERVED is written whatever the row has become, then the queue job is  *)
(* added; the answer of either may be lost.                                *)
(***************************************************************************)
MarkReserved ==
    /\ creator.pc = "mark"
    /\ job' = [job EXCEPT !.settlement = "RESERVED"]
    /\ GotoCreate("queue") \/ GotoCreate("fail")
    /\ UNCHANGED <<attempts, outputs, resv, ledger, books, worker, closer>>

AddToQueue ==
    /\ creator.pc = "queue"
    /\ GotoCreate("over")
    /\ UNCHANGED vars

(***************************************************************************)
(* The catch block.                                                        *)
(***************************************************************************)
\* lifecycle.fail without a lease only fails a row still QUEUED.
FailQueued ==
    /\ creator.pc = "fail"
    /\ job' = IF job.status = "QUEUED" THEN [Unlocked(job) EXCEPT !.status = "FAILED"] ELSE job
    /\ GotoCreate(IF creator.spent THEN "refund" ELSE "release")
    /\ UNCHANGED <<attempts, outputs, resv, ledger, books, worker, closer>>

Refundable == job.settlement \in Unsettled

\* The whole cost goes back under a key of its own, whatever another refund
\* gave back; a refused refund leaves the catch block.
RefundAll ==
    /\ creator.pc = "refund"
    /\ \/ /\ Refundable
          /\ ledger' = [ledger EXCEPT !.enqueue = Cost]
          /\ \/ GotoCreate("release") /\ books' \in {books, books \cup {"REFUND"}}
             \/ GotoCreate("over") /\ UNCHANGED books  \* the acknowledgement lost
       \/ /\ ~Refundable
          /\ GotoCreate("over")
          /\ UNCHANGED <<ledger, books>>
    /\ UNCHANGED <<job, attempts, outputs, resv, worker, closer>>

\* releaseTokenReservations reads the table; a settled hold releases nothing.
ListHolds ==
    /\ creator.pc = "release"
    /\ \/ /\ \A s \in Scopes : resv[s] # "SETTLED"
          /\ creator' = [creator EXCEPT !.pc = "close", !.refs = {s \in Scopes : resv[s] = "RESERVED"}]
       \/ creator' = [creator EXCEPT !.pc = "close", !.refs = {}, !.released = FALSE]
    /\ UNCHANGED vars

ReleaseHeld ==
    /\ creator.pc = "close"
    /\ \E s \in creator.refs :
          \/ ReleaseReservation(s) /\ creator' = [creator EXCEPT !.refs = @ \ {s}]
          \/ /\ creator' = [creator EXCEPT !.refs = @ \ {s}, !.released = FALSE]
             /\ UNCHANGED resv
    /\ UNCHANGED <<job, attempts, outputs, ledger, books, worker, closer>>

\* Mutant of ClosedAs: a hold that could not be released does not matter.
ClosedAsReleased == IF creator.spent THEN "REFUNDED" ELSE "RELEASED"

ClosedAs == IF ~creator.released THEN "RECONCILING"
            ELSE IF creator.spent THEN "REFUNDED" ELSE "RELEASED"

\* The last write looks at nothing either, and its failure is ignored.
WriteSettlement ==
    /\ creator.pc = "close"
    /\ creator.refs = {}
    /\ job' \in {job, [job EXCEPT !.settlement = ClosedAs]}
    /\ GotoCreate("over")
    /\ UNCHANGED <<attempts, outputs, resv, ledger, books, worker, closer>>

\* A statement outside the inner catch fails, or the process dies.
Abandon ==
    /\ creator.pc # "over"
    /\ GotoCreate("over")
    /\ UNCHANGED vars

-----------------------------------------------------------------------------
CreateStep ==
    \/ HoldScope \/ AllHeld \/ QuotaExhausted \/ GiveBack \/ UpdateOptions
    \/ Spend \/ MarkReserved \/ AddToQueue
    \/ \E label \in {"hold", "giveback", "update", "spend", "mark", "queue"} : CreateFails(label)
    \/ FailQueued \/ RefundAll \/ ListHolds \/ ReleaseHeld \/ WriteSettlement \/ Abandon

CreateNext == CreateStep \/ (Next /\ UNCHANGED creator)

CreateSpec == CreateInit /\ [][CreateNext]_createVars

-----------------------------------------------------------------------------
\* The rows and the local variables of create() keep their shape.
CreationTypeOK ==
    /\ TypeOK
    /\ creator \in [pc : CreatorPC, spent : BOOLEAN, released : BOOLEAN, refs : SUBSET Scopes]

\* A job that succeeded on a quota was charged to every scope of it: the error
\* path of the request that created it, which releases holds whatever became
\* of the row, cannot release one under a delivery that goes on to settle.
SuccessIsPaid ==
    job.status = "SUCCEEDED" /\ job.quota => \A s \in Scopes : resv[s] = "SETTLED"

\* A request that writes RELEASED or REFUNDED in its error path leaves no hold
\* behind, whichever of its statements failed: the row is not looked at again.
ClosedHoldsNothing ==
    [][creator.pc = "close" /\ job' # job /\ job'.settlement \in Closed =>
          \A s \in Scopes : resv[s] # "RESERVED"]_createVars

\* Credits are only taken for a job that is not over: the cancellation of a
\* job being created ends what it can cost.
NothingSpentWhenOver ==
    [][ledger'.spend > ledger.spend => job.status \notin Terminal /\ job.settlement \notin Closed]_createVars

\* However the request, the cancellation and the recovery pass race, at most
\* the cost of the job is given back on top of what it took.
OverRefundIsBounded == Given <= Taken + Cost
=============================================================================
