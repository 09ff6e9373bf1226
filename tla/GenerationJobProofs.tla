------------------------ MODULE GenerationJobProofs ------------------------
(***************************************************************************)
(* Theorems about GenerationJob, for any number of deliveries, recoverers, *)
(* scopes, attempts and outputs, any cost and any bound on the leases.     *)
(* The first part is about the types, the leases, the outcome and the      *)
(* attempts; the second about the money and the refinement.                *)
(***************************************************************************)
EXTENDS GenerationJob, FiniteSetTheorems, TLAPS

-----------------------------------------------------------------------------
(***************************************************************************)
(* Type correctness: the local states first, then every action.            *)
(***************************************************************************)
WorkersType == worker \in [Deliveries -> WorkerType]
ClosersType == closer \in [Closers -> CloserType]

\* The initial local states are of their types.
LEMMA IdleTypes == Idle \in WorkerType /\ NoClose \in CloserType
BY DEF Idle, NoClose, WorkerType, CloserType, WorkerPC, CloserPC, Errors, Failed,
       Settlements, Unsettled, Closed

\* A row, and a local state, in which one field is replaced.
LEMMA JobFields ==
    ASSUME NEW j \in JobType
    PROVE  /\ \A x \in {"QUEUED", "RUNNING"} \cup Terminal : [j EXCEPT !.status = x] \in JobType
           /\ \A x \in Settlements          : [j EXCEPT !.settlement = x] \in JobType
           /\ \A x \in Processes \cup {None} : [j EXCEPT !.lockedBy = x] \in JobType
           /\ \A x \in Nat                  : [j EXCEPT !.leaseVersion = x] \in JobType
           /\ \A x \in {"none", "live", "expired"} : [j EXCEPT !.lease = x] \in JobType
           /\ \A x \in BOOLEAN              : [j EXCEPT !.startedAt = x] \in JobType
BY DEF JobType

LEMMA WorkerFields ==
    ASSUME NEW w \in WorkerType
    PROVE  /\ \A x \in WorkerPC : [w EXCEPT !.pc = x] \in WorkerType
           /\ \A x \in BOOLEAN  : [w EXCEPT !.started = x] \in WorkerType
           /\ \A x \in BOOLEAN  : [w EXCEPT !.last = x] \in WorkerType
           /\ \A x \in Nat      : [w EXCEPT !.version = x] \in WorkerType
           /\ \A x \in BOOLEAN  : [w EXCEPT !.quota = x] \in WorkerType
           /\ \A x \in BOOLEAN  : [w EXCEPT !.pending = x] \in WorkerType
           /\ \A x \in AttemptIds \cup {None} : [w EXCEPT !.attempt = x] \in WorkerType
           /\ \A x \in Nat      : [w EXCEPT !.stored = x] \in WorkerType
           /\ \A x \in SUBSET Scopes : [w EXCEPT !.refs = x] \in WorkerType
           /\ \A x \in Errors   : [w EXCEPT !.error = x] \in WorkerType
BY DEF WorkerType

LEMMA CloserFields ==
    ASSUME NEW f \in CloserType
    PROVE  /\ \A x \in CloserPC      : [f EXCEPT !.pc = x] \in CloserType
           /\ \A x \in Settlements   : [f EXCEPT !.seen = x] \in CloserType
           /\ \A x \in SUBSET Scopes : [f EXCEPT !.refs = x] \in CloserType
           /\ \A x \in BOOLEAN       : [f EXCEPT !.refund = x] \in CloserType
BY DEF CloserType

\* A delivery, or a closer, whose local state is replaced as a whole.
LEMMA SetWorkerType ==
    ASSUME WorkersType, NEW d \in Deliveries, NEW w \in WorkerType,
           worker' = [worker EXCEPT ![d] = w]
    PROVE  WorkersType'
BY DEF WorkersType

LEMMA SetCloserType ==
    ASSUME ClosersType, NEW c \in Closers, NEW w \in CloserType,
           closer' = [closer EXCEPT ![c] = w]
    PROVE  ClosersType'
BY DEF ClosersType

\* A delivery that goes to a label with an error.
LEMMA WorkerErrorType ==
    ASSUME NEW w \in WorkerType, NEW label \in WorkerPC, NEW error \in Errors
    PROVE  [w EXCEPT !.pc = label, !.error = error] \in WorkerType
BY WorkerFields

\* A delivery that goes to a label keeps its type.
LEMMA GotoType ==
    ASSUME WorkersType, NEW d \in Deliveries, NEW label \in WorkerPC, Goto(d, label)
    PROVE  WorkersType'
BY DEF WorkersType, Goto, WorkerType

\* A delivery that raises an error keeps its type.
LEMMA RaiseType ==
    ASSUME WorkersType, NEW d \in Deliveries, NEW error \in Errors, Raise(d, error)
    PROVE  WorkersType'
BY IdleTypes DEF WorkersType, Raise, WorkerType, WorkerPC

\* A delivery that ends keeps its type.
LEMMA EndType ==
    ASSUME WorkersType, NEW d \in Deliveries, NEW label \in WorkerPC, End(d, label)
    PROVE  WorkersType'
BY IdleTypes DEF WorkersType, End, WorkerType

\* A closer that starts keeps its type.
LEMMA BeginCloseType ==
    ASSUME ClosersType, NEW c \in Closers, NEW reason \in Failed, BeginClose(c, reason)
    PROVE  ClosersType'
BY IdleTypes DEF ClosersType, BeginClose, CloserType, CloserPC

\* A closer that goes to a label keeps its type.
LEMMA GotoCloseType ==
    ASSUME ClosersType, NEW c \in Closers, NEW label \in CloserPC, GotoClose(c, label)
    PROVE  ClosersType'
BY DEF ClosersType, GotoClose, CloserType

\* A closer that stops keeps its type, and so does the delivery that waits for it.
LEMMA StopCloseType ==
    ASSUME WorkersType, ClosersType, NEW c \in Closers, NEW complete \in BOOLEAN,
           StopClose(c, complete)
    PROVE  WorkersType' /\ ClosersType'
<1>1. ClosersType'
  BY IdleTypes DEF ClosersType, StopClose
<1>2. CASE c \notin Deliveries
  BY <1>1, <1>2 DEF StopClose, WorkersType
<1>3. CASE c \in Deliveries
  <2>1. worker[c].after \in WorkerPC
    BY <1>3 DEF WorkersType, WorkerType, WorkerPC
  <2>2. [Idle EXCEPT !.pc = IF complete THEN worker[c].after ELSE "threw"] \in WorkerType
    BY <2>1, IdleTypes DEF WorkerType, WorkerPC
  <2>3. QED BY <1>1, <1>3, <2>2 DEF StopClose, WorkersType
<1>4. QED BY <1>2, <1>3

\* So does a closer that leaves, whatever settlement it saw.
LEMMA LeaveCloseType ==
    ASSUME WorkersType, ClosersType, NEW c \in Closers, NEW settlement,
           LeaveClose(c, settlement)
    PROVE  WorkersType' /\ ClosersType'
<1> DEFINE complete == settlement \in Closed \cup {"SETTLED"}
<1>1. complete \in BOOLEAN OBVIOUS
<1>2. CASE complete /\ ~Chat /\ c # Api
  <2>1. GotoClose(c, "cleanup") /\ worker' = worker
    BY <1>2 DEF LeaveClose
  <2>2. QED BY <2>1, GotoCloseType DEF CloserPC, WorkersType
<1>3. CASE ~(complete /\ ~Chat /\ c # Api)
  <2>1. StopClose(c, complete)
    BY <1>3 DEF LeaveClose
  <2>2. QED BY <1>1, <2>1, StopCloseType
<1>4. QED BY <1>2, <1>3

\* Claiming and reading back keep the types.
LEMMA TypeOfClaim ==
    ASSUME TypeOK, NEW d \in Deliveries
    PROVE  /\ Claim(d) => TypeOK'
           /\ ClaimLost(d) => TypeOK'
           /\ ReadForeign(d) => TypeOK'
           /\ ReadOwned(d) => TypeOK'
           /\ Rest(d) => TypeOK'
<1>1. ASSUME Claim(d) PROVE TypeOK'
  <2>1. job.leaseVersion + 1 \in Nat
    BY DEF TypeOK, JobType
  <2>2. job' \in JobType
    <3>1. /\ job \in JobType
          /\ Process[d] \in Processes \cup {None}
      BY ProcessAssumption DEF TypeOK
    <3>2. job' = [job EXCEPT !.status = "RUNNING", !.lockedBy = Process[d],
                             !.leaseVersion = @ + 1, !.lease = "live", !.startedAt = TRUE]
      BY <1>1 DEF Claim
    <3>3. QED BY <2>1, <3>1, <3>2, JobFields
  <2>3. [Idle EXCEPT !.pc = "read", !.started = TRUE] \in WorkerType
    <3>1. "read" \in WorkerPC
      BY DEF WorkerPC
    <3>2. QED BY <3>1, IdleTypes, WorkerFields
  <2>4. QED BY <1>1, <2>2, <2>3 DEF TypeOK, Claim
<1>2. ASSUME ClaimLost(d) PROVE TypeOK'
  BY <1>2, IdleTypes DEF TypeOK, WorkersType, ClosersType, db, ClaimLost, WorkerType, WorkerPC
<1>3. ASSUME ReadForeign(d) PROVE TypeOK'
  BY <1>3, IdleTypes, BeginCloseType, EndType DEF TypeOK, WorkersType, ClosersType, db, ReadForeign, WorkerType, WorkerPC, JobType, Closers
<1>4. ASSUME ReadOwned(d) PROVE TypeOK'
  <2>1. AfterRead \in WorkerPC
    BY DEF AfterRead, WorkerPC
  <2>2. job.leaseVersion \in Nat /\ job.quota \in BOOLEAN
    BY DEF TypeOK, JobType
  <2>3. (job.settlement = "PENDING") \in BOOLEAN
    OBVIOUS
  <2>4. [worker[d] EXCEPT !.pc = AfterRead, !.version = job.leaseVersion,
                          !.quota = job.quota,
                          !.pending = job.settlement = "PENDING"] \in WorkerType
    <3>1. worker[d] \in WorkerType
      BY DEF TypeOK
    <3>2. QED BY <2>1, <2>2, <2>3, <3>1, WorkerFields
  <2>5. WorkersType'
    BY <1>4, <2>4, SetWorkerType DEF TypeOK, WorkersType, ReadOwned
  <2>6. QED BY <1>4, <2>5 DEF TypeOK, WorkersType, ReadOwned, db
<1>5. ASSUME Rest(d) PROVE TypeOK'
  BY <1>5, EndType DEF TypeOK, WorkersType, ClosersType, db, Rest, WorkerPC
<1>6. QED BY <1>1, <1>2, <1>3, <1>4, <1>5

\* Recovering the reservations keeps the types.
LEMMA TypeOfReserve ==
    ASSUME TypeOK, NEW d \in Deliveries
    PROVE  /\ ReserveTooEarly(d) => TypeOK'
           /\ ReserveWithoutQuota(d) => TypeOK'
           /\ ReserveFromTable(d) => TypeOK'
           /\ Adopt(d) => TypeOK'
           /\ Unreserve(d) => TypeOK'
<1>1. ASSUME ReserveTooEarly(d) PROVE TypeOK'
  BY <1>1, RaiseType DEF TypeOK, WorkersType, ClosersType, db, ReserveTooEarly, Errors
<1>2. ASSUME ReserveWithoutQuota(d) PROVE TypeOK'
  BY <1>2, RaiseType, GotoType DEF TypeOK, WorkersType, ClosersType, db, ReserveWithoutQuota, Errors, WorkerPC, RunnerStart
<1>3. ASSUME ReserveFromTable(d) PROVE TypeOK'
  <2> DEFINE refs == {s \in Scopes : resv[s] = "RESERVED"}
  <2>1. /\ [worker[d] EXCEPT !.pc = "adopt", !.pending = FALSE] \in WorkerType
        /\ [worker[d] EXCEPT !.pc = "unreserve", !.pending = FALSE, !.refs = refs] \in WorkerType
    <3>1. "adopt" \in WorkerPC /\ "unreserve" \in WorkerPC /\ worker[d] \in WorkerType
      BY DEF TypeOK, WorkerPC
    <3>2. [worker[d] EXCEPT !.pc = "adopt", !.pending = FALSE] \in WorkerType
      BY <3>1, WorkerFields
    <3>3. refs \in SUBSET Scopes
      OBVIOUS
    <3>4. [worker[d] EXCEPT !.pc = "unreserve", !.pending = FALSE, !.refs = refs] \in WorkerType
      <4> HIDE DEF refs
      <4>1. QED BY <3>1, <3>3, WorkerFields
    <3>5. QED BY <3>2, <3>4
  <2>2. CASE \A s \in Scopes : resv[s] = "RESERVED"
    <3>1. worker' = [worker EXCEPT ![d] = [@ EXCEPT !.pc = "adopt", !.pending = FALSE]]
      BY <1>3, <2>2 DEF ReserveFromTable
    <3>2. QED BY <1>3, <2>1, <3>1, SetWorkerType DEF TypeOK, WorkersType, ReserveFromTable, db
  <2>3. CASE Raise(d, "terminal")
    BY <1>3, <2>3, RaiseType DEF TypeOK, WorkersType, ReserveFromTable, db, Errors
  <2>4. CASE worker' = [worker EXCEPT ![d] = [@ EXCEPT !.pc = "unreserve", !.pending = FALSE,
                                                       !.refs = refs]]
    BY <1>3, <2>1, <2>4, SetWorkerType DEF TypeOK, WorkersType, ReserveFromTable, db
  <2>5. QED BY <1>3, <2>2, <2>3, <2>4 DEF ReserveFromTable
<1>4. ASSUME Adopt(d) PROVE TypeOK'
  BY <1>4, RaiseType, GotoType DEF TypeOK, WorkersType, ClosersType, db, Adopt, Errors, WorkerPC, RunnerStart, JobType, Settlements, Unsettled
<1>5. ASSUME Unreserve(d) PROVE TypeOK'
  BY <1>5, RaiseType DEF TypeOK, WorkersType, ClosersType, db, Unreserve, WorkerType, WorkerPC, Errors, ReleaseReservation
<1>6. QED BY <1>1, <1>2, <1>3, <1>4, <1>5

\* The runners keep the types.
LEMMA TypeOfRunner ==
    ASSUME TypeOK, NEW d \in Deliveries
    PROVE  /\ CleanOutputs(d) => TypeOK'
           /\ StartAttempt(d) => TypeOK'
           /\ NoCandidate(d) => TypeOK'
           /\ ProviderRefuses(d) => TypeOK'
           /\ StreamBreaks(d) => TypeOK'
           /\ ChatAnswers(d) => TypeOK'
           /\ StoreOutput(d) => TypeOK'
           /\ UndoOutputs(d) => TypeOK'
           /\ FailAttempt(d) => TypeOK'
           /\ SucceedAttempt(d) => TypeOK'
           /\ MarkReconciling(d) => TypeOK'
           /\ Adjust(d) => TypeOK'
<1>1. ASSUME CleanOutputs(d) PROVE TypeOK'
  BY <1>1, RaiseType, GotoType DEF TypeOK, WorkersType, ClosersType, db, CleanOutputs, Errors, WorkerPC
<1>2. ASSUME StartAttempt(d) PROVE TypeOK'
  <2>1. CASE \E a \in AttemptIds :
               /\ attempts' = [attempts EXCEPT ![a] = "RUNNING"]
               /\ worker' = [worker EXCEPT ![d] = [@ EXCEPT !.pc = "call", !.attempt = a,
                                                            !.stored = 0]]
    <3>1. PICK a \in AttemptIds :
             /\ attempts' = [attempts EXCEPT ![a] = "RUNNING"]
             /\ worker' = [worker EXCEPT ![d] = [@ EXCEPT !.pc = "call", !.attempt = a,
                                                          !.stored = 0]]
      BY <2>1
    <3>2. [worker[d] EXCEPT !.pc = "call", !.attempt = a, !.stored = 0] \in WorkerType
      <4>1. 0 \in Nat /\ "call" \in WorkerPC /\ worker[d] \in WorkerType
        BY DEF TypeOK, WorkerPC
      <4>2. QED BY <4>1, WorkerFields
    <3>3. WorkersType'
      BY <3>1, <3>2, SetWorkerType DEF TypeOK, WorkersType
    <3>4. attempts' \in [AttemptIds -> {"none", "RUNNING", "SUCCEEDED", "FAILED"}]
      BY <3>1 DEF TypeOK
    <3>5. QED BY <1>2, <3>3, <3>4 DEF TypeOK, WorkersType, StartAttempt
  <2>2. CASE UNCHANGED attempts /\ \E e \in Errors : Raise(d, e)
    BY <1>2, <2>2, RaiseType DEF TypeOK, WorkersType, StartAttempt
  <2>3. QED BY <1>2, <2>1, <2>2 DEF StartAttempt, Errors
<1>3. ASSUME NoCandidate(d) PROVE TypeOK'
  BY <1>3, RaiseType DEF TypeOK, WorkersType, ClosersType, db, NoCandidate, Errors
<1>4. ASSUME ProviderRefuses(d) PROVE TypeOK'
  <2>1. PICK e \in {"retriable", "terminal"} :
          worker' = [worker EXCEPT ![d] = [@ EXCEPT !.pc = IF Chat THEN "refused" ELSE "undo",
                                                    !.error = e]]
    BY <1>4 DEF ProviderRefuses
  <2>2. (IF Chat THEN "refused" ELSE "undo") \in WorkerPC /\ e \in Errors
    BY DEF WorkerPC, Errors
  <2>3. WorkersType'
    BY <2>1, <2>2, WorkerErrorType, SetWorkerType DEF TypeOK, WorkersType
  <2>4. QED BY <1>4, <2>3 DEF TypeOK, WorkersType, ProviderRefuses, db
<1>5. ASSUME StreamBreaks(d) PROVE TypeOK'
  BY <1>5, RaiseType DEF TypeOK, WorkersType, ClosersType, db, StreamBreaks, Errors
<1>6. ASSUME ChatAnswers(d) PROVE TypeOK'
  BY <1>6, GotoType DEF TypeOK, WorkersType, ClosersType, db, ChatAnswers, WorkerPC
<1>7. ASSUME StoreOutput(d) PROVE TypeOK'
  <2>1. CASE Goto(d, "accept") /\ UNCHANGED outputs
    BY <1>7, <2>1, GotoType DEF TypeOK, WorkersType, StoreOutput, WorkerPC
  <2>2. CASE outputs' = outputs + 1 /\ worker' = [worker EXCEPT ![d].stored = @ + 1]
    <3>1. worker[d].stored + 1 \in Nat /\ outputs + 1 \in Nat
      BY DEF TypeOK, WorkerType
    <3>2. [worker[d] EXCEPT !.stored = @ + 1] \in WorkerType
      BY <3>1 DEF TypeOK, WorkerType
    <3>3. WorkersType'
      BY <2>2, <3>2, SetWorkerType DEF TypeOK, WorkersType
    <3>4. QED BY <1>7, <2>2, <3>1, <3>3 DEF TypeOK, WorkersType, StoreOutput
  <2>3. CASE /\ worker' = [worker EXCEPT ![d] = [@ EXCEPT !.pc = "undo", !.error = "retriable"]]
             /\ UNCHANGED outputs
    <3>1. "undo" \in WorkerPC /\ "retriable" \in Errors
      BY DEF WorkerPC, Errors
    <3>2. WorkersType'
      BY <2>3, <3>1, WorkerErrorType, SetWorkerType DEF TypeOK, WorkersType
    <3>3. QED BY <1>7, <2>3, <3>2 DEF TypeOK, WorkersType, StoreOutput
  <2>4. QED BY <1>7, <2>1, <2>2, <2>3 DEF StoreOutput
<1>8. ASSUME UndoOutputs(d) PROVE TypeOK'
  <2>1. CASE outputs' = 0 /\ Goto(d, "refused")
    BY <1>8, <2>1, GotoType DEF TypeOK, WorkersType, UndoOutputs, WorkerPC
  <2>2. CASE /\ worker' = [worker EXCEPT ![d] = [@ EXCEPT !.pc = "refused", !.error = "reconcile"]]
             /\ UNCHANGED outputs
    <3>1. "refused" \in WorkerPC /\ "reconcile" \in Errors
      BY DEF WorkerPC, Errors
    <3>2. WorkersType'
      BY <2>2, <3>1, WorkerErrorType, SetWorkerType DEF TypeOK, WorkersType
    <3>3. QED BY <1>8, <2>2, <3>2 DEF TypeOK, WorkersType, UndoOutputs
  <2>3. QED BY <1>8, <2>1, <2>2 DEF UndoOutputs
<1>9. ASSUME FailAttempt(d) PROVE TypeOK'
  <2>1. WorkersType'
    <3>1. CASE Raise(d, worker[d].error) \/ Raise(d, "terminal")
      BY <3>1, RaiseType DEF TypeOK, WorkersType, WorkerType, Errors
    <3>2. CASE worker' = [worker EXCEPT ![d] = [@ EXCEPT !.pc = "start", !.error = "none",
                                                         !.attempt = None, !.stored = 0]]
      <4>1. /\ 0 \in Nat /\ "start" \in WorkerPC /\ "none" \in Errors
            /\ worker[d] \in WorkerType
        BY DEF TypeOK, WorkerPC, Errors
      <4>2. [worker[d] EXCEPT !.pc = "start", !.error = "none", !.attempt = None,
                              !.stored = 0] \in WorkerType
        BY <4>1, WorkerFields
      <4>3. QED BY <3>2, <4>2, SetWorkerType DEF TypeOK, WorkersType
    <3>3. QED BY <1>9, <3>1, <3>2 DEF FailAttempt
  <2>2. attempts' \in [AttemptIds -> {"none", "RUNNING", "SUCCEEDED", "FAILED"}]
    BY <1>9 DEF TypeOK, FailAttempt
  <2>3. QED BY <1>9, <2>1, <2>2 DEF TypeOK, WorkersType, FailAttempt
<1>10. ASSUME SucceedAttempt(d) PROVE TypeOK'
  <2>1. CASE /\ attempts' = [attempts EXCEPT ![worker[d].attempt] = "SUCCEEDED"]
             /\ worker' = [worker EXCEPT ![d] = [@ EXCEPT !.pc = "mark", !.attempt = None,
                                                          !.stored = 0]]
    <3>1. 0 \in Nat /\ "mark" \in WorkerPC /\ worker[d] \in WorkerType
      BY DEF TypeOK, WorkerPC
    <3>2. [worker[d] EXCEPT !.pc = "mark", !.attempt = None, !.stored = 0] \in WorkerType
      BY <3>1, WorkerFields
    <3>3. WorkersType'
      BY <2>1, <3>2, SetWorkerType DEF TypeOK, WorkersType
    <3>4. attempts' \in [AttemptIds -> {"none", "RUNNING", "SUCCEEDED", "FAILED"}]
      BY <2>1 DEF TypeOK
    <3>5. QED BY <1>10, <3>3, <3>4 DEF TypeOK, WorkersType, SucceedAttempt
  <2>2. CASE Raise(d, "reconcile") /\ UNCHANGED attempts
    BY <1>10, <2>2, RaiseType DEF TypeOK, WorkersType, SucceedAttempt, Errors
  <2>3. QED BY <1>10, <2>1, <2>2 DEF SucceedAttempt
<1>11. ASSUME MarkReconciling(d) PROVE TypeOK'
  BY <1>11, RaiseType, GotoType DEF TypeOK, WorkersType, ClosersType, db, MarkReconciling, Errors, WorkerPC, JobType, Settlements, Unsettled
<1>12. ASSUME Adjust(d) PROVE TypeOK'
  BY <1>12, RaiseType, GotoType, BoundAssumption DEF TypeOK, WorkersType, ClosersType, db, Adjust, Errors, WorkerPC
<1>13. QED BY <1>1, <1>2, <1>3, <1>4, <1>5, <1>6, <1>7, <1>8, <1>9, <1>10, <1>11, <1>12

\* Settling and finishing keep the types.
LEMMA TypeOfSettle ==
    ASSUME TypeOK, NEW d \in Deliveries
    PROVE  /\ SettleNonChat(d) => TypeOK'
           /\ CommitSettlement(d) => TypeOK'
           /\ CommitUnacknowledged(d) => TypeOK'
           /\ Verify(d) => TypeOK'
           /\ Book(d) => TypeOK'
           /\ Finish(d) => TypeOK'
<1>1. ASSUME SettleNonChat(d) PROVE TypeOK'
  BY <1>1, RaiseType, GotoType DEF TypeOK, WorkersType, ClosersType, db, SettleNonChat, Errors, WorkerPC, JobType, Settlements, Unsettled
<1>2. ASSUME CommitSettlement(d) PROVE TypeOK'
  BY <1>2, RaiseType, GotoType DEF TypeOK, WorkersType, ClosersType, db, CommitSettlement, Errors, WorkerPC, JobType, Settlements, SettleGeneration, SettleError
<1>3. ASSUME CommitUnacknowledged(d) PROVE TypeOK'
  BY <1>3, RaiseType DEF TypeOK, WorkersType, ClosersType, db, CommitUnacknowledged, Errors, JobType, Settlements, SettleGeneration, SettleError
<1>4. ASSUME Verify(d) PROVE TypeOK'
  BY <1>4, RaiseType, GotoType DEF TypeOK, WorkersType, ClosersType, db, Verify, Errors, WorkerPC
<1>5. ASSUME Book(d) PROVE TypeOK'
  BY <1>5, GotoType DEF TypeOK, WorkersType, ClosersType, db, Book, WorkerPC
<1>6. ASSUME Finish(d) PROVE TypeOK'
  BY <1>6, RaiseType, EndType DEF TypeOK, WorkersType, ClosersType, db, Finish, Errors, WorkerPC, JobType, Unlocked, Terminal
<1>7. QED BY <1>1, <1>2, <1>3, <1>4, <1>5, <1>6

\* The error paths keep the types.
LEMMA TypeOfError ==
    ASSUME TypeOK, NEW d \in Deliveries
    PROVE  /\ CatchForeign(d) => TypeOK'
           /\ CatchCancelled(d) => TypeOK'
           /\ CatchOwned(d) => TypeOK'
           /\ ReleaseForRetry(d) => TypeOK'
           /\ Remark(d) => TypeOK'
           /\ FailJob(d) => TypeOK'
           /\ DatabaseFails(d) => TypeOK'
           /\ Die(d) => TypeOK'
<1>1. ASSUME CatchForeign(d) PROVE TypeOK'
  BY <1>1, EndType DEF TypeOK, WorkersType, ClosersType, db, CatchForeign, WorkerPC
<1>2. ASSUME CatchCancelled(d) PROVE TypeOK'
  BY <1>2, IdleTypes, BeginCloseType DEF TypeOK, WorkersType, ClosersType, db, CatchCancelled, WorkerType, WorkerPC, Closers, Failed
<1>3. ASSUME CatchOwned(d) PROVE TypeOK'
  <2>1. PICK final \in BOOLEAN :
          worker' = [worker EXCEPT ![d] = [@ EXCEPT !.pc = AfterCatch(d, final), !.last = final,
                                                    !.error = "none"]]
    BY <1>3 DEF CatchOwned
  <2>2. AfterCatch(d, final) \in WorkerPC /\ "none" \in Errors
    BY DEF AfterCatch, WorkerPC, Errors
  <2>3. [worker[d] EXCEPT !.pc = AfterCatch(d, final), !.last = final,
                          !.error = "none"] \in WorkerType
    <3>1. worker[d] \in WorkerType
      BY DEF TypeOK
    <3>2. QED BY <2>2, <3>1, WorkerFields
  <2>4. WorkersType'
    BY <2>1, <2>3, SetWorkerType DEF TypeOK, WorkersType
  <2>5. QED BY <1>3, <2>4 DEF TypeOK, WorkersType, CatchOwned, db
<1>4. ASSUME ReleaseForRetry(d) PROVE TypeOK'
  BY <1>4, EndType DEF TypeOK, WorkersType, ClosersType, db, ReleaseForRetry, WorkerPC, JobType, Unlocked
<1>5. ASSUME Remark(d) PROVE TypeOK'
  BY <1>5, EndType, GotoType DEF TypeOK, WorkersType, ClosersType, db, Remark, WorkerPC, JobType, Settlements, Unsettled
<1>6. ASSUME FailJob(d) PROVE TypeOK'
  <2> DEFINE after == IF worker[d].pc = "finalize" THEN "returned" ELSE "threw"
  <2>1. CASE HoldsLease(d)
    <3>1. /\ job' = [Unlocked(job) EXCEPT !.status = "FAILED"]
          /\ worker' = [worker EXCEPT ![d] = [Idle EXCEPT !.pc = "closing", !.after = after]]
          /\ BeginClose(d, "FAILED")
      BY <1>6, <2>1 DEF FailJob
    <3>2. job' \in JobType
      BY <3>1 DEF TypeOK, JobType, Unlocked, Terminal, Failed
    <3>3. [Idle EXCEPT !.pc = "closing", !.after = after] \in WorkerType
      BY IdleTypes DEF WorkerType, WorkerPC
    <3>4. WorkersType'
      BY <3>1, <3>3 DEF TypeOK, WorkersType
    <3>5. ClosersType'
      BY <3>1, BeginCloseType DEF TypeOK, ClosersType, Closers, Failed
    <3>6. QED BY <1>6, <3>2, <3>4, <3>5 DEF TypeOK, WorkersType, ClosersType, FailJob
  <2>2. CASE ~HoldsLease(d)
    <3>1. End(d, after) /\ UNCHANGED <<job, closer>>
      BY <1>6, <2>2 DEF FailJob
    <3>2. QED BY <1>6, <3>1, EndType DEF TypeOK, WorkersType, FailJob, WorkerPC
  <2>3. QED BY <2>1, <2>2
<1>7. ASSUME DatabaseFails(d) PROVE TypeOK'
  BY <1>7, EndType, RaiseType DEF TypeOK, WorkersType, ClosersType, db, DatabaseFails, WorkerPC, Errors, DatabaseError, SettleError
<1>8. ASSUME Die(d) PROVE TypeOK'
  BY <1>8, IdleTypes DEF TypeOK, WorkersType, ClosersType, db, Die, Closers
<1>9. QED BY <1>1, <1>2, <1>3, <1>4, <1>5, <1>6, <1>7, <1>8

\* Closing a terminal job keeps the types.
LEMMA TypeOfClose ==
    ASSUME TypeOK, NEW c \in Closers
    PROVE  /\ Publish(c) => TypeOK'
           /\ Inspect(c) => TypeOK'
           /\ RefundOutstanding(c) => TypeOK'
           /\ RecordRefund(c) => TypeOK'
           /\ ReleaseHold(c) => TypeOK'
           /\ CloseSettlement(c) => TypeOK'
           /\ CleanTerminal(c) => TypeOK'
           /\ CloseFails(c) => TypeOK'
<1>1. ASSUME Publish(c) PROVE TypeOK'
  <2> DEFINE open == job.status = closer[c].reason /\ job.settlement \in Open
             now  == IF open THEN "RECONCILING" ELSE job.settlement
  <2>1. now \in Settlements
    BY DEF TypeOK, JobType, Settlements, Unsettled
  <2>2. job' \in JobType
    BY <1>1, <2>1 DEF TypeOK, JobType, Publish
  <2>3. CASE LeaveClose(c, now)
    BY <1>1, <2>2, <2>3, LeaveCloseType DEF TypeOK, WorkersType, ClosersType, Publish
  <2>4. CASE /\ closer' = [closer EXCEPT ![c] = [@ EXCEPT !.pc = "inspect", !.seen = now]]
             /\ UNCHANGED worker
    <3>1. [closer[c] EXCEPT !.pc = "inspect", !.seen = now] \in CloserType
      <4> HIDE DEF now
      <4>1. "inspect" \in CloserPC /\ closer[c] \in CloserType
        BY DEF TypeOK, CloserPC
      <4>2. QED BY <2>1, <4>1, CloserFields
    <3>2. QED BY <1>1, <2>2, <2>4, <3>1, SetCloserType DEF TypeOK, ClosersType, Publish
  <2>5. QED BY <1>1, <2>3, <2>4 DEF Publish
<1>2. ASSUME Inspect(c) PROVE TypeOK'
  <2> DEFINE refs == {s \in Scopes : resv[s] = "RESERVED"}
  <2>1. attempts' \in [AttemptIds -> {"none", "RUNNING", "SUCCEEDED", "FAILED"}]
    BY <1>2 DEF TypeOK, Inspect
  <2>2. CASE LeaveClose(c, job.settlement)
    BY <1>2, <2>1, <2>2, LeaveCloseType DEF TypeOK, WorkersType, ClosersType, Inspect
  <2>3. CASE /\ closer' = [closer EXCEPT ![c] = [@ EXCEPT !.pc = "refund", !.refs = refs]]
             /\ UNCHANGED worker
    <3>1. [closer[c] EXCEPT !.pc = "refund", !.refs = refs] \in CloserType
      <4>1. "refund" \in CloserPC /\ closer[c] \in CloserType /\ refs \in SUBSET Scopes
        BY DEF TypeOK, CloserPC
      <4> HIDE DEF refs
      <4>2. QED BY <4>1, CloserFields
    <3>2. QED BY <1>2, <2>1, <2>3, <3>1, SetCloserType DEF TypeOK, ClosersType, Inspect
  <2>4. QED BY <1>2, <2>2, <2>3 DEF Inspect
<1>3. ASSUME RefundOutstanding(c) PROVE TypeOK'
  <2> DEFINE amount == IF ledger.refund > 0 THEN ledger.refund ELSE Outstanding
  <2>1. amount \in Nat
    BY DEF TypeOK, Outstanding, Taken, Given
  <2>2. /\ ledger' = [ledger EXCEPT !.refund = amount]
        /\ closer' = [closer EXCEPT ![c] = [@ EXCEPT
                          !.pc = IF amount > 0 THEN "record" ELSE "release",
                          !.refund = amount > 0]]
    BY <1>3 DEF RefundOutstanding
  <2>3. ledger' \in [spend : Nat, extra : Nat, back : Nat, refund : Nat, enqueue : Nat]
    BY <2>1, <2>2 DEF TypeOK
  <2>4. /\ (amount > 0) \in BOOLEAN
        /\ (IF amount > 0 THEN "record" ELSE "release") \in CloserPC
    BY <2>1 DEF CloserPC
  <2>5. [closer[c] EXCEPT !.pc = IF amount > 0 THEN "record" ELSE "release",
                          !.refund = amount > 0] \in CloserType
    <3>1. closer[c] \in CloserType
      BY DEF TypeOK
    <3>2. QED BY <2>4, <3>1, CloserFields
  <2>6. ClosersType'
    BY <2>2, <2>5, SetCloserType DEF TypeOK, ClosersType
  <2>7. QED BY <1>3, <2>3, <2>6 DEF TypeOK, ClosersType, RefundOutstanding
<1>4. ASSUME RecordRefund(c) PROVE TypeOK'
  BY <1>4, GotoCloseType DEF TypeOK, WorkersType, ClosersType, db, RecordRefund, CloserPC
<1>5. ASSUME ReleaseHold(c) PROVE TypeOK'
  <2>1. CASE \E s \in closer[c].refs :
               ReleaseReservation(s) /\ closer' = [closer EXCEPT ![c].refs = @ \ {s}]
    <3>1. ClosersType'
      BY <2>1 DEF TypeOK, ClosersType, CloserType
    <3>2. resv' \in [Scopes -> {"none", "RESERVED", "RELEASED", "SETTLED"}]
      BY <2>1 DEF TypeOK, ReleaseReservation
    <3>3. QED BY <1>5, <3>1, <3>2 DEF TypeOK, ClosersType, ReleaseHold
  <2>2. CASE GotoClose(c, "close") /\ UNCHANGED resv
    BY <1>5, <2>2, GotoCloseType DEF TypeOK, ClosersType, ReleaseHold, CloserPC
  <2>3. QED BY <1>5, <2>1, <2>2 DEF ReleaseHold
<1>6. ASSUME CloseSettlement(c) PROVE TypeOK'
  BY <1>6, LeaveCloseType DEF TypeOK, WorkersType, ClosersType, db, CloseSettlement, JobType, Settlements, Closed, Unsettled
<1>7. ASSUME CleanTerminal(c) PROVE TypeOK'
  BY <1>7, StopCloseType DEF TypeOK, WorkersType, ClosersType, db, CleanTerminal
<1>8. ASSUME CloseFails(c) PROVE TypeOK'
  BY <1>8, StopCloseType DEF TypeOK, WorkersType, ClosersType, db, CloseFails
<1>9. QED BY <1>1, <1>2, <1>3, <1>4, <1>5, <1>6, <1>7, <1>8

\* The environment keeps the types.
LEMMA TypeOfEnvironment ==
    ASSUME TypeOK
    PROVE  /\ Cancel => TypeOK'
           /\ RecoverStaleLease => TypeOK'
           /\ Expire => TypeOK'
           /\ \A r \in Recoverers : RecoverTerminal(r) => TypeOK'
<1>0. job.leaseVersion + 1 \in Nat
  BY DEF TypeOK, JobType
<1>1. ASSUME Cancel PROVE TypeOK'
  <2>1. "RECONCILING" \in Settlements /\ "CANCELLED" \in Terminal
    BY DEF Settlements, Unsettled, Terminal, Failed
  <2>2. job' \in JobType
    <3> DEFINE settlement == IF MustReconcile THEN "RECONCILING" ELSE job.settlement
    <3>1. settlement \in Settlements
      BY <2>1 DEF TypeOK, JobType
    <3>2. /\ job \in JobType /\ None \in Processes \cup {None} /\ FALSE \in BOOLEAN
          /\ "CANCELLED" \in {"QUEUED", "RUNNING"} \cup Terminal
      BY <2>1 DEF TypeOK
    <3>3. job' = [job EXCEPT !.lockedBy = None, !.lease = "none", !.status = "CANCELLED",
                             !.leaseVersion = job.leaseVersion + 1,
                             !.settlement = settlement]
      BY <1>1, <3>2 DEF Cancel, Unlocked, JobType
    <3> HIDE DEF settlement
    <3>4. QED BY <1>0, <3>1, <3>2, <3>3, JobFields
  <2>3. ClosersType'
    BY <1>1, BeginCloseType DEF TypeOK, ClosersType, Cancel, Closers, Handlers, Failed
  <2>4. QED BY <1>1, <2>2, <2>3 DEF TypeOK, ClosersType, Cancel
<1>2. ASSUME RecoverStaleLease PROVE TypeOK'
  <2>1. "RECONCILING" \in Settlements
    BY DEF Settlements, Unsettled
  <2>2. job' \in JobType
    <3> DEFINE settlement == IF job.settlement \in Open /\ MustReconcile THEN "RECONCILING" ELSE job.settlement
    <3>1. settlement \in Settlements
      BY <2>1 DEF TypeOK, JobType
    <3>2. /\ job \in JobType /\ None \in Processes \cup {None} /\ FALSE \in BOOLEAN
          /\ "QUEUED" \in {"QUEUED", "RUNNING"} \cup Terminal
      BY <2>1 DEF TypeOK
    <3>3. job' = [job EXCEPT !.lockedBy = None, !.lease = "none", !.status = "QUEUED",
                             !.leaseVersion = job.leaseVersion + 1, !.startedAt = FALSE,
                             !.settlement = settlement]
      BY <1>2, <3>2 DEF RecoverStaleLease, Unlocked, JobType
    <3> HIDE DEF settlement
    <3>4. QED BY <1>0, <3>1, <3>2, <3>3, JobFields
  <2>3. QED BY <1>2, <2>2 DEF TypeOK, RecoverStaleLease
<1>3. ASSUME Expire PROVE TypeOK'
  BY <1>3 DEF TypeOK, Expire, JobType
<1>4. ASSUME NEW r \in Recoverers, RecoverTerminal(r) PROVE TypeOK'
  <2>1. r \in Closers
    BY DEF Closers, Handlers
  <2>2. ClosersType'
    BY <1>4, <2>1, BeginCloseType DEF TypeOK, ClosersType, RecoverTerminal
  <2>3. QED BY <1>4, <2>2 DEF TypeOK, ClosersType, RecoverTerminal, db
<1>5. QED BY <1>1, <1>2, <1>3, <1>4

\* The initial states are of their types.
LEMMA TypeInit == Init => TypeOK
<1> SUFFICES ASSUME Init PROVE TypeOK
  OBVIOUS
<1>1. /\ \A quota \in BOOLEAN : NewJob("RESERVED", quota) \in JobType
      /\ \A quota \in BOOLEAN : NewJob("PENDING", quota) \in JobType
  BY DEF NewJob, JobType, Settlements, Unsettled
<1>2. job \in JobType
  BY <1>1 DEF Init, InitMoney, InitQuota, InitCredits
<1>3. resv \in [Scopes -> {"none", "RESERVED", "RELEASED", "SETTLED"}]
  BY DEF Init, InitMoney, InitQuota, InitCredits
<1>4. ledger \in [spend : Nat, extra : Nat, back : Nat, refund : Nat, enqueue : Nat]
  <2>1. Cost \in Nat
    BY BoundAssumption
  <2>2. \A n \in Nat : [NoLedger EXCEPT !.spend = n]
                         \in [spend : Nat, extra : Nat, back : Nat, refund : Nat, enqueue : Nat]
    BY DEF NoLedger
  <2>3. NoLedger \in [spend : Nat, extra : Nat, back : Nat, refund : Nat, enqueue : Nat]
    BY DEF NoLedger
  <2>4. QED BY <2>1, <2>2, <2>3 DEF Init, InitMoney, InitQuota, InitCredits
<1>5. QED BY <1>2, <1>3, <1>4, IdleTypes DEF Init, TypeOK

\* Every step keeps the types.
LEMMA TypeStep == TypeOK /\ [Next]_vars => TypeOK'
<1> SUFFICES ASSUME TypeOK, [Next]_vars PROVE TypeOK'
  OBVIOUS
<1>1. ASSUME NEW d \in Deliveries, Claim(d) \/ ClaimLost(d) \/ Rest(d) \/ Work(d)
      PROVE  TypeOK'
  BY <1>1, TypeOfClaim, TypeOfReserve, TypeOfRunner, TypeOfSettle, TypeOfError
     DEF Work, RunnerStep, SettleStep, ErrorStep
<1>2. ASSUME Environment PROVE TypeOK'
  BY <1>2, TypeOfEnvironment, TypeOfClose DEF Environment, CloseStep
<1>3. CASE UNCHANGED vars
  BY <1>3 DEF vars, TypeOK
<1>4. QED BY <1>1, <1>2, <1>3 DEF Next

\* Every reachable row and local state has the shape that the schema and the
\* code give it, whatever the deliveries, the requests and the passes do.
THEOREM TypeCorrect == Spec => []TypeOK
<1>1. QED BY TypeInit, TypeStep, PTL DEF Spec

-----------------------------------------------------------------------------
(***************************************************************************)
(* The money follows the outcome, for deliveries on processes of their     *)
(* own.  Steps that leave the row alone come first: what they need is that *)
(* a delivery does not enter the span before the settlement, nor pass      *)
(* Verify, without knowing the settlement.                                 *)
(***************************************************************************)

\* A delivery whose local state is replaced while the row stays.
LEMMA RowKept ==
    ASSUME TypeOK, LeaseInvariant, job' = job, NEW d \in Deliveries, NEW w,
           worker' = [worker EXCEPT ![d] = w],
           w.pc \in BeforeSettlement =>
               \/ worker[d].pc \in BeforeSettlement /\ w.version = worker[d].version
               \/ job.settlement \in Unsettled,
           w.pc \in {"book", "finish"} => job.settlement = "SETTLED"
    PROVE  LeaseInvariant'
<1>1. LockedIsRunning' /\ OutcomeMatchesMoney'
  BY DEF LeaseInvariant, LockedIsRunning, OutcomeMatchesMoney
<1>2. worker'[d] = w /\ \A e \in Deliveries : e # d => worker'[e] = worker[e]
  BY DEF TypeOK
<1>3. OwnerSettles'
  BY <1>2 DEF LeaseInvariant, OwnerSettles, HoldsLease
<1>4. VerifiedIsSettled'
  BY <1>2 DEF LeaseInvariant, VerifiedIsSettled
<1>5. QED BY <1>1, <1>3, <1>4 DEF LeaseInvariant

\* Nobody moves and the row stays.
LEMMA NobodyMoves ==
    ASSUME LeaseInvariant, UNCHANGED <<job, worker>>
    PROVE  LeaseInvariant'
BY DEF LeaseInvariant, LockedIsRunning, OutcomeMatchesMoney, OwnerSettles, VerifiedIsSettled,
       HoldsLease

LEMMA GotoKept ==
    ASSUME TypeOK, LeaseInvariant, job' = job, NEW d \in Deliveries, NEW label, Goto(d, label),
           label \in BeforeSettlement => worker[d].pc \in BeforeSettlement,
           label \in {"book", "finish"} => job.settlement = "SETTLED"
    PROVE  LeaseInvariant'
<1> DEFINE w == [worker[d] EXCEPT !.pc = label]
<1>1. worker' = [worker EXCEPT ![d] = w]
  BY DEF Goto
<1>2. w.pc = label /\ w.version = worker[d].version
  BY DEF TypeOK, WorkerType
<1>3. QED BY <1>1, <1>2, RowKept

LEMMA RaiseKept ==
    ASSUME TypeOK, LeaseInvariant, job' = job, NEW d \in Deliveries, NEW error, Raise(d, error)
    PROVE  LeaseInvariant'
<1> DEFINE w == [Idle EXCEPT !.pc = "catch", !.version = worker[d].version, !.error = error]
<1>1. worker' = [worker EXCEPT ![d] = w]
  BY DEF Raise
<1>2. w.pc = "catch"
  BY DEF Idle
<1>3. w.pc \notin BeforeSettlement /\ w.pc \notin {"book", "finish"}
  BY <1>2 DEF BeforeSettlement
<1>4. QED BY <1>1, <1>3, RowKept

LEMMA EndKept ==
    ASSUME TypeOK, LeaseInvariant, job' = job, NEW d \in Deliveries,
           NEW label \in {"idle", "returned", "threw"}, End(d, label)
    PROVE  LeaseInvariant'
<1> DEFINE w == [Idle EXCEPT !.pc = label]
<1>1. worker' = [worker EXCEPT ![d] = w]
  BY DEF End
<1>2. w.pc = label
  BY DEF Idle
<1>3. w.pc \notin BeforeSettlement /\ w.pc \notin {"book", "finish"}
  BY <1>2 DEF BeforeSettlement
<1>4. QED BY <1>1, <1>3, RowKept

\* A delivery whose closing stops or goes on, while the row stays or changes.
LEMMA ClosingIsNeutral ==
    ASSUME TypeOK, NEW c \in Closers, NEW settlement,
           LeaveClose(c, settlement) \/ \E b \in BOOLEAN : StopClose(c, b)
    PROVE  \A d \in Deliveries :
              \/ worker'[d] = worker[d]
              \/ worker'[d].pc \in {"returned", "threw"}
<1>1. ASSUME NEW b \in BOOLEAN, StopClose(c, b), NEW d \in Deliveries
      PROVE  worker'[d] = worker[d] \/ worker'[d].pc \in {"returned", "threw"}
  <2>1. CASE c \notin Deliveries \/ d # c
    BY <1>1, <2>1 DEF StopClose, TypeOK
  <2>2. CASE c \in Deliveries /\ d = c
    <3>1. worker'[d] = [Idle EXCEPT !.pc = IF b THEN worker[d].after ELSE "threw"]
      BY <1>1, <2>2 DEF StopClose, TypeOK
    <3>2. worker'[d].pc = IF b THEN worker[d].after ELSE "threw"
      BY <3>1 DEF Idle
    <3>3. QED BY <3>2 DEF TypeOK, WorkerType
  <2>3. QED BY <2>1, <2>2
<1>2. CASE LeaveClose(c, settlement)
  <2> DEFINE complete == settlement \in Closed \cup {"SETTLED"}
  <2>1. complete \in BOOLEAN
    OBVIOUS
  <2>2. StopClose(c, complete) \/ worker' = worker
    BY <1>2 DEF LeaveClose
  <2>3. QED BY <1>1, <2>1, <2>2
<1>3. QED BY <1>1, <1>2

\* The settlement is marked while nothing final was decided: nobody is past
\* Verify, and whoever holds the lease still finds it unsettled.
LEMMA SettlementMarked ==
    ASSUME TypeOK, LeaseInvariant, job.settlement \in Unsettled, NEW x \in Unsettled,
           job' = [job EXCEPT !.settlement = x],
           \A d \in Deliveries : worker'[d].pc \in {"book", "finish"} =>
                                    worker[d].pc \in {"book", "finish"}
    PROVE  LeaseInvariant'
<1>1. /\ job'.settlement = x
      /\ job'.status = job.status
      /\ job'.lockedBy = job.lockedBy
  BY DEF TypeOK, JobType
<1>2. job.settlement # "SETTLED" /\ x # "SETTLED" /\ x \notin Closed
  BY DEF Unsettled, Closed
<1>3. LockedIsRunning'
  BY <1>1 DEF LeaseInvariant, LockedIsRunning
<1>4. OutcomeMatchesMoney'
  BY <1>1, <1>2 DEF LeaseInvariant, OutcomeMatchesMoney
<1>5. OwnerSettles'
  BY <1>1 DEF OwnerSettles
<1>6. VerifiedIsSettled'
  BY <1>2 DEF LeaseInvariant, VerifiedIsSettled
<1>7. QED BY <1>3, <1>4, <1>5, <1>6 DEF LeaseInvariant

\* The row is unlocked, so that nobody holds its lease any more.
LEMMA RowUnlocked ==
    ASSUME TypeOK, LeaseInvariant, job'.lockedBy = None, OutcomeMatchesMoney',
           job'.settlement = job.settlement \/ job.settlement # "SETTLED",
           \A d \in Deliveries : worker'[d].pc \in {"book", "finish"} =>
                                    worker[d].pc \in {"book", "finish"}
    PROVE  LeaseInvariant'
<1>1. LockedIsRunning'
  BY DEF LockedIsRunning
<1>2. OwnerSettles'
  BY ProcessAssumption DEF OwnerSettles, HoldsLease
<1>3. VerifiedIsSettled'
  BY DEF LeaseInvariant, VerifiedIsSettled
<1>4. QED BY <1>1, <1>2, <1>3 DEF LeaseInvariant

\* A locked row is not closed: the lease implies RUNNING, RUNNING implies open money.
LEMMA RunningIsNotClosed ==
    ASSUME TypeOK, LeaseInvariant, job.status = "RUNNING", job.settlement # "SETTLED"
    PROVE  job.settlement \in Unsettled
BY DEF TypeOK, JobType, Settlements, LeaseInvariant, OutcomeMatchesMoney, Failed

\* Claiming and reading back.
LEMMA ClaimKeepsInvariant ==
    ASSUME OwnProcesses, TypeOK, LeaseInvariant, NEW d \in Deliveries
    PROVE  /\ Claim(d) => LeaseInvariant'
           /\ ClaimLost(d) => LeaseInvariant'
           /\ ReadForeign(d) => LeaseInvariant'
           /\ ReadOwned(d) => LeaseInvariant'
           /\ Rest(d) => LeaseInvariant'
           /\ Die(d) => LeaseInvariant'
<1>1. ASSUME Claim(d) PROVE LeaseInvariant'
  <2>1. /\ job'.status = "RUNNING"
        /\ job'.lockedBy = Process[d]
        /\ job'.settlement = job.settlement
        /\ job.status = "QUEUED"
    BY <1>1 DEF Claim, Claimable, TypeOK, JobType
  <2>2. /\ worker'[d] = [Idle EXCEPT !.pc = "read", !.started = TRUE]
        /\ \A e \in Deliveries : e # d => worker'[e] = worker[e]
    BY <1>1 DEF Claim, TypeOK
  <2>3. worker'[d].pc = "read"
    BY <2>2 DEF Idle
  <2>4. LockedIsRunning'
    BY <2>1 DEF LockedIsRunning
  <2>5. OutcomeMatchesMoney'
    BY <2>1 DEF LeaseInvariant, OutcomeMatchesMoney, Failed
  <2>6. OwnerSettles'
    <3>1. SUFFICES ASSUME NEW e \in Deliveries, HoldsLease(e)',
                          worker'[e].pc \in BeforeSettlement
                   PROVE  FALSE
      BY DEF OwnerSettles
    <3>2. Process[e] = Process[d]
      BY <2>1, <3>1 DEF HoldsLease
    <3>3. e = d
      BY <3>2 DEF OwnProcesses
    <3>4. QED BY <2>3, <3>1, <3>3 DEF BeforeSettlement
  <2>7. VerifiedIsSettled'
    BY <2>1, <2>2, <2>3 DEF LeaseInvariant, VerifiedIsSettled
  <2>8. QED BY <2>4, <2>5, <2>6, <2>7 DEF LeaseInvariant
<1>2. ASSUME ClaimLost(d) PROVE LeaseInvariant'
  <2>1. [Idle EXCEPT !.pc = "read"].pc = "read"
    BY DEF Idle
  <2>2. job' = job
    BY <1>2 DEF ClaimLost, db
  <2>3. QED BY <1>2, <2>1, <2>2, RowKept DEF ClaimLost, BeforeSettlement
<1>3. ASSUME ReadForeign(d) PROVE LeaseInvariant'
  <2>1. job' = job
    BY <1>3 DEF ReadForeign, db
  <2>2. CASE worker' = [worker EXCEPT ![d] = [Idle EXCEPT !.pc = "closing"]]
    <3>1. [Idle EXCEPT !.pc = "closing"].pc = "closing"
      BY DEF Idle
    <3>2. QED BY <2>1, <2>2, <3>1, RowKept DEF BeforeSettlement
  <2>3. CASE End(d, "returned")
    BY <2>1, <2>3, EndKept
  <2>4. QED BY <1>3, <2>2, <2>3 DEF ReadForeign
<1>4. ASSUME ReadOwned(d) PROVE LeaseInvariant'
  <2> DEFINE w == [worker[d] EXCEPT !.pc = AfterRead, !.version = job.leaseVersion,
                                    !.quota = job.quota,
                                    !.pending = job.settlement = "PENDING"]
  <2>1. job' = job /\ worker' = [worker EXCEPT ![d] = w]
    BY <1>4 DEF ReadOwned, db
  <2>2. w.pc = AfterRead
    BY DEF TypeOK, WorkerType
  <2>3. job.status = "RUNNING"
    BY <1>4, ProcessAssumption DEF ReadOwned, Owns, LeaseInvariant, LockedIsRunning
  <2>4. AfterRead \in BeforeSettlement => job.settlement \in Unsettled
    <3>1. CASE job.settlement = "SETTLED"
      BY <3>1 DEF AfterRead, BeforeSettlement
    <3>2. CASE job.settlement # "SETTLED"
      BY <2>3, <3>2, RunningIsNotClosed
    <3>3. QED BY <3>1, <3>2
  <2>5. AfterRead \notin {"book", "finish"}
    BY DEF AfterRead
  <2> HIDE DEF w
  <2>6. QED BY <2>1, <2>2, <2>4, <2>5, RowKept
<1>5. ASSUME Rest(d) PROVE LeaseInvariant'
  BY <1>5, EndKept DEF Rest, db
<1>6. ASSUME Die(d) PROVE LeaseInvariant'
  <2>1. Idle.pc = "idle" /\ job' = job
    BY <1>6 DEF Idle, Die, db
  <2>2. QED BY <1>6, <2>1, RowKept DEF Die, BeforeSettlement
<1>7. QED BY <1>1, <1>2, <1>3, <1>4, <1>5, <1>6

\* Recovering the reservations.
LEMMA ReserveKeepsInvariant ==
    ASSUME TypeOK, LeaseInvariant, NEW d \in Deliveries
    PROVE  /\ ReserveTooEarly(d) => LeaseInvariant'
           /\ ReserveWithoutQuota(d) => LeaseInvariant'
           /\ ReserveFromTable(d) => LeaseInvariant'
           /\ Adopt(d) => LeaseInvariant'
           /\ Unreserve(d) => LeaseInvariant'
<1>1. ASSUME ReserveTooEarly(d) PROVE LeaseInvariant'
  BY <1>1, RaiseKept DEF ReserveTooEarly, db
<1>2. ASSUME ReserveWithoutQuota(d) PROVE LeaseInvariant'
  BY <1>2, RaiseKept, GotoKept DEF ReserveWithoutQuota, db, RunnerStart, BeforeSettlement
<1>3. ASSUME ReserveFromTable(d) PROVE LeaseInvariant'
  <2> DEFINE refs == {s \in Scopes : resv[s] = "RESERVED"}
             w1   == [worker[d] EXCEPT !.pc = "adopt", !.pending = FALSE]
             w2   == [worker[d] EXCEPT !.pc = "unreserve", !.pending = FALSE, !.refs = refs]
  <2>1. job' = job /\ worker[d].pc \in BeforeSettlement
    BY <1>3 DEF ReserveFromTable, db, BeforeSettlement
  <2>2. /\ w1.pc = "adopt" /\ w1.version = worker[d].version
        /\ w2.pc = "unreserve" /\ w2.version = worker[d].version
    BY DEF TypeOK, WorkerType
  <2>3. \/ worker' = [worker EXCEPT ![d] = w1]
        \/ worker' = [worker EXCEPT ![d] = w2]
        \/ Raise(d, "terminal")
    BY <1>3 DEF ReserveFromTable
  <2> HIDE DEF w1, w2
  <2>4. QED BY <2>1, <2>2, <2>3, RowKept, RaiseKept
<1>4. ASSUME Adopt(d) PROVE LeaseInvariant'
  <2>1. CASE Raise(d, "cancelled") /\ UNCHANGED job
    BY <2>1, RaiseKept
  <2>2. CASE /\ job.settlement \in Unsettled
             /\ job' = [job EXCEPT !.settlement = "RESERVED"]
             /\ Goto(d, RunnerStart)
    <3>1. \A e \in Deliveries : worker'[e].pc \in {"book", "finish"} =>
                                   worker[e].pc \in {"book", "finish"}
      BY <2>2 DEF Goto, RunnerStart, TypeOK, WorkerType
    <3>2. "RESERVED" \in Unsettled
      BY DEF Unsettled
    <3>3. QED BY <2>2, <3>1, <3>2, SettlementMarked
  <2>3. QED BY <1>4, <2>1, <2>2 DEF Adopt
<1>5. ASSUME Unreserve(d) PROVE LeaseInvariant'
  <2>1. CASE \E s \in worker[d].refs : worker' = [worker EXCEPT ![d].refs = @ \ {s}]
    <3>1. PICK s \in worker[d].refs : worker' = [worker EXCEPT ![d].refs = @ \ {s}]
      BY <2>1
    <3> DEFINE w == [worker[d] EXCEPT !.refs = @ \ {s}]
    <3>2. w.pc = worker[d].pc /\ w.version = worker[d].version
      BY DEF TypeOK, WorkerType
    <3>3. job' = job /\ worker' = [worker EXCEPT ![d] = w] /\ worker[d].pc = "unreserve"
      BY <1>5, <3>1 DEF Unreserve
    <3> HIDE DEF w
    <3>4. QED BY <3>2, <3>3, RowKept DEF BeforeSettlement
  <2>2. CASE Raise(d, "terminal")
    BY <1>5, <2>2, RaiseKept DEF Unreserve
  <2>3. QED BY <1>5, <2>1, <2>2 DEF Unreserve
<1>6. QED BY <1>1, <1>2, <1>3, <1>4, <1>5

\* The runners.
LEMMA RunnerKeepsInvariant ==
    ASSUME TypeOK, LeaseInvariant, NEW d \in Deliveries
    PROVE  RunnerStep(d) => LeaseInvariant'
<1>1. ASSUME CleanOutputs(d) PROVE LeaseInvariant'
  BY <1>1, RaiseKept, GotoKept DEF CleanOutputs, BeforeSettlement
<1>2. ASSUME StartAttempt(d) PROVE LeaseInvariant'
  <2>1. CASE \E e \in Errors : Raise(d, e)
    BY <1>2, <2>1, RaiseKept DEF StartAttempt
  <2>2. CASE \E a \in AttemptIds : worker' = [worker EXCEPT ![d] =
                [@ EXCEPT !.pc = "call", !.attempt = a, !.stored = 0]]
    <3>1. PICK a \in AttemptIds : worker' = [worker EXCEPT ![d] =
                [@ EXCEPT !.pc = "call", !.attempt = a, !.stored = 0]]
      BY <2>2
    <3> DEFINE w == [worker[d] EXCEPT !.pc = "call", !.attempt = a, !.stored = 0]
    <3>2. w.pc = "call" /\ w.version = worker[d].version
      BY DEF TypeOK, WorkerType
    <3>3. job' = job /\ worker' = [worker EXCEPT ![d] = w] /\ worker[d].pc = "start"
      BY <1>2, <3>1 DEF StartAttempt
    <3> HIDE DEF w
    <3>4. QED BY <3>2, <3>3, RowKept DEF BeforeSettlement
  <2>3. QED BY <1>2, <2>1, <2>2 DEF StartAttempt, Errors
<1>3. ASSUME NoCandidate(d) PROVE LeaseInvariant'
  BY <1>3, RaiseKept DEF NoCandidate, db
<1>4. ASSUME ProviderRefuses(d) PROVE LeaseInvariant'
  <2>1. PICK e \in {"retriable", "terminal"} : worker' = [worker EXCEPT ![d] =
            [@ EXCEPT !.pc = IF Chat THEN "refused" ELSE "undo", !.error = e]]
    BY <1>4 DEF ProviderRefuses
  <2> DEFINE w == [worker[d] EXCEPT !.pc = IF Chat THEN "refused" ELSE "undo", !.error = e]
  <2>2. w.pc \in {"refused", "undo"} /\ w.version = worker[d].version
    BY DEF TypeOK, WorkerType
  <2>3. job' = job /\ worker' = [worker EXCEPT ![d] = w] /\ worker[d].pc = "call"
    BY <1>4, <2>1 DEF ProviderRefuses, db
  <2> HIDE DEF w
  <2>4. QED BY <2>2, <2>3, RowKept DEF BeforeSettlement
<1>5. ASSUME StreamBreaks(d) PROVE LeaseInvariant'
  BY <1>5, RaiseKept DEF StreamBreaks, db
<1>6. ASSUME ChatAnswers(d) PROVE LeaseInvariant'
  BY <1>6, GotoKept DEF ChatAnswers, db, BeforeSettlement
<1>7. ASSUME StoreOutput(d) PROVE LeaseInvariant'
  <2> DEFINE w1 == [worker[d] EXCEPT !.stored = @ + 1]
             w2 == [worker[d] EXCEPT !.pc = "undo", !.error = "retriable"]
  <2>1. /\ w1.pc = worker[d].pc /\ w1.version = worker[d].version
        /\ w2.pc = "undo" /\ w2.version = worker[d].version
    BY DEF TypeOK, WorkerType
  <2>2. job' = job /\ worker[d].pc = "call"
    BY <1>7 DEF StoreOutput
  <2>3. \/ worker' = [worker EXCEPT ![d] = w1]
        \/ worker' = [worker EXCEPT ![d] = w2]
        \/ Goto(d, "accept")
    BY <1>7 DEF StoreOutput
  <2> HIDE DEF w1, w2
  <2>4. QED BY <2>1, <2>2, <2>3, RowKept, GotoKept DEF BeforeSettlement
<1>8. ASSUME UndoOutputs(d) PROVE LeaseInvariant'
  <2> DEFINE w == [worker[d] EXCEPT !.pc = "refused", !.error = "reconcile"]
  <2>1. w.pc = "refused" /\ w.version = worker[d].version
    BY DEF TypeOK, WorkerType
  <2>2. job' = job /\ worker[d].pc = "undo"
    BY <1>8 DEF UndoOutputs
  <2>3. worker' = [worker EXCEPT ![d] = w] \/ Goto(d, "refused")
    BY <1>8 DEF UndoOutputs
  <2> HIDE DEF w
  <2>4. QED BY <2>1, <2>2, <2>3, RowKept, GotoKept DEF BeforeSettlement
<1>9. ASSUME FailAttempt(d) PROVE LeaseInvariant'
  <2> DEFINE w == [worker[d] EXCEPT !.pc = "start", !.error = "none", !.attempt = None,
                                    !.stored = 0]
  <2>1. w.pc = "start" /\ w.version = worker[d].version
    BY DEF TypeOK, WorkerType
  <2>2. job' = job /\ worker[d].pc = "refused"
    BY <1>9 DEF FailAttempt
  <2>3. \/ worker' = [worker EXCEPT ![d] = w]
        \/ Raise(d, worker[d].error) \/ Raise(d, "terminal")
    BY <1>9 DEF FailAttempt
  <2> HIDE DEF w
  <2>4. QED BY <2>1, <2>2, <2>3, RowKept, RaiseKept DEF BeforeSettlement
<1>10. ASSUME SucceedAttempt(d) PROVE LeaseInvariant'
  <2> DEFINE w == [worker[d] EXCEPT !.pc = "mark", !.attempt = None, !.stored = 0]
  <2>1. w.pc = "mark" /\ w.version = worker[d].version
    BY DEF TypeOK, WorkerType
  <2>2. job' = job /\ worker[d].pc = "accept"
    BY <1>10 DEF SucceedAttempt
  <2>3. worker' = [worker EXCEPT ![d] = w] \/ Raise(d, "reconcile")
    BY <1>10 DEF SucceedAttempt
  <2> HIDE DEF w
  <2>4. QED BY <2>1, <2>2, <2>3, RowKept, RaiseKept DEF BeforeSettlement
<1>11. ASSUME MarkReconciling(d) PROVE LeaseInvariant'
  <2>1. CASE Raise(d, "reconcile") /\ UNCHANGED job
    BY <2>1, RaiseKept
  <2>2. CASE /\ HoldsLease(d)
             /\ job' = [job EXCEPT !.settlement = "RECONCILING"]
             /\ Goto(d, IF Chat THEN "adjust" ELSE "settle")
    <3>1. job.settlement \in Unsettled
      BY <1>11, <2>2 DEF MarkReconciling, LeaseInvariant, OwnerSettles, BeforeSettlement
    <3>2. \A e \in Deliveries : worker'[e].pc \in {"book", "finish"} =>
                                   worker[e].pc \in {"book", "finish"}
      BY <2>2 DEF Goto, TypeOK, WorkerType
    <3>3. "RECONCILING" \in Unsettled
      BY DEF Unsettled
    <3>4. QED BY <2>2, <3>1, <3>2, <3>3, SettlementMarked
  <2>3. QED BY <1>11, <2>1, <2>2 DEF MarkReconciling
<1>12. ASSUME Adjust(d) PROVE LeaseInvariant'
  BY <1>12, RaiseKept, GotoKept DEF Adjust, BeforeSettlement
<1>13. QED BY <1>1, <1>2, <1>3, <1>4, <1>5, <1>6, <1>7, <1>8, <1>9, <1>10, <1>11, <1>12
           DEF RunnerStep

\* The settlement: the one step at which the row becomes SETTLED.
LEMMA Settles ==
    ASSUME OwnProcesses, TypeOK, LeaseInvariant, NEW d \in Deliveries, CanSettle(d),
           SettleGeneration(d),
           worker'[d].pc \notin BeforeSettlement \cup {"book", "finish"},
           \A e \in Deliveries : e # d => worker'[e] = worker[e]
    PROVE  LeaseInvariant'
<1>1. /\ job'.settlement = "SETTLED"
      /\ job'.status = job.status
      /\ job'.lockedBy = job.lockedBy
      /\ job.status = "RUNNING"
      /\ job.lockedBy = Process[d]
  BY DEF SettleGeneration, CanSettle, HoldsLease, TypeOK, JobType
<1>2. LockedIsRunning' /\ OutcomeMatchesMoney' /\ VerifiedIsSettled'
  BY <1>1 DEF LockedIsRunning, OutcomeMatchesMoney, VerifiedIsSettled, Failed, Closed
<1>3. OwnerSettles'
  <2>1. SUFFICES ASSUME NEW e \in Deliveries, HoldsLease(e)', worker'[e].pc \in BeforeSettlement
                 PROVE  FALSE
    BY DEF OwnerSettles
  <2>2. Process[e] = Process[d]
    BY <1>1, <2>1 DEF HoldsLease
  <2>3. e = d
    BY <2>2 DEF OwnProcesses
  <2>4. QED BY <2>1, <2>3
<1>4. QED BY <1>2, <1>3 DEF LeaseInvariant

LEMMA SettleKeepsInvariant ==
    ASSUME OwnProcesses, TypeOK, LeaseInvariant, NEW d \in Deliveries
    PROVE  SettleStep(d) => LeaseInvariant'
<1>0. ASSUME NEW label, NEW error,
             Goto(d, label) \/ Raise(d, error)
      PROVE  /\ worker'[d].pc \in {label, "catch"}
             /\ \A e \in Deliveries : e # d => worker'[e] = worker[e]
  <2>1. CASE Goto(d, label)
    BY <2>1 DEF Goto, TypeOK, WorkerType
  <2>2. CASE Raise(d, error)
    <3>1. worker' = [worker EXCEPT ![d] =
              [Idle EXCEPT !.pc = "catch", !.version = worker[d].version, !.error = error]]
      BY <2>2 DEF Raise
    <3>2. [Idle EXCEPT !.pc = "catch", !.version = worker[d].version, !.error = error].pc = "catch"
      BY DEF Idle
    <3>3. QED BY <3>1, <3>2 DEF TypeOK
  <2>3. QED BY <1>0, <2>1, <2>2
<1>1. ASSUME SettleNonChat(d) PROVE LeaseInvariant'
  <2>1. CASE Raise(d, "terminal") /\ UNCHANGED job
    BY <2>1, RaiseKept
  <2>2. CASE job.settlement = "SETTLED" /\ job' = [job EXCEPT !.settlement = job.settlement]
             /\ Goto(d, "commit")
    <3>1. job' = job
      BY <2>2 DEF TypeOK, JobType
    <3>2. QED BY <2>2, <3>1, GotoKept DEF BeforeSettlement
  <2>3. CASE job.settlement \in Unsettled /\ job' = [job EXCEPT !.settlement = "RECONCILING"]
             /\ Goto(d, "commit")
    <3>1. \A e \in Deliveries : worker'[e].pc \in {"book", "finish"} =>
                                   worker[e].pc \in {"book", "finish"}
      BY <2>3 DEF Goto, TypeOK, WorkerType
    <3>2. "RECONCILING" \in Unsettled
      BY DEF Unsettled
    <3>3. QED BY <2>3, <3>1, <3>2, SettlementMarked
  <2>4. QED BY <1>1, <2>1, <2>2, <2>3 DEF SettleNonChat, Unsettled
<1>2. ASSUME CommitSettlement(d) PROVE LeaseInvariant'
  <2>1. CASE CanSettle(d)
    <3>1. Goto(d, "verify") /\ SettleGeneration(d)
      BY <1>2, <2>1 DEF CommitSettlement
    <3>2. QED BY <1>0, <2>1, <3>1, Settles DEF BeforeSettlement
  <2>2. CASE ~CanSettle(d)
    <3>1. job' = job /\ (Goto(d, "verify") \/ Raise(d, SettleError))
      BY <1>2, <2>2 DEF CommitSettlement, SettleGeneration
    <3>2. QED BY <3>1, GotoKept, RaiseKept DEF BeforeSettlement
  <2>3. QED BY <2>1, <2>2
<1>3. ASSUME CommitUnacknowledged(d) PROVE LeaseInvariant'
  <2>1. CanSettle(d) /\ SettleGeneration(d) /\ Raise(d, SettleError)
    BY <1>3 DEF CommitUnacknowledged
  <2>2. worker'[d].pc \in {"verify", "catch"} /\ \A e \in Deliveries : e # d => worker'[e] = worker[e]
    BY <1>0, <2>1
  <2>3. QED BY <2>1, <2>2, Settles DEF BeforeSettlement
<1>4. ASSUME Verify(d) PROVE LeaseInvariant'
  BY <1>4, RaiseKept, GotoKept DEF Verify, db, BeforeSettlement
<1>5. ASSUME Book(d) PROVE LeaseInvariant'
  <2>1. job.settlement = "SETTLED" /\ Goto(d, "finish") /\ job' = job
    BY <1>5 DEF Book, LeaseInvariant, VerifiedIsSettled
  <2>2. QED BY <2>1, GotoKept DEF BeforeSettlement
<1>6. ASSUME Finish(d) PROVE LeaseInvariant'
  <2>1. CASE Raise(d, "leaselost") /\ UNCHANGED job
    BY <2>1, RaiseKept
  <2>2. CASE /\ job' = [Unlocked(job) EXCEPT !.status = "SUCCEEDED"]
             /\ End(d, "returned")
    <3>1. job.settlement = "SETTLED"
      BY <1>6 DEF Finish, LeaseInvariant, VerifiedIsSettled
    <3>2. /\ job'.lockedBy = None
          /\ job'.status = "SUCCEEDED"
          /\ job'.settlement = job.settlement
      BY <2>2 DEF Unlocked, TypeOK, JobType
    <3>3. OutcomeMatchesMoney'
      BY <3>1, <3>2 DEF OutcomeMatchesMoney, Failed, Closed
    <3>4. \A e \in Deliveries : worker'[e].pc \in {"book", "finish"} =>
                                   worker[e].pc \in {"book", "finish"}
      BY <2>2 DEF End, Idle, TypeOK
    <3>5. QED BY <3>2, <3>3, <3>4, RowUnlocked
  <2>3. QED BY <1>6, <2>1, <2>2 DEF Finish
<1>7. QED BY <1>1, <1>2, <1>3, <1>4, <1>5, <1>6 DEF SettleStep

\* The error paths.
LEMMA ErrorKeepsInvariant ==
    ASSUME TypeOK, LeaseInvariant, NEW d \in Deliveries
    PROVE  ErrorStep(d) => LeaseInvariant'
<1>1. ASSUME CatchForeign(d) PROVE LeaseInvariant'
  BY <1>1, EndKept DEF CatchForeign, db
<1>2. ASSUME CatchCancelled(d) PROVE LeaseInvariant'
  <2>1. [Idle EXCEPT !.pc = "closing"].pc = "closing"
    BY DEF Idle
  <2>2. job' = job /\ worker' = [worker EXCEPT ![d] = [Idle EXCEPT !.pc = "closing"]]
    BY <1>2 DEF CatchCancelled, db
  <2>3. QED BY <2>1, <2>2, RowKept DEF BeforeSettlement
<1>3. ASSUME CatchOwned(d) PROVE LeaseInvariant'
  <2>1. PICK final \in BOOLEAN : worker' = [worker EXCEPT ![d] =
            [@ EXCEPT !.pc = AfterCatch(d, final), !.last = final, !.error = "none"]]
    BY <1>3 DEF CatchOwned
  <2> DEFINE w == [worker[d] EXCEPT !.pc = AfterCatch(d, final), !.last = final, !.error = "none"]
  <2>2. w.pc = AfterCatch(d, final)
    BY DEF TypeOK, WorkerType
  <2>3. job' = job /\ worker' = [worker EXCEPT ![d] = w]
    BY <1>3, <2>1 DEF CatchOwned, db
  <2>4. AfterCatch(d, final) \in BeforeSettlement => job.settlement \in Unsettled
    <3>1. CASE job.settlement = "SETTLED"
      BY <3>1 DEF AfterCatch, BeforeSettlement
    <3>2. CASE job.settlement # "SETTLED"
      BY <1>3, <3>2, RunningIsNotClosed DEF CatchOwned, HoldsLease
    <3>3. QED BY <3>1, <3>2
  <2>5. AfterCatch(d, final) \notin {"book", "finish"}
    BY DEF AfterCatch
  <2> HIDE DEF w
  <2>6. QED BY <2>2, <2>3, <2>4, <2>5, RowKept
<1>4. ASSUME ReleaseForRetry(d) PROVE LeaseInvariant'
  <2>1. CASE job' = job
    BY <1>4, <2>1, EndKept DEF ReleaseForRetry
  <2>2. CASE HoldsLease(d) /\ job' = [Unlocked(job) EXCEPT !.status = "QUEUED"]
    <3>1. /\ job'.lockedBy = None
          /\ job'.status = "QUEUED"
          /\ job'.settlement = job.settlement
          /\ job.status = "RUNNING"
      BY <2>2 DEF Unlocked, HoldsLease, TypeOK, JobType
    <3>2. OutcomeMatchesMoney'
      BY <3>1 DEF LeaseInvariant, OutcomeMatchesMoney, Failed
    <3>3. \A e \in Deliveries : worker'[e].pc \in {"book", "finish"} =>
                                   worker[e].pc \in {"book", "finish"}
      BY <1>4 DEF ReleaseForRetry, End, Idle, TypeOK
    <3>4. QED BY <3>1, <3>2, <3>3, RowUnlocked
  <2>3. QED BY <1>4, <2>1, <2>2 DEF ReleaseForRetry
<1>5. ASSUME Remark(d) PROVE LeaseInvariant'
  <2>1. CASE End(d, "threw") /\ UNCHANGED job
    BY <2>1, EndKept
  <2>2. CASE /\ HoldsLease(d)
             /\ job' = [job EXCEPT !.settlement = "RECONCILING"]
             /\ Goto(d, IF Chat \/ worker[d].last THEN "finalize" ELSE "release")
    <3>1. job.settlement \in Unsettled
      BY <1>5, <2>2 DEF Remark, LeaseInvariant, OwnerSettles, BeforeSettlement
    <3>2. \A e \in Deliveries : worker'[e].pc \in {"book", "finish"} =>
                                   worker[e].pc \in {"book", "finish"}
      BY <2>2 DEF Goto, TypeOK, WorkerType
    <3>3. "RECONCILING" \in Unsettled
      BY DEF Unsettled
    <3>4. QED BY <2>2, <3>1, <3>2, <3>3, SettlementMarked
  <2>3. QED BY <1>5, <2>1, <2>2 DEF Remark
<1>6. ASSUME FailJob(d) PROVE LeaseInvariant'
  <2> DEFINE after == IF worker[d].pc = "finalize" THEN "returned" ELSE "threw"
  <2>1. CASE End(d, after) /\ UNCHANGED job
    BY <2>1, EndKept
  <2>2. CASE HoldsLease(d)
    <3>1. /\ job' = [Unlocked(job) EXCEPT !.status = "FAILED"]
          /\ worker' = [worker EXCEPT ![d] = [Idle EXCEPT !.pc = "closing", !.after = after]]
      BY <1>6, <2>2 DEF FailJob
    <3>2. job.settlement \in Unsettled
      BY <1>6, <2>2 DEF FailJob, LeaseInvariant, OwnerSettles, BeforeSettlement
    <3>3. /\ job'.lockedBy = None
          /\ job'.status = "FAILED"
          /\ job'.settlement = job.settlement
      BY <3>1 DEF Unlocked, TypeOK, JobType
    <3>4. OutcomeMatchesMoney'
      BY <3>2, <3>3 DEF OutcomeMatchesMoney, Unsettled, Failed
    <3>5. \A e \in Deliveries : worker'[e].pc \in {"book", "finish"} =>
                                   worker[e].pc \in {"book", "finish"}
      BY <3>1 DEF Idle, TypeOK
    <3>6. QED BY <3>3, <3>4, <3>5, RowUnlocked
  <2>3. QED BY <1>6, <2>1, <2>2 DEF FailJob
<1>7. ASSUME DatabaseFails(d) PROVE LeaseInvariant'
  BY <1>7, EndKept, RaiseKept DEF DatabaseFails, db
<1>8. QED BY <1>1, <1>2, <1>3, <1>4, <1>5, <1>6, <1>7 DEF ErrorStep

\* Closing a terminal job.
LEMMA CloseKeepsInvariant ==
    ASSUME TypeOK, LeaseInvariant, NEW c \in Closers
    PROVE  CloseStep(c) \/ CloseFails(c) => LeaseInvariant'
<1>0. ASSUME UNCHANGED worker \/ \E s : LeaveClose(c, s) \/ \E b \in BOOLEAN : StopClose(c, b)
      PROVE  \A d \in Deliveries : worker'[d] = worker[d] \/ worker'[d].pc \in {"returned", "threw"}
  BY <1>0, ClosingIsNeutral
<1>1. ASSUME \A d \in Deliveries : worker'[d] = worker[d] \/ worker'[d].pc \in {"returned", "threw"},
             job' = job
      PROVE  LeaseInvariant'
  <2>1. LockedIsRunning' /\ OutcomeMatchesMoney'
    BY <1>1 DEF LeaseInvariant, LockedIsRunning, OutcomeMatchesMoney
  <2>2. OwnerSettles'
    BY <1>1 DEF LeaseInvariant, OwnerSettles, HoldsLease, BeforeSettlement
  <2>3. VerifiedIsSettled'
    BY <1>1 DEF LeaseInvariant, VerifiedIsSettled
  <2>4. QED BY <2>1, <2>2, <2>3 DEF LeaseInvariant
<1>2. ASSUME Publish(c) PROVE LeaseInvariant'
  <2> DEFINE open == job.status = closer[c].reason /\ job.settlement \in Open
             now  == IF open THEN "RECONCILING" ELSE job.settlement
  <2>1. \A d \in Deliveries : worker'[d] = worker[d] \/ worker'[d].pc \in {"returned", "threw"}
    <3>1. LeaveClose(c, now) \/ UNCHANGED worker
      BY <1>2 DEF Publish
    <3>2. QED BY <1>0, <3>1
  <2>2. CASE open
    <3>1. job' = [job EXCEPT !.settlement = "RECONCILING"] /\ job.settlement \in Unsettled
      BY <1>2, <2>2 DEF Publish, Open, Unsettled
    <3>2. "RECONCILING" \in Unsettled
      BY DEF Unsettled
    <3>3. QED BY <2>1, <3>1, <3>2, SettlementMarked
  <2>3. CASE ~open
    <3>1. job' = job
      BY <1>2, <2>3 DEF Publish, TypeOK, JobType
    <3>2. QED BY <1>1, <2>1, <3>1
  <2>4. QED BY <2>2, <2>3
<1>3. ASSUME Inspect(c) PROVE LeaseInvariant'
  <2>1. job' = job /\ (LeaveClose(c, job.settlement) \/ UNCHANGED worker)
    BY <1>3 DEF Inspect
  <2>2. QED BY <1>0, <1>1, <2>1
<1>4. ASSUME RefundOutstanding(c) \/ RecordRefund(c) \/ ReleaseHold(c) PROVE LeaseInvariant'
  BY <1>4, NobodyMoves DEF RefundOutstanding, RecordRefund, ReleaseHold
<1>5. ASSUME CloseSettlement(c) PROVE LeaseInvariant'
  <2>1. PICK now : job' = [job EXCEPT !.settlement = now] /\ LeaveClose(c, now)
                   /\ \/ now = job.settlement
                      \/ now \in Closed /\ job.status = closer[c].reason
                         /\ job.settlement \in Unsettled
    BY <1>5 DEF CloseSettlement, Closed
  <2>2. \A d \in Deliveries : worker'[d] = worker[d] \/ worker'[d].pc \in {"returned", "threw"}
    BY <1>0, <2>1
  <2>3. CASE now = job.settlement
    BY <1>1, <2>1, <2>2, <2>3 DEF TypeOK, JobType
  <2>4. CASE now \in Closed /\ job.status = closer[c].reason /\ job.settlement \in Unsettled
    <3>1. /\ job'.settlement = now
          /\ job'.status = job.status
          /\ job'.lockedBy = job.lockedBy
          /\ job.status \in Failed
      BY <2>1, <2>4 DEF TypeOK, JobType, CloserType
    <3>2. LockedIsRunning' /\ OutcomeMatchesMoney'
      BY <2>4, <3>1 DEF LeaseInvariant, LockedIsRunning, OutcomeMatchesMoney, Closed, Failed
    <3>3. OwnerSettles'
      BY <3>1 DEF OwnerSettles, HoldsLease, Failed
    <3>4. VerifiedIsSettled'
      BY <2>2, <2>4 DEF LeaseInvariant, VerifiedIsSettled, Unsettled
    <3>5. QED BY <3>2, <3>3, <3>4 DEF LeaseInvariant
  <2>5. QED BY <2>1, <2>3, <2>4
<1>6. ASSUME CleanTerminal(c) \/ CloseFails(c) PROVE LeaseInvariant'
  <2>1. job' = job /\ \E b \in BOOLEAN : StopClose(c, b)
    BY <1>6 DEF CleanTerminal, CloseFails, db
  <2>2. QED BY <1>0, <1>1, <2>1
<1>7. QED BY <1>2, <1>3, <1>4, <1>5, <1>6 DEF CloseStep

\* Cancellation, recovery and the lease's clock.
LEMMA EnvironmentKeepsInvariant ==
    ASSUME TypeOK, LeaseInvariant
    PROVE  /\ Cancel => LeaseInvariant'
           /\ RecoverStaleLease => LeaseInvariant'
           /\ Expire => LeaseInvariant'
           /\ \A r \in Recoverers : RecoverTerminal(r) => LeaseInvariant'
<1>1. ASSUME Cancel PROVE LeaseInvariant'
  <2>1. /\ job'.lockedBy = None
        /\ job'.status = "CANCELLED"
        /\ job'.settlement \in Unsettled
        /\ job.settlement # "SETTLED"
        /\ worker' = worker
    BY <1>1 DEF Cancel, Unlocked, Open, Unsettled, TypeOK, JobType
  <2>2. OutcomeMatchesMoney'
    BY <2>1 DEF OutcomeMatchesMoney, Unsettled, Failed
  <2>3. QED BY <2>1, <2>2, RowUnlocked
<1>2. ASSUME RecoverStaleLease PROVE LeaseInvariant'
  <2>1. /\ job'.lockedBy = None
        /\ job'.status = "QUEUED"
        /\ job.status = "RUNNING"
        /\ job'.settlement = job.settlement \/ (job.settlement \in Open /\ job'.settlement = "RECONCILING")
        /\ worker' = worker
    BY <1>2 DEF RecoverStaleLease, Unlocked, TypeOK, JobType
  <2>2. OutcomeMatchesMoney'
    BY <2>1 DEF LeaseInvariant, OutcomeMatchesMoney, Failed, Closed
  <2>3. QED BY <2>1, <2>2, RowUnlocked DEF Open
<1>3. ASSUME Expire PROVE LeaseInvariant'
  <2>1. /\ job'.lease = "expired"
        /\ job'.status = job.status
        /\ job'.lockedBy = job.lockedBy
        /\ job'.settlement = job.settlement
        /\ worker' = worker
    BY <1>3 DEF Expire, TypeOK, JobType
  <2>2. OwnerSettles'
    BY <2>1 DEF OwnerSettles, HoldsLease
  <2>3. LockedIsRunning' /\ OutcomeMatchesMoney' /\ VerifiedIsSettled'
    BY <2>1 DEF LeaseInvariant, LockedIsRunning, OutcomeMatchesMoney, VerifiedIsSettled
  <2>4. QED BY <2>2, <2>3 DEF LeaseInvariant
<1>4. ASSUME NEW r \in Recoverers, RecoverTerminal(r) PROVE LeaseInvariant'
  BY <1>4, NobodyMoves DEF RecoverTerminal, db
<1>5. QED BY <1>1, <1>2, <1>3, <1>4

\* A new job satisfies the invariant: it is unlocked and nobody works on it.
LEMMA InvariantInit == Init => LeaseInvariant
<1> SUFFICES ASSUME Init PROVE LeaseInvariant
  OBVIOUS
<1>1. /\ job.status = "QUEUED" /\ job.lockedBy = None
      /\ job.settlement \in {"PENDING", "RESERVED"}
  BY DEF Init, InitMoney, InitQuota, InitCredits, NewJob
<1>2. \A d \in Deliveries : worker[d].pc = "idle"
  BY DEF Init, Idle
<1>3. QED BY <1>1, <1>2 DEF LeaseInvariant, LockedIsRunning, OwnerSettles, VerifiedIsSettled,
          OutcomeMatchesMoney, BeforeSettlement, HoldsLease, Failed, Closed

LEMMA InvariantStep ==
    ASSUME OwnProcesses
    PROVE  TypeOK /\ LeaseInvariant /\ [Next]_vars => LeaseInvariant'
<1> SUFFICES ASSUME TypeOK, LeaseInvariant, [Next]_vars PROVE LeaseInvariant'
  OBVIOUS
<1>1. ASSUME NEW d \in Deliveries, Claim(d) \/ ClaimLost(d) \/ Rest(d) \/ Work(d)
      PROVE  LeaseInvariant'
  BY <1>1, ClaimKeepsInvariant, ReserveKeepsInvariant, RunnerKeepsInvariant,
     SettleKeepsInvariant, ErrorKeepsInvariant DEF Work
<1>2. ASSUME Environment PROVE LeaseInvariant'
  BY <1>2, EnvironmentKeepsInvariant, CloseKeepsInvariant DEF Environment
<1>3. CASE UNCHANGED vars
  BY <1>3, NobodyMoves DEF vars
<1>4. QED BY <1>1, <1>2, <1>3 DEF Next

\* With every delivery on a process of its own, a job succeeds only once it
\* is settled, never fails after it, and is closed only when it failed:
\* succeed, fail, cancel, recovery and finalizeTerminal may race as they like.
THEOREM OutcomeCorrect ==
    ASSUME OwnProcesses
    PROVE  Spec => []OutcomeMatchesMoney
<1>1. LeaseInvariant => OutcomeMatchesMoney
  BY DEF LeaseInvariant
<1>2. QED BY <1>1, TypeInit, TypeStep, InvariantInit, InvariantStep, PTL DEF Spec

-----------------------------------------------------------------------------
(***************************************************************************)
(* Nothing final is overwritten.  The steps of a delivery, of a closer and *)
(* of the environment that write the row come first; every other step      *)
(* leaves it alone.                                                        *)
(***************************************************************************)
LEMMA WorkKeepsFinal ==
    ASSUME TypeOK, LeaseInvariant, NEW d \in Deliveries, Claim(d) \/ Work(d)
    PROVE  KeepsFinal
<1> USE DEF KeepsFinal
<1>1. ASSUME job' = job PROVE KeepsFinal
  BY <1>1
<1>2. ASSUME job.settlement \in Unsettled, NEW x, job' = [job EXCEPT !.settlement = x]
      PROVE  KeepsFinal
  BY <1>2 DEF TypeOK, JobType, Unsettled, Closed
<1>3. ASSUME job.status \in {"QUEUED", "RUNNING"}, job'.settlement = job.settlement
      PROVE  KeepsFinal
  BY <1>3 DEF Terminal, Failed
<1>4. CASE Claim(d)
  BY <1>3, <1>4 DEF Claim, Claimable, TypeOK, JobType
<1>5. CASE Adopt(d)
  BY <1>1, <1>2, <1>5 DEF Adopt
<1>6. CASE MarkReconciling(d) \/ Remark(d)
  <2>1. HoldsLease(d) => job.settlement \in Unsettled
    BY <1>6 DEF MarkReconciling, Remark, LeaseInvariant, OwnerSettles, BeforeSettlement
  <2>2. QED BY <1>1, <1>2, <1>6, <2>1 DEF MarkReconciling, Remark
<1>7. CASE SettleNonChat(d)
  <2>1. CASE job' = [job EXCEPT !.settlement = job.settlement]
    BY <1>1, <2>1 DEF TypeOK, JobType
  <2>2. CASE job.settlement \in Unsettled /\ job' = [job EXCEPT !.settlement = "RECONCILING"]
    BY <1>2, <2>2
  <2>3. CASE job' = job
    BY <1>1, <2>3
  <2>4. QED BY <1>7, <2>1, <2>2, <2>3 DEF SettleNonChat, Unsettled
<1>8. CASE CommitSettlement(d) \/ CommitUnacknowledged(d)
  <2>1. SettleGeneration(d)
    BY <1>8 DEF CommitSettlement, CommitUnacknowledged
  <2>2. QED BY <1>1, <1>2, <2>1 DEF SettleGeneration, CanSettle
<1>9. CASE Finish(d) \/ ReleaseForRetry(d) \/ FailJob(d)
  <2>1. CASE HoldsLease(d)
    <3>1. \/ job' = [Unlocked(job) EXCEPT !.status = "SUCCEEDED"]
          \/ job' = [Unlocked(job) EXCEPT !.status = "QUEUED"]
          \/ job' = [Unlocked(job) EXCEPT !.status = "FAILED"]
      BY <1>9, <2>1 DEF Finish, ReleaseForRetry, FailJob
    <3>2. job'.settlement = job.settlement
      BY <3>1 DEF Unlocked, TypeOK, JobType
    <3>3. job.status \in {"QUEUED", "RUNNING"}
      BY <2>1 DEF HoldsLease
    <3>4. QED BY <1>3, <3>2, <3>3
  <2>2. CASE ~HoldsLease(d)
    <3>1. job' = job
      BY <1>9, <2>2 DEF Finish, ReleaseForRetry, FailJob
    <3>2. QED BY <1>1, <3>1
  <2>3. QED BY <2>1, <2>2
<1>10. CASE \/ ReadForeign(d) \/ ReadOwned(d) \/ ReserveTooEarly(d) \/ ReserveWithoutQuota(d)
            \/ ReserveFromTable(d) \/ Unreserve(d)
  BY <1>1, <1>10 DEF ReadForeign, ReadOwned, ReserveTooEarly, ReserveWithoutQuota,
                     ReserveFromTable, Unreserve, db
<1>11. CASE \/ CleanOutputs(d) \/ StartAttempt(d) \/ NoCandidate(d) \/ ProviderRefuses(d)
            \/ StreamBreaks(d) \/ ChatAnswers(d) \/ StoreOutput(d) \/ UndoOutputs(d)
            \/ FailAttempt(d) \/ SucceedAttempt(d) \/ Adjust(d)
  BY <1>1, <1>11 DEF CleanOutputs, StartAttempt, NoCandidate, ProviderRefuses, StreamBreaks,
                     ChatAnswers, StoreOutput, UndoOutputs, FailAttempt, SucceedAttempt,
                     Adjust, db
<1>12. CASE \/ Verify(d) \/ Book(d) \/ CatchForeign(d) \/ CatchCancelled(d) \/ CatchOwned(d)
            \/ DatabaseFails(d) \/ Die(d)
  BY <1>1, <1>12 DEF Verify, Book, CatchForeign, CatchCancelled, CatchOwned, DatabaseFails,
                     Die, db
<1>13. QED BY <1>4, <1>5, <1>6, <1>7, <1>8, <1>9, <1>10, <1>11, <1>12
           DEF Work, RunnerStep, SettleStep, ErrorStep

LEMMA EnvironmentKeepsFinal ==
    ASSUME TypeOK, LeaseInvariant, Environment
    PROVE  KeepsFinal
<1> USE DEF KeepsFinal
<1>1. ASSUME job' = job PROVE KeepsFinal
  BY <1>1
<1>2. ASSUME job.settlement \in Unsettled, NEW x, job' = [job EXCEPT !.settlement = x]
      PROVE  KeepsFinal
  BY <1>2 DEF TypeOK, JobType, Unsettled, Closed
<1>3. CASE Cancel \/ RecoverStaleLease
  <2>1. job.status \in {"QUEUED", "RUNNING"}
    BY <1>3 DEF Cancel, RecoverStaleLease
  <2>2. job'.settlement = job.settlement \/ job.settlement \in Open
    BY <1>3 DEF Cancel, RecoverStaleLease, Unlocked, TypeOK, JobType
  <2>3. QED BY <2>1, <2>2 DEF Terminal, Failed, Open, Closed
<1>4. CASE Expire
  BY <1>4 DEF Expire, TypeOK, JobType
<1>5. CASE \E r \in Recoverers : RecoverTerminal(r)
  BY <1>1, <1>5 DEF RecoverTerminal, db
<1>6. ASSUME NEW c \in Closers, CloseStep(c) \/ CloseFails(c) PROVE KeepsFinal
  <2>1. CASE Publish(c)
    <3>1. PICK now : /\ job' = [job EXCEPT !.settlement = now]
                     /\ now = job.settlement \/ job.settlement \in Unsettled
      BY <2>1 DEF Publish, Open, Unsettled
    <3>2. QED BY <1>2, <3>1 DEF TypeOK, JobType
  <2>2. CASE CloseSettlement(c)
    <3>1. PICK now : /\ job' = [job EXCEPT !.settlement = now]
                     /\ now = job.settlement \/ job.settlement \in Unsettled
      BY <2>2 DEF CloseSettlement
    <3>2. QED BY <1>2, <3>1 DEF TypeOK, JobType
  <2>3. CASE \/ Inspect(c) \/ RefundOutstanding(c) \/ RecordRefund(c) \/ ReleaseHold(c)
             \/ CleanTerminal(c) \/ CloseFails(c)
    BY <1>1, <2>3 DEF Inspect, RefundOutstanding, RecordRefund, ReleaseHold, CleanTerminal,
                      CloseFails, db
  <2>4. QED BY <1>6, <2>1, <2>2, <2>3 DEF CloseStep
<1>7. QED BY <1>3, <1>4, <1>5, <1>6 DEF Environment

\* With every delivery on a process of its own, a stale worker, request or
\* recovery pass never overwrites a terminal status, a settled charge, a
\* refund or a release.
THEOREM FinalCorrect ==
    ASSUME OwnProcesses
    PROVE  Spec => FinalIsFinal
<1>1. TypeOK /\ LeaseInvariant /\ [Next]_vars => [KeepsFinal]_vars
  <2> SUFFICES ASSUME TypeOK, LeaseInvariant, Next PROVE KeepsFinal
    OBVIOUS
  <2>1. ASSUME NEW d \in Deliveries, ClaimLost(d) \/ Rest(d) PROVE KeepsFinal
    BY <2>1 DEF ClaimLost, Rest, db, KeepsFinal
  <2>2. QED BY <2>1, WorkKeepsFinal, EnvironmentKeepsFinal DEF Next
<1>2. QED BY <1>1, TypeInit, TypeStep, InvariantInit, InvariantStep, PTL DEF Spec, FinalIsFinal

-----------------------------------------------------------------------------
(***************************************************************************)
(* One billable attempt.  Only StartAttempt adds to Unresolved, and only   *)
(* when it is empty; this needs no assumption about the processes.         *)
(***************************************************************************)
AtMostOne == \A a, b \in Unresolved : a = b

LEMMA AttemptsShrink ==
    ASSUME AtMostOne, \A a \in AttemptIds : attempts'[a] \in {"RUNNING", "SUCCEEDED"} =>
                                                attempts[a] \in {"RUNNING", "SUCCEEDED"}
    PROVE  AtMostOne'
BY DEF AtMostOne, Unresolved

LEMMA AttemptStep == TypeOK /\ AtMostOne /\ [Next]_vars => AtMostOne'
<1> SUFFICES ASSUME TypeOK, AtMostOne, [Next]_vars PROVE AtMostOne'
  OBVIOUS
<1>1. CASE attempts' = attempts
  BY <1>1, AttemptsShrink
<1>2. ASSUME NEW d \in Deliveries, StartAttempt(d) PROVE AtMostOne'
  <2>1. CASE UNCHANGED attempts
    BY <1>1, <2>1
  <2>2. CASE Unresolved = {} /\ \E a \in AttemptIds : attempts' = [attempts EXCEPT ![a] = "RUNNING"]
    <3>1. PICK a \in AttemptIds : attempts' = [attempts EXCEPT ![a] = "RUNNING"]
      BY <2>2
    <3>2. \A b \in AttemptIds : b # a => attempts'[b] \notin {"RUNNING", "SUCCEEDED"}
      BY <2>2, <3>1 DEF TypeOK, Unresolved
    <3>3. QED BY <3>2 DEF AtMostOne, Unresolved
  <2>3. QED BY <1>2, <2>1, <2>2 DEF StartAttempt, MustReconcile
<1>3. ASSUME NEW d \in Deliveries, FailAttempt(d) \/ SucceedAttempt(d) PROVE AtMostOne'
  <2>1. CASE UNCHANGED attempts
    BY <1>1, <2>1
  <2>2. CASE /\ attempts[worker[d].attempt] = "RUNNING"
             /\ \E x \in {"FAILED", "SUCCEEDED"} :
                   attempts' = [attempts EXCEPT ![worker[d].attempt] = x]
    BY <2>2, AttemptsShrink DEF TypeOK
  <2>3. QED BY <1>3, <2>1, <2>2 DEF FailAttempt, SucceedAttempt
<1>4. ASSUME NEW c \in Closers, Inspect(c) PROVE AtMostOne'
  <2>1. CASE UNCHANGED attempts
    BY <1>1, <2>1
  <2>2. CASE attempts' = [a \in AttemptIds |->
                            IF attempts[a] = "RUNNING" THEN "FAILED" ELSE attempts[a]]
    BY <2>2, AttemptsShrink
  <2>3. QED BY <1>4, <2>1, <2>2 DEF Inspect
<1>5. ASSUME NEW d \in Deliveries, Claim(d) \/ ClaimLost(d) \/ Rest(d) \/ Work(d) PROVE AtMostOne'
  <2>1. CASE \/ Claim(d) \/ ClaimLost(d) \/ Rest(d) \/ ReadForeign(d) \/ ReadOwned(d)
             \/ ReserveTooEarly(d) \/ ReserveWithoutQuota(d) \/ ReserveFromTable(d)
             \/ Adopt(d) \/ Unreserve(d)
    BY <1>1, <2>1 DEF Claim, ClaimLost, Rest, ReadForeign, ReadOwned, ReserveTooEarly,
                      ReserveWithoutQuota, ReserveFromTable, Adopt, Unreserve, db
  <2>2. CASE RunnerStep(d)
    BY <1>1, <1>2, <1>3, <2>2
       DEF RunnerStep, CleanOutputs, NoCandidate, ProviderRefuses, StreamBreaks, ChatAnswers,
           StoreOutput, UndoOutputs, MarkReconciling, Adjust, db
  <2>3. CASE SettleStep(d)
    BY <1>1, <2>3 DEF SettleStep, SettleNonChat, CommitSettlement, CommitUnacknowledged,
                      Verify, Book, Finish, db
  <2>4. CASE ErrorStep(d) \/ Die(d)
    BY <1>1, <2>4 DEF ErrorStep, CatchForeign, CatchCancelled, CatchOwned, ReleaseForRetry,
                      Remark, FailJob, DatabaseFails, Die, db
  <2>5. QED BY <1>5, <2>1, <2>2, <2>3, <2>4 DEF Work
<1>6. ASSUME Environment PROVE AtMostOne'
  BY <1>1, <1>4, <1>6
     DEF Environment, Cancel, RecoverStaleLease, Expire, RecoverTerminal, CloseStep, CloseFails,
         Publish, RefundOutstanding, RecordRefund, ReleaseHold, CloseSettlement, CleanTerminal, db
<1>7. CASE UNCHANGED vars
  BY <1>1, <1>7 DEF vars
<1>8. QED BY <1>5, <1>6, <1>7 DEF Next

\* At most one attempt of a job is running or has succeeded, over every
\* delivery, failover and recovery, even when deliveries share a process.
THEOREM OneAttemptCorrect == Spec => []OneBillableAttempt
<1>1. Init => AtMostOne
  BY DEF Init, AtMostOne, Unresolved
<1>2. AtMostOne => OneBillableAttempt
  <2> SUFFICES ASSUME AtMostOne PROVE OneBillableAttempt
    OBVIOUS
  <2>1. CASE Unresolved = {}
    BY <2>1, FS_EmptySet DEF OneBillableAttempt
  <2>2. CASE Unresolved # {}
    <3>1. PICK a : a \in Unresolved
      BY <2>2
    <3>2. Unresolved = {a}
      BY <3>1 DEF AtMostOne
    <3>3. Cardinality({a}) = 1
      BY FS_Singleton
    <3>4. QED BY <3>2, <3>3 DEF OneBillableAttempt
  <2>3. QED BY <2>1, <2>2
<1>3. QED BY <1>1, <1>2, TypeInit, TypeStep, AttemptStep, PTL DEF Spec

-----------------------------------------------------------------------------
(***************************************************************************)
(* Second part: the money.  The charge follows the outcome, nobody is      *)
(* refunded twice, the books tell the truth, and the job implements        *)
(* SettlementContract, when no two deliveries share a process.             *)
(*                                                                         *)
(* None of these is inductive.  MoneyInvariant says what the row tells of  *)
(* the money, what a delivery still knows after its last statement, and    *)
(* what an execution of finalizeTerminal knows.                            *)
(***************************************************************************)

(***************************************************************************)
(* The invariant.                                                          *)
(***************************************************************************)

\* A delivery that may still call a Provider, before and after its holds are
\* confirmed, and one whose call was answered.
Preparing == {"reserve", "adopt", "unreserve"}
Calling   == {"clean", "start", "call", "undo", "refused", "accept", "mark"}
Settling  == {"adjust", "settle", "commit"}
Untried   == Preparing \cup {"clean", "start"}

Lost     == job.status \in Failed
EveryHold  == \A s \in Scopes : resv[s] = "RESERVED"
Broken   == \E s \in Scopes : resv[s] \notin {"RESERVED", "SETTLED"}
Answered == \E a \in AttemptIds : attempts[a] = "SUCCEEDED"

\* The money for a call is there, or there will be none any more.
Backed == /\ job.quota => EveryHold \/ job.settlement = "SETTLED" \/ Lost
          /\ ~job.quota => ledger.spend = Cost

\* What the row says of the holds, the attempts and the outputs.
RowInvariant ==
    /\ \A s \in Scopes : (resv[s] = "SETTLED") <=> (job.settlement = "SETTLED" /\ job.quota)
    /\ job.settlement \in {"RESERVED", "SETTLED"} => Backed
    /\ job.settlement = "RECONCILING" /\ ~Lost => Backed
    /\ Unresolved # {} => Backed
    /\ job.status = "QUEUED" /\ job.settlement \in Open => Unresolved = {}
    /\ job.settlement = "SETTLED" => Answered /\ (~Chat => outputs = Expected)

\* What it says of the ledger and the books.
LedgerInvariant ==
    /\ ledger.enqueue = 0
    /\ Given <= Taken
    /\ ledger.refund > 0 => Lost /\ Taken = Given
    /\ job.settlement \in Closed => /\ Taken = Given
                                    /\ \A s \in Scopes : resv[s] # "RESERVED"
                                    /\ (job.settlement = "REFUNDED") <=> (ledger.refund > 0)

BooksInvariant ==
    /\ "CAPTURE" \in books => job.settlement = "SETTLED"
    /\ job.status = "SUCCEEDED" => "CAPTURE" \in books
    /\ "REFUND" \in books => ledger.refund > 0
    /\ job.settlement = "REFUNDED" => "REFUND" \in books

\* What a delivery knows whoever holds the lease.
Knows(d) ==
    /\ worker[d].pc \in Preparing \cup Calling \cup Settling => worker[d].quota = job.quota
    /\ worker[d].pc \in {"adopt", "unreserve"} => job.quota
    /\ worker[d].pc = "reserve" /\ ~job.quota /\ ~worker[d].pending => ledger.spend = Cost
    /\ worker[d].pc \in Calling \cup {"adopt", "adjust", "commit", "remark"} => Backed
    /\ worker[d].pc = "catch" /\ worker[d].error = "reconcile" => Backed
    /\ worker[d].pc = "unreserve" => Broken
    /\ worker[d].pc \in {"mark", "adjust", "commit"} => Answered
    /\ worker[d].pc = "adjust" => Chat
    /\ worker[d].pc \in {"call", "undo", "refused", "accept"} => worker[d].attempt \in AttemptIds
    /\ worker[d].pc = "verify" => job.settlement = "SETTLED"
    /\ worker[d].pc = "finish" => "CAPTURE" \in books

\* What it knows while it holds the lease.
OwnerKnows(d) ==
    /\ worker[d].pc \in Preparing => job.settlement \in Open
    /\ worker[d].pc = "reserve" /\ ~worker[d].pending => job.settlement = "RESERVED"
    /\ worker[d].pc \in Calling => job.settlement = "RESERVED"
    /\ worker[d].pc \in Settling => job.settlement \in {"RECONCILING", "SETTLED"}
    /\ worker[d].pc \in Untried => Unresolved = {}
    /\ worker[d].pc = "commit" /\ ~Chat => outputs = Expected
    /\ /\ worker[d].pc = "catch" /\ worker[d].error \in {"none", "retriable"}
       /\ job.settlement \in Open
       => Unresolved = {}
    /\ worker[d].pc = "release" /\ job.settlement \in Open => Unresolved = {}

\* Between its claim and the read-back it has only its process to go by.
ClaimKnows(d) ==
    worker[d].pc = "read" /\ Owns(d) /\ job.settlement \in Open => Unresolved = {}

DeliveryKnows(d) == Knows(d) /\ (HoldsLease(d) => OwnerKnows(d)) /\ ClaimKnows(d)

DeliveryInvariant == \A d \in Deliveries : DeliveryKnows(d)

\* What an execution of finalizeTerminal knows: the job stays lost, and past
\* its own refund nothing is owed.
CloserKnows(c) ==
    /\ closer[c].pc # "idle" => job.status = closer[c].reason
    /\ closer[c].pc \in {"inspect", "refund", "record", "release", "close"} =>
          job.settlement \notin Open
    /\ closer[c].pc \in {"record", "release", "close"} =>
          Taken = Given /\ (closer[c].refund <=> ledger.refund > 0)
    /\ closer[c].pc = "record" => closer[c].refund
    /\ closer[c].pc \in {"release", "close"} /\ closer[c].refund => "REFUND" \in books

CloserInvariant == \A c \in Closers : CloserKnows(c)

MoneyInvariant ==
    RowInvariant /\ LedgerInvariant /\ BooksInvariant /\ DeliveryInvariant /\ CloserInvariant

Good == OwnProcesses /\ TypeOK /\ LeaseInvariant /\ AtMostOne /\ MoneyInvariant

-----------------------------------------------------------------------------
(***************************************************************************)
(* What a move leaves of a delivery's local state.                         *)
(***************************************************************************)
OnlyMoves(d) == \A e \in Deliveries : e # d => worker'[e] = worker[e]

LEMMA GotoFields ==
    ASSUME TypeOK, NEW d \in Deliveries, NEW label, Goto(d, label)
    PROVE  /\ OnlyMoves(d)
           /\ worker'[d].pc = label
           /\ worker'[d].version = worker[d].version
           /\ worker'[d].quota = worker[d].quota
           /\ worker'[d].pending = worker[d].pending
           /\ worker'[d].error = worker[d].error
           /\ worker'[d].started = worker[d].started
BY DEF OnlyMoves, Goto, TypeOK, WorkerType

LEMMA RaiseFields ==
    ASSUME TypeOK, NEW d \in Deliveries, NEW error, Raise(d, error)
    PROVE  /\ OnlyMoves(d)
           /\ worker'[d].pc = "catch"
           /\ worker'[d].version = worker[d].version
           /\ worker'[d].error = error
<1>1. worker'[d] = [Idle EXCEPT !.pc = "catch", !.version = worker[d].version, !.error = error]
  BY DEF Raise, TypeOK
<1>2. worker'[d].pc = "catch" /\ worker'[d].version = worker[d].version /\ worker'[d].error = error
  BY <1>1 DEF Idle
<1>3. OnlyMoves(d)
  BY DEF OnlyMoves, Raise, TypeOK
<1>4. QED BY <1>2, <1>3

LEMMA EndFields ==
    ASSUME TypeOK, NEW d \in Deliveries, NEW label, End(d, label)
    PROVE  OnlyMoves(d) /\ worker'[d].pc = label
<1>1. worker'[d] = [Idle EXCEPT !.pc = label]
  BY DEF End, TypeOK
<1>2. worker'[d].pc = label
  BY <1>1 DEF Idle
<1>3. OnlyMoves(d)
  BY DEF OnlyMoves, End, TypeOK
<1>4. QED BY <1>2, <1>3

\* Labels at which a delivery knows nothing.
Quiet == {"idle", "returned", "threw", "closing", "finalize", "fail", "book"}

LEMMA QuietKnows ==
    ASSUME NEW d \in Deliveries, worker'[d].pc \in Quiet
    PROVE  DeliveryKnows(d)'
BY DEF Quiet, DeliveryKnows, Knows, OwnerKnows, ClaimKnows, Preparing, Calling, Settling, Untried

-----------------------------------------------------------------------------
(***************************************************************************)
(* A step that writes no row.                                              *)
(***************************************************************************)
LEMMA RowsStay ==
    ASSUME MoneyInvariant, UNCHANGED db
    PROVE  RowInvariant' /\ LedgerInvariant' /\ BooksInvariant'
<1>1. /\ job' = job /\ attempts' = attempts /\ outputs' = outputs
      /\ resv' = resv /\ ledger' = ledger /\ books' = books
  BY DEF db
<1>2. RowInvariant'
  BY <1>1 DEF MoneyInvariant, RowInvariant, Backed, Lost, EveryHold, Answered, Unresolved
<1>3. LedgerInvariant'
  BY <1>1 DEF MoneyInvariant, LedgerInvariant, Given, Taken, Lost
<1>4. BooksInvariant'
  BY <1>1 DEF MoneyInvariant, BooksInvariant
<1>5. QED BY <1>2, <1>3, <1>4

LEMMA DeliveryStays ==
    ASSUME MoneyInvariant, UNCHANGED db, NEW d \in Deliveries, worker'[d] = worker[d]
    PROVE  DeliveryKnows(d)'
<1>1. /\ job' = job /\ attempts' = attempts /\ outputs' = outputs
      /\ resv' = resv /\ ledger' = ledger /\ books' = books
  BY DEF db
<1>2. DeliveryKnows(d)
  BY DEF MoneyInvariant, DeliveryInvariant
<1>3. Knows(d)'
  BY <1>1, <1>2 DEF DeliveryKnows, Knows, Backed, Lost, EveryHold, Broken, Answered
<1>4. OwnerKnows(d)' = OwnerKnows(d) /\ HoldsLease(d)' = HoldsLease(d)
  BY <1>1 DEF OwnerKnows, HoldsLease, Unresolved
<1>5. ClaimKnows(d)'
  BY <1>1, <1>2 DEF DeliveryKnows, ClaimKnows, Owns, Unresolved
<1>6. QED BY <1>2, <1>3, <1>4, <1>5 DEF DeliveryKnows

LEMMA CloserStays ==
    ASSUME MoneyInvariant, UNCHANGED db, NEW c \in Closers,
           closer'[c] = closer[c] \/ closer'[c].pc = "idle"
    PROVE  CloserKnows(c)'
<1>1. job' = job /\ ledger' = ledger /\ books' = books
  BY DEF db
<1>2. CloserKnows(c)
  BY DEF MoneyInvariant, CloserInvariant
<1>3. QED BY <1>1, <1>2 DEF CloserKnows, Given, Taken

\* Deliveries and executions of finalizeTerminal stay, or know what they know.
LEMMA LocalStep ==
    ASSUME MoneyInvariant, UNCHANGED db,
           \A d \in Deliveries : worker'[d] = worker[d] \/ DeliveryKnows(d)',
           \A c \in Closers : \/ closer'[c] = closer[c]
                              \/ closer'[c].pc = "idle"
                              \/ CloserKnows(c)'
    PROVE  MoneyInvariant'
<1>1. DeliveryInvariant'
  BY DeliveryStays DEF DeliveryInvariant
<1>2. CloserInvariant'
  BY CloserStays DEF CloserInvariant
<1>3. QED BY <1>1, <1>2, RowsStay DEF MoneyInvariant

LEMMA LocalRaise ==
    ASSUME Good, UNCHANGED <<db, closer>>, NEW d \in Deliveries, NEW error, Raise(d, error),
           error = "reconcile" => Backed,
           error \in {"none", "retriable"} /\ HoldsLease(d) /\ job.settlement \in Open =>
               Unresolved = {}
    PROVE  MoneyInvariant'
<1>1. /\ job' = job /\ attempts' = attempts /\ outputs' = outputs
      /\ resv' = resv /\ ledger' = ledger /\ books' = books
  BY DEF db
<1>2. /\ OnlyMoves(d)
      /\ worker'[d].pc = "catch"
      /\ worker'[d].version = worker[d].version
      /\ worker'[d].error = error
  BY RaiseFields DEF Good
<1>3. Knows(d)'
  BY <1>1, <1>2 DEF Knows, Preparing, Calling, Settling, Backed, Lost, EveryHold
<1>4. HoldsLease(d)' => OwnerKnows(d)'
  BY <1>1, <1>2 DEF HoldsLease, OwnerKnows, Preparing, Calling, Settling, Untried, Unresolved
<1>5. ClaimKnows(d)'
  BY <1>2 DEF ClaimKnows
<1>6. MoneyInvariant
  BY DEF Good
<1>7. QED BY <1>2, <1>3, <1>4, <1>5, <1>6, LocalStep DEF DeliveryKnows, OnlyMoves

LEMMA LocalQuiet ==
    ASSUME Good, UNCHANGED <<db, closer>>, NEW d \in Deliveries, OnlyMoves(d),
           worker'[d].pc \in Quiet
    PROVE  MoneyInvariant'
<1>1. UNCHANGED db /\ MoneyInvariant
  BY DEF Good
<1>2. QED BY <1>1, QuietKnows, LocalStep DEF OnlyMoves

\* A delivery that moves on while it writes nothing.
LEMMA LocalMove ==
    ASSUME Good, UNCHANGED <<db, closer>>, NEW d \in Deliveries, OnlyMoves(d), DeliveryKnows(d)'
    PROVE  MoneyInvariant'
BY LocalStep DEF Good, OnlyMoves

-----------------------------------------------------------------------------
(***************************************************************************)
(* The deliveries' steps that write no row.                                *)
(***************************************************************************)

\* What the invariant says of one delivery.
LEMMA Known ==
    ASSUME Good, NEW d \in Deliveries
    PROVE  Knows(d) /\ (HoldsLease(d) => OwnerKnows(d)) /\ ClaimKnows(d)
BY DEF Good, MoneyInvariant, DeliveryInvariant, DeliveryKnows

\* A delivery that holds the lease of an unsettled job finds it open or reconciling.
LEMMA LeasedIsUnsettled ==
    ASSUME Good, NEW d \in Deliveries, HoldsLease(d) \/ Owns(d)
    PROVE  ~Lost /\ job.settlement \in Open \cup {"RECONCILING", "SETTLED"}
<1>1. job.status = "RUNNING"
  BY ProcessAssumption DEF Good, HoldsLease, Owns, LeaseInvariant, LockedIsRunning
<1>2. QED BY <1>1, RunningIsNotClosed DEF Good, Lost, Failed, Unsettled, Open

\* Reading back.
LEMMA ReadKeepsMoney ==
    ASSUME Good, NEW d \in Deliveries
    PROVE  /\ ClaimLost(d) => MoneyInvariant'
           /\ ReadForeign(d) => MoneyInvariant'
           /\ ReadOwned(d) => MoneyInvariant'
<1>1. ASSUME ClaimLost(d) PROVE MoneyInvariant'
  <2>1. worker' = [worker EXCEPT ![d] = [Idle EXCEPT !.pc = "read"]] /\ UNCHANGED <<db, closer>>
    BY <1>1 DEF ClaimLost
  <2>2. OnlyMoves(d) /\ worker'[d].pc = "read" /\ ~worker'[d].started
    BY <2>1 DEF OnlyMoves, Idle, Good, TypeOK
  <2>3. DeliveryKnows(d)'
    BY <2>2 DEF DeliveryKnows, Knows, OwnerKnows, ClaimKnows, Owns, Preparing, Calling, Settling,
                Untried
  <2>4. QED BY <2>1, <2>2, <2>3, LocalMove
<1>2. ASSUME ReadForeign(d) PROVE MoneyInvariant'
  <2>1. CASE /\ job.status \in Failed
             /\ worker' = [worker EXCEPT ![d] = [Idle EXCEPT !.pc = "closing"]]
             /\ BeginClose(d, job.status)
    <3>1. OnlyMoves(d) /\ worker'[d].pc = "closing"
      BY <2>1 DEF OnlyMoves, Idle, Good, TypeOK
    <3>2. /\ \A c \in Closers : c # d => closer'[c] = closer[c]
          /\ closer'[d].pc = "publish" /\ closer'[d].reason = job.status
      BY <2>1 DEF BeginClose, NoClose, Closers, Good, TypeOK
    <3>3. UNCHANGED db /\ job' = job
      BY <1>2 DEF ReadForeign, db
    <3>4. CloserKnows(d)'
      BY <3>2, <3>3 DEF CloserKnows
    <3>5. DeliveryKnows(d)'
      BY <3>1, QuietKnows DEF Quiet
    <3>6. QED BY <3>1, <3>2, <3>3, <3>4, <3>5, LocalStep DEF OnlyMoves, Good
  <2>2. CASE End(d, "returned") /\ UNCHANGED closer
    <3>1. OnlyMoves(d) /\ worker'[d].pc = "returned" /\ UNCHANGED <<db, closer>>
      BY <1>2, <2>2, EndFields DEF ReadForeign, Good
    <3>2. QED BY <3>1, LocalQuiet DEF Quiet
  <2>3. QED BY <1>2, <2>1, <2>2 DEF ReadForeign
<1>3. ASSUME ReadOwned(d) PROVE MoneyInvariant'
  <2>1. /\ OnlyMoves(d)
        /\ worker'[d].pc = AfterRead
        /\ worker'[d].quota = job.quota
        /\ worker'[d].pending = (job.settlement = "PENDING")
    BY <1>3 DEF ReadOwned, OnlyMoves, Good, TypeOK, WorkerType
  <2>2. /\ job' = job /\ attempts' = attempts /\ ledger' = ledger
        /\ UNCHANGED <<db, closer>>
        /\ worker[d].pc = "read" /\ Owns(d)
    BY <1>3 DEF ReadOwned, db
  <2>3. ~Lost /\ job.settlement \in Open \cup {"RECONCILING", "SETTLED"}
    BY <2>2, LeasedIsUnsettled
  <2>4. job.settlement \in Open => Unresolved = {}
    BY <2>2, Known DEF ClaimKnows
  <2>5. CASE job.settlement = "RECONCILING"
    <3>1. worker'[d].pc \in {"finalize", "settle"}
      BY <2>1, <2>5 DEF AfterRead
    <3>2. DeliveryKnows(d)'
      BY <2>1, <2>2, <2>5, <3>1 DEF DeliveryKnows, Knows, OwnerKnows, ClaimKnows, Preparing,
                                    Calling, Settling, Untried
    <3>3. QED BY <2>1, <2>2, <3>2, LocalMove
  <2>6. CASE job.settlement = "SETTLED"
    <3>1. worker'[d].pc = "verify"
      BY <2>1, <2>6 DEF AfterRead
    <3>2. DeliveryKnows(d)'
      BY <2>2, <2>6, <3>1 DEF DeliveryKnows, Knows, OwnerKnows, ClaimKnows, Preparing,
                              Calling, Settling, Untried
    <3>3. QED BY <2>1, <2>2, <3>2, LocalMove
  <2>7. CASE job.settlement \in Open
    <3>1. worker'[d].pc = "reserve"
      BY <2>1, <2>7 DEF AfterRead, Open
    <3>2. ~job.quota /\ ~worker'[d].pending => ledger.spend = Cost
      BY <2>1, <2>7 DEF Open, Good, MoneyInvariant, RowInvariant, Backed
    <3>3. Knows(d)'
      BY <2>1, <2>2, <3>1, <3>2 DEF Knows, Calling, Settling
    <3>4. OwnerKnows(d)'
      BY <2>1, <2>2, <2>4, <2>7, <3>1 DEF OwnerKnows, Preparing, Calling, Settling, Open,
                                          Unresolved
    <3>5. ClaimKnows(d)'
      BY <3>1 DEF ClaimKnows
    <3>6. QED BY <2>1, <2>2, <3>3, <3>4, <3>5, LocalMove DEF DeliveryKnows
  <2>8. QED BY <2>3, <2>5, <2>6, <2>7
<1>4. QED BY <1>1, <1>2, <1>3

\* Recovering the reservations.
LEMMA ReserveKeepsMoney ==
    ASSUME Good, NEW d \in Deliveries
    PROVE  /\ ReserveTooEarly(d) => MoneyInvariant'
           /\ ReserveWithoutQuota(d) => MoneyInvariant'
           /\ ReserveFromTable(d) => MoneyInvariant'
<1>1. ASSUME worker[d].pc = "reserve", HoldsLease(d)
      PROVE  Unresolved = {} /\ job.settlement \in Open
  BY <1>1, Known DEF OwnerKnows, Preparing, Untried
<1>2. ASSUME ReserveTooEarly(d) PROVE MoneyInvariant'
  BY <1>1, <1>2, LocalRaise DEF ReserveTooEarly
<1>3. ASSUME ReserveWithoutQuota(d) PROVE MoneyInvariant'
  <2>1. CASE Raise(d, "terminal")
    BY <1>3, <2>1, LocalRaise DEF ReserveWithoutQuota
  <2>2. CASE ~worker[d].pending /\ Goto(d, RunnerStart)
    <3>1. /\ OnlyMoves(d)
          /\ worker'[d].pc \in {"start", "clean"}
          /\ worker'[d].version = worker[d].version
          /\ worker'[d].quota = worker[d].quota
      BY <2>2, GotoFields DEF RunnerStart, Good
    <3>2. /\ job' = job /\ attempts' = attempts /\ ledger' = ledger
          /\ UNCHANGED <<db, closer>>
          /\ worker[d].pc = "reserve" /\ ~worker[d].quota
      BY <1>3 DEF ReserveWithoutQuota, db
    <3>3. ~job.quota /\ worker[d].quota = job.quota /\ ledger.spend = Cost
      BY <2>2, <3>2, Known DEF Knows, Preparing
    <3>4. Knows(d)'
      BY <3>1, <3>2, <3>3 DEF Knows, Backed, Preparing, Settling
    <3>5. HoldsLease(d) => job.settlement = "RESERVED"
      BY <2>2, <3>2, Known DEF OwnerKnows
    <3>6. HoldsLease(d)' => OwnerKnows(d)'
      BY <1>1, <3>1, <3>2, <3>5 DEF HoldsLease, OwnerKnows, Preparing, Settling, Unresolved
    <3>7. ClaimKnows(d)'
      BY <3>1 DEF ClaimKnows
    <3>8. QED BY <3>1, <3>2, <3>4, <3>6, <3>7, LocalMove DEF DeliveryKnows
  <2>3. QED BY <1>3, <2>1, <2>2 DEF ReserveWithoutQuota
<1>4. ASSUME ReserveFromTable(d) PROVE MoneyInvariant'
  <2>1. /\ job' = job /\ attempts' = attempts /\ ledger' = ledger /\ resv' = resv
        /\ UNCHANGED <<db, closer>>
        /\ worker[d].pc = "reserve" /\ worker[d].quota
    BY <1>4 DEF ReserveFromTable, db
  <2>2. worker[d].quota = job.quota
    BY <2>1, Known DEF Knows, Preparing
  <2>3. CASE Raise(d, "terminal")
    BY <2>1, <2>3, LocalRaise
  <2>4. ASSUME OnlyMoves(d),
               worker'[d].pc \in {"adopt", "unreserve"},
               worker'[d].version = worker[d].version,
               worker'[d].quota = worker[d].quota,
               worker'[d].pc = "adopt" => EveryHold,
               worker'[d].pc = "unreserve" => Broken
        PROVE  MoneyInvariant'
    <3>1. Knows(d)'
      BY <2>1, <2>2, <2>4 DEF Knows, Backed, EveryHold, Broken, Calling, Settling
    <3>2. HoldsLease(d)' => OwnerKnows(d)'
      BY <1>1, <2>1, <2>4 DEF HoldsLease, OwnerKnows, Calling, Settling, Unresolved
    <3>3. ClaimKnows(d)'
      BY <2>4 DEF ClaimKnows
    <3>4. QED BY <2>1, <2>4, <3>1, <3>2, <3>3, LocalMove DEF DeliveryKnows
  <2>5. CASE /\ EveryHold
             /\ worker' = [worker EXCEPT ![d] = [@ EXCEPT !.pc = "adopt", !.pending = FALSE]]
    BY <2>4, <2>5 DEF OnlyMoves, Good, TypeOK, WorkerType
  <2>6. CASE /\ Broken
             /\ worker' = [worker EXCEPT ![d] =
                    [@ EXCEPT !.pc = "unreserve", !.pending = FALSE,
                              !.refs = {s \in Scopes : resv[s] = "RESERVED"}]]
    BY <2>4, <2>6 DEF OnlyMoves, Good, TypeOK, WorkerType
  <2>7. QED BY <1>4, <2>3, <2>5, <2>6 DEF ReserveFromTable, EveryHold, Broken
<1>5. QED BY <1>2, <1>3, <1>4

\* Verify, the catch, and failing statements.
LEMMA CatchKeepsMoney ==
    ASSUME Good, NEW d \in Deliveries
    PROVE  /\ Verify(d) => MoneyInvariant'
           /\ CatchForeign(d) => MoneyInvariant'
           /\ CatchCancelled(d) => MoneyInvariant'
           /\ CatchOwned(d) => MoneyInvariant'
<1>1. ASSUME Verify(d) PROVE MoneyInvariant'
  <2>1. job.settlement = "SETTLED" /\ UNCHANGED <<db, closer>>
    BY <1>1, Known DEF Verify, Knows
  <2>2. CASE Goto(d, "book")
    BY <2>1, <2>2, GotoFields, LocalQuiet DEF Quiet, Good
  <2>3. CASE Raise(d, "leaselost")
    BY <2>1, <2>3, LocalRaise
  <2>4. QED BY <1>1, <2>1, <2>2, <2>3 DEF Verify
<1>2. ASSUME CatchForeign(d) PROVE MoneyInvariant'
  BY <1>2, EndFields, LocalQuiet DEF CatchForeign, Quiet, Good
<1>3. ASSUME CatchCancelled(d) PROVE MoneyInvariant'
  <2>1. OnlyMoves(d) /\ worker'[d].pc = "closing"
    BY <1>3 DEF CatchCancelled, OnlyMoves, Idle, Good, TypeOK
  <2>2. /\ \A c \in Closers : c # d => closer'[c] = closer[c]
        /\ closer'[d].pc = "publish" /\ closer'[d].reason = "CANCELLED"
    BY <1>3 DEF CatchCancelled, BeginClose, NoClose, Closers, Good, TypeOK
  <2>3. UNCHANGED db /\ job' = job /\ job.status = "CANCELLED"
    BY <1>3 DEF CatchCancelled, db
  <2>4. CloserKnows(d)'
    BY <2>2, <2>3 DEF CloserKnows
  <2>5. DeliveryKnows(d)'
    BY <2>1, QuietKnows DEF Quiet
  <2>6. QED BY <2>1, <2>2, <2>3, <2>4, <2>5, LocalStep DEF OnlyMoves, Good
<1>4. ASSUME CatchOwned(d) PROVE MoneyInvariant'
  <2>1. PICK final \in BOOLEAN :
           worker' = [worker EXCEPT ![d] = [@ EXCEPT !.pc = AfterCatch(d, final), !.last = final,
                                                     !.error = "none"]]
    BY <1>4 DEF CatchOwned
  <2>2. /\ OnlyMoves(d)
        /\ worker'[d].pc = AfterCatch(d, final)
        /\ worker'[d].version = worker[d].version
    BY <2>1 DEF OnlyMoves, Good, TypeOK, WorkerType
  <2>3. /\ job' = job /\ attempts' = attempts /\ ledger' = ledger /\ resv' = resv
        /\ UNCHANGED <<db, closer>>
        /\ worker[d].pc = "catch" /\ HoldsLease(d) /\ worker[d].error # "leaselost"
    BY <1>4 DEF CatchOwned, db
  <2>4. ~Lost /\ job.settlement \in Open \cup {"RECONCILING", "SETTLED"}
    BY <2>3, LeasedIsUnsettled
  <2>5. CASE AfterCatch(d, final) \in {"threw", "fail"}
    BY <2>2, <2>3, <2>5, LocalQuiet DEF Quiet
  <2>6. CASE AfterCatch(d, final) = "remark"
    <3>1. worker[d].error = "reconcile" \/ job.settlement = "RECONCILING"
      BY <2>6 DEF AfterCatch
    <3>2. Backed
      BY <2>3, <2>4, <3>1, Known DEF Knows, Good, MoneyInvariant, RowInvariant
    <3>3. DeliveryKnows(d)'
      BY <2>2, <2>3, <2>6, <3>2 DEF DeliveryKnows, Knows, OwnerKnows, ClaimKnows, Backed, EveryHold,
                                    Lost, Preparing, Calling, Settling, Untried
    <3>4. QED BY <2>2, <2>3, <3>3, LocalMove
  <2>7. CASE AfterCatch(d, final) = "release"
    <3>1. job.settlement \in Open => worker[d].error \in {"none", "retriable"}
      BY <2>3, <2>7 DEF AfterCatch, Open, Good, TypeOK, WorkerType, Errors
    <3>2. job.settlement \in Open => Unresolved = {}
      BY <2>3, <3>1, Known DEF OwnerKnows
    <3>3. DeliveryKnows(d)'
      BY <2>2, <2>3, <2>7, <3>2 DEF DeliveryKnows, Knows, OwnerKnows, ClaimKnows, Unresolved,
                                    Preparing, Calling, Settling, Untried
    <3>4. QED BY <2>2, <2>3, <3>3, LocalMove
  <2>8. QED BY <2>5, <2>6, <2>7 DEF AfterCatch
<1>5. QED BY <1>1, <1>2, <1>3, <1>4

LEMMA FailuresKeepMoney ==
    ASSUME Good, NEW d \in Deliveries
    PROVE  /\ DatabaseFails(d) => MoneyInvariant'
           /\ Rest(d) => MoneyInvariant'
           /\ Die(d) => MoneyInvariant'
<1>1. ASSUME DatabaseFails(d) PROVE MoneyInvariant'
  <2> DEFINE label == worker[d].pc
             error == DatabaseError(label)
  <2>1. CASE End(d, "threw")
    BY <1>1, <2>1, EndFields, LocalQuiet DEF DatabaseFails, Quiet, Good
  <2>2. CASE Raise(d, error) /\ error # "none"
    <3>1. error = "reconcile" => label \in {"accept", "mark", "adjust", "commit"}
      BY DEF DatabaseError
    <3>2. error = "reconcile" => Backed
      BY <3>1, Known DEF Knows, Calling
    <3>3. error = "retriable" =>
             label \in {"adopt", "clean", "settle", "commit", "verify", "book", "finish"}
      BY DEF DatabaseError
    <3>4. HoldsLease(d) /\ job.settlement \in Open => label \notin {"settle", "commit", "verify"}
      BY Known DEF Knows, OwnerKnows, Settling, Open
    <3>5. label \in {"book", "finish"} => job.settlement \notin Open
      BY DEF Good, LeaseInvariant, VerifiedIsSettled, Open
    <3>6. HoldsLease(d) /\ label \in {"adopt", "clean"} => Unresolved = {}
      BY Known DEF OwnerKnows, Untried, Preparing
    <3> HIDE DEF label, error
    <3>7. QED BY <1>1, <2>2, <3>2, <3>3, <3>4, <3>5, <3>6, LocalRaise DEF DatabaseFails
  <2>3. QED BY <1>1, <2>1, <2>2 DEF DatabaseFails
<1>2. ASSUME Rest(d) PROVE MoneyInvariant'
  BY <1>2, EndFields, LocalQuiet DEF Rest, Quiet, Good
<1>3. ASSUME Die(d) PROVE MoneyInvariant'
  <2>1. OnlyMoves(d) /\ worker'[d].pc = "idle"
    BY <1>3 DEF Die, OnlyMoves, Idle, Good, TypeOK
  <2>2. \A c \in Closers : closer'[c] = closer[c] \/ closer'[c].pc = "idle"
    BY <1>3 DEF Die, NoClose, Good, TypeOK
  <2>3. DeliveryKnows(d)'
    BY <2>1, QuietKnows DEF Quiet
  <2>4. UNCHANGED db
    BY <1>3 DEF Die
  <2>5. QED BY <2>1, <2>2, <2>3, <2>4, LocalStep DEF OnlyMoves, Good
<1>4. QED BY <1>1, <1>2, <1>3

-----------------------------------------------------------------------------
(***************************************************************************)
(* Steps that write rows.  What a delivery knows whoever holds the lease   *)
(* outlives every step of the others.                                      *)
(***************************************************************************)
Monotone ==
    /\ job'.quota = job.quota
    /\ ledger'.spend = ledger.spend
    /\ Backed => Backed'
    /\ Broken => Broken'
    /\ Answered => Answered'
    /\ job.settlement = "SETTLED" => job'.settlement = "SETTLED"
    /\ books \subseteq books'

LEMMA KnowledgeStays ==
    ASSUME Monotone, NEW d \in Deliveries, Knows(d), worker'[d] = worker[d]
    PROVE  Knows(d)'
BY DEF Monotone, Knows

\* A delivery that does not hold the lease, and whose process does not.
LEMMA OthersKnow ==
    ASSUME Monotone, NEW d \in Deliveries, Knows(d), worker'[d] = worker[d],
           job'.lockedBy # Process[d]
    PROVE  DeliveryKnows(d)'
BY KnowledgeStays DEF DeliveryKnows, ClaimKnows, HoldsLease, Owns

\* Nobody closes a job that is not lost.
LEMMA NobodyCloses ==
    ASSUME Good, ~Lost, NEW c \in Closers
    PROVE  closer[c].pc = "idle"
BY DEF Good, TypeOK, CloserType, Lost, MoneyInvariant, CloserInvariant, CloserKnows

\* A step on a job that is not lost, by its owner or by somebody who unlocks it.
LEMMA OwnerStep ==
    ASSUME Good, ~Lost, Monotone, RowInvariant', LedgerInvariant', BooksInvariant',
           \A e \in Deliveries : \/ DeliveryKnows(e)'
                                 \/ worker'[e] = worker[e] /\ job'.lockedBy # Process[e],
           \A c \in Closers : closer'[c] = closer[c] \/ CloserKnows(c)'
    PROVE  MoneyInvariant'
<1>1. DeliveryInvariant'
  BY Known, OthersKnow DEF DeliveryInvariant
<1>2. CloserInvariant'
  BY NobodyCloses DEF CloserInvariant, CloserKnows
<1>3. QED BY <1>1, <1>2 DEF MoneyInvariant

\* Such a step of the owner, which stays the owner or unlocks the row.
LEMMA FencedStep ==
    ASSUME Good, NEW d \in Deliveries, HoldsLease(d), OnlyMoves(d), Monotone,
           job'.lockedBy \in {Process[d], None},
           RowInvariant', LedgerInvariant', BooksInvariant', DeliveryKnows(d)',
           \A c \in Closers : closer'[c] = closer[c] \/ CloserKnows(c)'
    PROVE  MoneyInvariant'
<1>1. ~Lost
  BY LeasedIsUnsettled
<1>2. \A e \in Deliveries : e # d => job'.lockedBy # Process[e]
  BY ProcessAssumption DEF Good, OwnProcesses
<1>3. QED BY <1>1, <1>2, OwnerStep DEF OnlyMoves

\* The ledger and the books of a running job that nobody gave money back for.
LEMMA RunningLedger ==
    ASSUME Good, ~Lost
    PROVE  /\ ledger.refund = 0 /\ ledger.enqueue = 0
           /\ job.settlement \notin Closed
           /\ ~Lost' /\ job'.settlement \notin Closed /\ ledger' = ledger => LedgerInvariant'
           /\ /\ job'.status # "SUCCEEDED"
              /\ job'.settlement \notin Closed
              /\ job.settlement = "SETTLED" => job'.settlement = "SETTLED"
              /\ books' = books
              /\ ledger'.refund = ledger.refund
              => BooksInvariant'
<1>1. ledger.refund = 0 /\ ledger.enqueue = 0 /\ Given <= Taken
  BY DEF Good, MoneyInvariant, LedgerInvariant, TypeOK
<1>2. job.settlement \notin Closed
  BY DEF Good, LeaseInvariant, OutcomeMatchesMoney, Lost
<1>3. ASSUME job'.settlement \notin Closed, ledger' = ledger
      PROVE  LedgerInvariant'
  BY <1>1, <1>3 DEF LedgerInvariant, Given, Taken
<1>4. ASSUME job'.status # "SUCCEEDED", job'.settlement \notin Closed,
             job.settlement = "SETTLED" => job'.settlement = "SETTLED",
             books' = books, ledger'.refund = ledger.refund
      PROVE  BooksInvariant'
  BY <1>4 DEF BooksInvariant, Closed, Good, MoneyInvariant
<1>5. QED BY <1>1, <1>2, <1>3, <1>4

\* Claiming: the new owner knows the row was queued.
LEMMA ClaimKeepsMoney ==
    ASSUME Good, NEW d \in Deliveries, Claim(d)
    PROVE  MoneyInvariant'
<1>1. /\ job.status = "QUEUED"
      /\ job'.status = "RUNNING"
      /\ job'.settlement = job.settlement
      /\ job'.quota = job.quota
      /\ job'.lockedBy = Process[d]
      /\ attempts' = attempts /\ outputs' = outputs /\ resv' = resv
      /\ ledger' = ledger /\ books' = books /\ closer' = closer
  BY DEF Claim, Claimable, Good, TypeOK, JobType
<1>2. OnlyMoves(d) /\ worker'[d].pc = "read"
  BY DEF Claim, OnlyMoves, Idle, Good, TypeOK
<1>3. ~Lost /\ ~Lost'
  BY <1>1 DEF Lost, Failed
<1>4. Monotone
  BY <1>1, <1>3 DEF Monotone, Backed, EveryHold, Broken, Answered
<1>5. RowInvariant'
  BY <1>1, <1>3 DEF Good, MoneyInvariant, RowInvariant, Backed, EveryHold, Answered, Unresolved
<1>6. LedgerInvariant' /\ BooksInvariant'
  BY <1>1, <1>3, RunningLedger
<1>7. DeliveryKnows(d)'
  BY <1>1, <1>2 DEF DeliveryKnows, Knows, OwnerKnows, ClaimKnows, Good, MoneyInvariant,
                    RowInvariant, Unresolved, Preparing, Calling, Settling, Untried
<1>8. \A e \in Deliveries : e # d => job'.lockedBy # Process[e]
  BY <1>1 DEF Good, OwnProcesses
<1>9. QED BY <1>1, <1>2, <1>3, <1>4, <1>5, <1>6, <1>7, <1>8, OwnerStep DEF OnlyMoves

\* The owner of a RESERVED job writes attempts or outputs.
LEMMA RunnerWrites ==
    ASSUME Good, NEW d \in Deliveries, HoldsLease(d), worker[d].pc \in Calling,
           OnlyMoves(d), UNCHANGED <<job, resv, ledger, books, closer>>,
           Answered => Answered',
           worker'[d].version = worker[d].version,
           Backed' /\ job'.settlement = "RESERVED" => DeliveryKnows(d)'
    PROVE  MoneyInvariant'
<1>1. /\ ~Lost /\ ~Lost'
      /\ job'.status = "RUNNING"
      /\ job.settlement = "RESERVED" /\ job'.settlement = "RESERVED"
      /\ Backed
  BY LeasedIsUnsettled, Known DEF OwnerKnows, Knows, HoldsLease, Lost
<1>2. Backed'
  BY <1>1 DEF Backed, EveryHold
<1>3. Monotone
  BY <1>2 DEF Monotone, Broken
<1>4. RowInvariant'
  BY <1>1, <1>2 DEF Good, MoneyInvariant, RowInvariant
<1>5. LedgerInvariant' /\ BooksInvariant'
  BY <1>1, RunningLedger DEF Closed
<1>6. job'.lockedBy = Process[d]
  BY DEF HoldsLease
<1>7. QED BY <1>1, <1>2, <1>3, <1>4, <1>5, <1>6, FencedStep

\* What the owner of a RESERVED job knows at the labels of a call.
LEMMA CallerKnows ==
    ASSUME NEW d \in Deliveries, worker'[d].pc \in Calling,
           worker'[d].quota = job'.quota, Backed', job'.settlement = "RESERVED",
           worker'[d].pc = "mark" => Answered',
           worker'[d].pc \in {"call", "undo", "refused", "accept"} =>
               worker'[d].attempt \in AttemptIds,
           worker'[d].pc \in {"clean", "start"} => Unresolved' = {}
    PROVE  DeliveryKnows(d)'
BY DEF DeliveryKnows, Knows, OwnerKnows, ClaimKnows, Preparing, Calling, Settling, Untried

\* A delivery inside a call that goes on to another label of it, and may have
\* written outputs as the owner.
LEMMA StillCalling ==
    ASSUME Good, NEW d \in Deliveries, OnlyMoves(d),
           UNCHANGED <<job, attempts, resv, ledger, books, closer>>,
           outputs' = outputs \/ HoldsLease(d),
           worker[d].pc \in {"call", "undo", "refused", "accept"},
           worker'[d].pc \in {"call", "undo", "refused", "accept"},
           worker'[d].version = worker[d].version,
           worker'[d].quota = worker[d].quota,
           worker'[d].attempt = worker[d].attempt
    PROVE  MoneyInvariant'
<1>1. worker[d].quota = job.quota /\ Backed /\ worker[d].attempt \in AttemptIds
  BY Known DEF Knows, Calling
<1>2. Knows(d)'
  BY <1>1 DEF Knows, Backed, EveryHold, Lost, Preparing, Settling
<1>3. HoldsLease(d)' <=> HoldsLease(d)
  BY DEF HoldsLease
<1>4. HoldsLease(d) => job.settlement = "RESERVED"
  BY Known DEF OwnerKnows, Calling
<1>5. HoldsLease(d)' => OwnerKnows(d)'
  BY <1>3, <1>4 DEF OwnerKnows, Preparing, Settling, Untried
<1>6. DeliveryKnows(d)'
  BY <1>2, <1>5 DEF DeliveryKnows, ClaimKnows
<1>7. CASE HoldsLease(d)
  BY <1>6, <1>7, RunnerWrites DEF Calling, Answered
<1>8. CASE ~HoldsLease(d)
  BY <1>6, <1>8, LocalMove DEF db
<1>9. QED BY <1>7, <1>8

\* The Provider's answers and refusals, and the outputs.
LEMMA CallKeepsMoney ==
    ASSUME Good, NEW d \in Deliveries
    PROVE  /\ NoCandidate(d) => MoneyInvariant'
           /\ ProviderRefuses(d) => MoneyInvariant'
           /\ StreamBreaks(d) => MoneyInvariant'
           /\ ChatAnswers(d) => MoneyInvariant'
           /\ StoreOutput(d) => MoneyInvariant'
           /\ UndoOutputs(d) => MoneyInvariant'
<1>1. ASSUME NoCandidate(d) PROVE MoneyInvariant'
  <2>1. HoldsLease(d) => Unresolved = {}
    BY <1>1, Known DEF NoCandidate, OwnerKnows, Untried
  <2>2. QED BY <1>1, <2>1, LocalRaise DEF NoCandidate
<1>2. ASSUME StreamBreaks(d) PROVE MoneyInvariant'
  <2>1. Backed
    BY <1>2, Known DEF StreamBreaks, Knows, Calling
  <2>2. QED BY <1>2, <2>1, LocalRaise DEF StreamBreaks
<1>3. ASSUME NEW label \in {"call", "undo", "refused", "accept"},
             \/ Goto(d, label)
             \/ \E e : worker' = [worker EXCEPT ![d] = [@ EXCEPT !.pc = label, !.error = e]]
             \/ label = worker[d].pc /\ worker' = [worker EXCEPT ![d].stored = @ + 1]
      PROVE  /\ OnlyMoves(d)
             /\ worker'[d].pc = label
             /\ worker'[d].version = worker[d].version
             /\ worker'[d].quota = worker[d].quota
             /\ worker'[d].attempt = worker[d].attempt
  <2>1. CASE Goto(d, label)
    BY <2>1 DEF Goto, OnlyMoves, Good, TypeOK, WorkerType
  <2>2. ASSUME NEW e, worker' = [worker EXCEPT ![d] = [@ EXCEPT !.pc = label, !.error = e]]
        PROVE  /\ OnlyMoves(d)
               /\ worker'[d].pc = label
               /\ worker'[d].version = worker[d].version
               /\ worker'[d].quota = worker[d].quota
               /\ worker'[d].attempt = worker[d].attempt
    BY <2>2 DEF OnlyMoves, Good, TypeOK, WorkerType
  <2>3. CASE label = worker[d].pc /\ worker' = [worker EXCEPT ![d].stored = @ + 1]
    BY <2>3 DEF OnlyMoves, Good, TypeOK, WorkerType
  <2>4. QED BY <1>3, <2>1, <2>2, <2>3
<1>4. ASSUME ProviderRefuses(d) PROVE MoneyInvariant'
  <2> DEFINE label == IF Chat THEN "refused" ELSE "undo"
  <2>1. \E e : worker' = [worker EXCEPT ![d] = [@ EXCEPT !.pc = label, !.error = e]]
    BY <1>4 DEF ProviderRefuses
  <2>2. label \in {"undo", "refused"}
    OBVIOUS
  <2> HIDE DEF label
  <2>3. QED BY <1>3, <1>4, <2>1, <2>2, StillCalling DEF ProviderRefuses, db
<1>5. ASSUME ChatAnswers(d) PROVE MoneyInvariant'
  BY <1>3, <1>5, StillCalling DEF ChatAnswers, db
<1>6. ASSUME StoreOutput(d) PROVE MoneyInvariant'
  BY <1>3, <1>6, StillCalling DEF StoreOutput
<1>7. ASSUME UndoOutputs(d) PROVE MoneyInvariant'
  BY <1>3, <1>7, StillCalling DEF UndoOutputs
<1>8. QED BY <1>1, <1>2, <1>4, <1>5, <1>6, <1>7

\* Clearing old outputs and the attempt audit.
LEMMA AuditKeepsMoney ==
    ASSUME Good, NEW d \in Deliveries
    PROVE  /\ CleanOutputs(d) => MoneyInvariant'
           /\ StartAttempt(d) => MoneyInvariant'
           /\ FailAttempt(d) => MoneyInvariant'
           /\ SucceedAttempt(d) => MoneyInvariant'
<1>1. worker[d].pc \in Calling => worker[d].quota = job.quota /\ Backed
  BY Known DEF Knows
<1>2. HoldsLease(d) /\ worker[d].pc \in {"clean", "start"} => Unresolved = {}
  BY Known DEF OwnerKnows, Untried
<1>3. ASSUME CleanOutputs(d) PROVE MoneyInvariant'
  <2>1. CASE Raise(d, "retriable") /\ UNCHANGED outputs
    BY <1>2, <1>3, <2>1, LocalRaise DEF CleanOutputs, db
  <2>2. CASE HoldsLease(d) /\ Goto(d, "start")
    <3>1. /\ OnlyMoves(d)
          /\ worker'[d].pc = "start"
          /\ worker'[d].version = worker[d].version
          /\ worker'[d].quota = worker[d].quota
      BY <2>2, GotoFields DEF Good
    <3>2. UNCHANGED <<job, attempts, resv, ledger, books, closer>> /\ worker[d].pc = "clean"
      BY <1>3 DEF CleanOutputs
    <3>3. worker[d].quota = job.quota /\ Unresolved' = {}
      BY <1>1, <1>2, <2>2, <3>2 DEF Calling, Unresolved
    <3>4. Backed' /\ job'.settlement = "RESERVED" => DeliveryKnows(d)'
      BY <3>1, <3>2, <3>3, CallerKnows DEF Calling
    <3>5. QED BY <2>2, <3>1, <3>2, <3>4, RunnerWrites DEF Calling, Answered
  <2>3. QED BY <1>3, <2>1, <2>2 DEF CleanOutputs
<1>4. ASSUME StartAttempt(d) PROVE MoneyInvariant'
  <2>1. worker[d].pc = "start" /\ UNCHANGED <<job, outputs, resv, ledger, books, closer>>
    BY <1>4 DEF StartAttempt
  <2>2. CASE UNCHANGED attempts /\ \E error \in {"reconcile", "terminal"} : Raise(d, error)
    BY <1>1, <2>1, <2>2, LocalRaise DEF db, Calling
  <2>3. ASSUME HoldsLease(d), NEW a \in AttemptIds, attempts[a] = "none",
               attempts' = [attempts EXCEPT ![a] = "RUNNING"],
               worker' = [worker EXCEPT ![d] = [@ EXCEPT !.pc = "call", !.attempt = a, !.stored = 0]]
        PROVE  MoneyInvariant'
    <3>1. /\ OnlyMoves(d)
          /\ worker'[d].pc = "call"
          /\ worker'[d].version = worker[d].version
          /\ worker'[d].quota = worker[d].quota
          /\ worker'[d].attempt = a
      BY <2>3 DEF OnlyMoves, Good, TypeOK, WorkerType
    <3>2. Answered => Answered'
      BY <2>3 DEF Answered, Good, TypeOK
    <3>3. Backed' /\ job'.settlement = "RESERVED" => DeliveryKnows(d)'
      BY <1>1, <2>1, <3>1, CallerKnows DEF Calling
    <3>4. QED BY <2>1, <2>3, <3>1, <3>2, <3>3, RunnerWrites DEF Calling
  <2>4. QED BY <1>4, <2>2, <2>3 DEF StartAttempt
<1>5. ASSUME worker[d].pc \in {"refused", "accept"}, HoldsLease(d),
             attempts[worker[d].attempt] = "RUNNING", NEW x,
             attempts' = [attempts EXCEPT ![worker[d].attempt] = x]
      PROVE  /\ worker[d].attempt \in AttemptIds
             /\ Answered => Answered'
             /\ x = "SUCCEEDED" => Answered'
             /\ x = "FAILED" => Unresolved' = {}
  <2>1. worker[d].attempt \in AttemptIds
    BY <1>5, Known DEF Knows
  <2>2. Unresolved = {worker[d].attempt}
    BY <1>5, <2>1 DEF Unresolved, Good, AtMostOne
  <2>3. QED BY <1>5, <2>1, <2>2 DEF Answered, Unresolved, Good, TypeOK
<1>6. ASSUME FailAttempt(d) PROVE MoneyInvariant'
  <2> DEFINE a == worker[d].attempt
  <2>1. worker[d].pc = "refused" /\ UNCHANGED <<job, outputs, resv, ledger, books, closer>>
    BY <1>6 DEF FailAttempt
  <2>2. CASE UNCHANGED attempts /\ Raise(d, "terminal")
    BY <2>1, <2>2, LocalRaise DEF db
  <2>3. CASE /\ HoldsLease(d) /\ attempts[a] = "RUNNING"
             /\ attempts' = [attempts EXCEPT ![a] = "FAILED"]
    <3>1. a \in AttemptIds /\ (Answered => Answered') /\ Unresolved' = {}
      BY <1>5, <2>1, <2>3
    <3>2. CASE Raise(d, worker[d].error)
      <4>1. /\ OnlyMoves(d)
            /\ worker'[d].pc = "catch"
            /\ worker'[d].version = worker[d].version
        BY <3>2, RaiseFields DEF Good
      <4>2. Backed' => DeliveryKnows(d)'
        BY <3>1, <4>1 DEF DeliveryKnows, Knows, OwnerKnows, ClaimKnows, Preparing, Calling,
                          Settling, Untried
      <4>3. QED BY <2>1, <2>3, <3>1, <4>1, <4>2, RunnerWrites DEF Calling
    <3>3. CASE worker' = [worker EXCEPT ![d] = [@ EXCEPT !.pc = "start", !.error = "none",
                                                         !.attempt = None, !.stored = 0]]
      <4>1. /\ OnlyMoves(d)
            /\ worker'[d].pc = "start"
            /\ worker'[d].version = worker[d].version
            /\ worker'[d].quota = worker[d].quota
        BY <3>3 DEF OnlyMoves, Good, TypeOK, WorkerType
      <4>2. Backed' /\ job'.settlement = "RESERVED" => DeliveryKnows(d)'
        BY <1>1, <2>1, <3>1, <4>1, CallerKnows DEF Calling
      <4>3. QED BY <2>1, <2>3, <3>1, <4>1, <4>2, RunnerWrites DEF Calling
    <3>4. QED BY <1>6, <2>3, <3>2, <3>3 DEF FailAttempt
  <2>4. QED BY <1>6, <2>2, <2>3 DEF FailAttempt
<1>7. ASSUME SucceedAttempt(d) PROVE MoneyInvariant'
  <2>1. worker[d].pc = "accept" /\ UNCHANGED <<job, outputs, resv, ledger, books, closer>>
    BY <1>7 DEF SucceedAttempt
  <2>2. CASE UNCHANGED attempts /\ Raise(d, "reconcile")
    BY <1>1, <2>1, <2>2, LocalRaise DEF db, Calling
  <2>3. CASE /\ HoldsLease(d) /\ attempts[worker[d].attempt] = "RUNNING"
             /\ attempts' = [attempts EXCEPT ![worker[d].attempt] = "SUCCEEDED"]
             /\ worker' = [worker EXCEPT ![d] = [@ EXCEPT !.pc = "mark", !.attempt = None, !.stored = 0]]
    <3>1. /\ OnlyMoves(d)
          /\ worker'[d].pc = "mark"
          /\ worker'[d].version = worker[d].version
          /\ worker'[d].quota = worker[d].quota
      BY <2>3 DEF OnlyMoves, Good, TypeOK, WorkerType
    <3>2. Answered'
      BY <1>5, <2>1, <2>3
    <3>3. Backed' /\ job'.settlement = "RESERVED" => DeliveryKnows(d)'
      BY <1>1, <2>1, <3>1, <3>2, CallerKnows DEF Calling
    <3>4. QED BY <2>1, <2>3, <3>1, <3>2, <3>3, RunnerWrites DEF Calling
  <2>4. QED BY <1>7, <2>2, <2>3 DEF SucceedAttempt
<1>8. QED BY <1>3, <1>4, <1>6, <1>7

\* The owner marks the settlement of a job whose money is there.
LEMMA OwnerMarks ==
    ASSUME Good, NEW d \in Deliveries, HoldsLease(d), Backed, job.settlement # "SETTLED",
           NEW x \in {"RESERVED", "RECONCILING"}, job' = [job EXCEPT !.settlement = x],
           UNCHANGED <<attempts, outputs, resv, ledger, books, closer>>, OnlyMoves(d),
           job'.settlement = x /\ job'.quota = job.quota /\ Backed' => DeliveryKnows(d)'
    PROVE  MoneyInvariant'
<1>1. /\ job'.status = job.status /\ job'.quota = job.quota
      /\ job'.settlement = x /\ job'.lockedBy = job.lockedBy
  BY DEF Good, TypeOK, JobType
<1>2. /\ ~Lost /\ ~Lost' /\ job'.status = "RUNNING" /\ job'.settlement \notin Closed
      /\ job'.lockedBy = Process[d]
  BY <1>1 DEF Lost, Failed, HoldsLease, Closed
<1>3. Backed'
  BY <1>1, <1>2 DEF Backed, EveryHold, Lost
<1>4. Monotone
  BY <1>1, <1>3 DEF Monotone, Broken, Answered
<1>5. RowInvariant'
  BY <1>1, <1>2, <1>3 DEF Good, MoneyInvariant, RowInvariant, Unresolved
<1>6. LedgerInvariant' /\ BooksInvariant'
  BY <1>2, RunningLedger
<1>7. QED BY <1>1, <1>2, <1>3, <1>4, <1>5, <1>6, FencedStep

LEMMA MarksKeepMoney ==
    ASSUME Good, NEW d \in Deliveries
    PROVE  /\ Adopt(d) => MoneyInvariant'
           /\ MarkReconciling(d) => MoneyInvariant'
           /\ Remark(d) => MoneyInvariant'
           /\ SettleNonChat(d) => MoneyInvariant'
<1>1. ASSUME Adopt(d) PROVE MoneyInvariant'
  <2>1. worker[d].pc = "adopt" /\ UNCHANGED <<attempts, outputs, resv, ledger, books, closer>>
    BY <1>1 DEF Adopt
  <2>2. Backed /\ worker[d].quota = job.quota
    BY <2>1, Known DEF Knows, Preparing
  <2>3. CASE Raise(d, "cancelled") /\ UNCHANGED job
    BY <2>1, <2>3, LocalRaise DEF db
  <2>4. CASE HoldsLease(d) /\ job' = [job EXCEPT !.settlement = "RESERVED"] /\ Goto(d, RunnerStart)
    <3>1. /\ OnlyMoves(d)
          /\ worker'[d].pc \in {"clean", "start"}
          /\ worker'[d].quota = worker[d].quota
      BY <2>4, GotoFields DEF Good, RunnerStart
    <3>2. Unresolved' = {} /\ job.settlement # "SETTLED"
      BY <2>1, <2>4, Known DEF OwnerKnows, Preparing, Untried, Unresolved, Open
    <3>3. job'.settlement = "RESERVED" /\ job'.quota = job.quota /\ Backed' => DeliveryKnows(d)'
      BY <2>2, <3>1, <3>2, CallerKnows DEF Calling
    <3>4. QED BY <2>1, <2>2, <2>4, <3>1, <3>2, <3>3, OwnerMarks
  <2>5. QED BY <1>1, <2>3, <2>4 DEF Adopt
<1>2. ASSUME MarkReconciling(d) PROVE MoneyInvariant'
  <2>1. worker[d].pc = "mark" /\ UNCHANGED <<attempts, outputs, resv, ledger, books, closer>>
    BY <1>2 DEF MarkReconciling
  <2>2. Backed /\ Answered /\ worker[d].quota = job.quota
    BY <2>1, Known DEF Knows, Calling
  <2>3. CASE Raise(d, "reconcile") /\ UNCHANGED job
    BY <2>1, <2>2, <2>3, LocalRaise DEF db
  <2>4. CASE /\ HoldsLease(d) /\ job' = [job EXCEPT !.settlement = "RECONCILING"]
             /\ Goto(d, IF Chat THEN "adjust" ELSE "settle")
    <3>1. /\ OnlyMoves(d)
          /\ worker'[d].pc = IF Chat THEN "adjust" ELSE "settle"
          /\ worker'[d].quota = worker[d].quota
      BY <2>4, GotoFields DEF Good
    <3>2. job.settlement # "SETTLED"
      BY <2>1, <2>4, Known DEF OwnerKnows, Calling
    <3>3. job'.settlement = "RECONCILING" /\ job'.quota = job.quota /\ Backed' => DeliveryKnows(d)'
      BY <2>1, <2>2, <3>1 DEF DeliveryKnows, Knows, OwnerKnows, ClaimKnows, Answered, Preparing,
                              Calling, Settling, Untried
    <3>4. QED BY <2>1, <2>2, <2>4, <3>1, <3>2, <3>3, OwnerMarks
  <2>5. QED BY <1>2, <2>3, <2>4 DEF MarkReconciling
<1>3. ASSUME Remark(d) PROVE MoneyInvariant'
  <2>1. worker[d].pc = "remark" /\ UNCHANGED <<attempts, outputs, resv, ledger, books, closer>>
    BY <1>3 DEF Remark
  <2>2. CASE End(d, "threw") /\ UNCHANGED job
    BY <2>1, <2>2, EndFields, LocalQuiet DEF Good, Quiet, db
  <2>3. CASE /\ HoldsLease(d) /\ job' = [job EXCEPT !.settlement = "RECONCILING"]
             /\ Goto(d, IF Chat \/ worker[d].last THEN "finalize" ELSE "release")
    <3>1. /\ OnlyMoves(d)
          /\ worker'[d].pc \in {"finalize", "release"}
      BY <2>3, GotoFields DEF Good
    <3>2. Backed /\ job.settlement # "SETTLED"
      BY <2>1, <2>3, Known DEF Knows, Good, LeaseInvariant, OwnerSettles, BeforeSettlement,
                               Unsettled
    <3>3. job'.settlement = "RECONCILING" => DeliveryKnows(d)'
      BY <3>1 DEF DeliveryKnows, Knows, OwnerKnows, ClaimKnows, Preparing, Calling, Settling,
                  Untried, Open
    <3>4. QED BY <2>1, <2>3, <3>1, <3>2, <3>3, OwnerMarks
  <2>4. QED BY <1>3, <2>2, <2>3 DEF Remark
<1>4. ASSUME SettleNonChat(d) PROVE MoneyInvariant'
  <2>1. worker[d].pc = "settle" /\ UNCHANGED <<attempts, outputs, resv, ledger, books, closer>>
    BY <1>4 DEF SettleNonChat
  <2>2. CASE Raise(d, "terminal") /\ UNCHANGED job
    BY <2>1, <2>2, LocalRaise DEF db
  <2>3. CASE /\ HoldsLease(d) /\ outputs = Expected /\ Answered
             /\ job' = [job EXCEPT !.settlement = IF @ = "SETTLED" THEN @ ELSE "RECONCILING"]
             /\ Goto(d, "commit")
    <3>1. /\ OnlyMoves(d)
          /\ worker'[d].pc = "commit"
          /\ worker'[d].version = worker[d].version
          /\ worker'[d].quota = worker[d].quota
      BY <2>3, GotoFields DEF Good
    <3>2. job.settlement \in {"RECONCILING", "SETTLED"} /\ worker[d].quota = job.quota
      BY <2>1, <2>3, Known DEF Knows, OwnerKnows, Settling
    <3>3. job' = job
      BY <2>3, <3>2 DEF Good, TypeOK, JobType
    <3>4. Backed
      BY <2>3, <3>2, LeasedIsUnsettled DEF Good, MoneyInvariant, RowInvariant
    <3>5. Backed' /\ Answered'
      BY <2>1, <2>3, <3>3, <3>4 DEF Backed, EveryHold, Lost, Answered
    <3>6. DeliveryKnows(d)'
      BY <2>1, <2>3, <3>1, <3>2, <3>3, <3>5 DEF DeliveryKnows, Knows, OwnerKnows, ClaimKnows,
                                                Preparing, Calling, Settling, Untried
    <3>7. QED BY <2>1, <3>1, <3>3, <3>6, LocalMove DEF db
  <2>4. QED BY <1>4, <2>2, <2>3 DEF SettleNonChat, Answered
<1>5. QED BY <1>1, <1>2, <1>3, <1>4

\* The real cost of a chat: one side of the ledger, once, and never more back
\* than was spent up front.
LEMMA AdjustKeepsMoney ==
    ASSUME Good, NEW d \in Deliveries, Adjust(d)
    PROVE  MoneyInvariant'
<1>1. /\ worker[d].pc = "adjust"
      /\ UNCHANGED <<job, attempts, outputs, resv, books, closer>>
      /\ Goto(d, "commit") \/ Raise(d, "reconcile")
  BY DEF Adjust
<1>2. worker[d].quota = job.quota /\ Backed /\ Answered /\ Chat
  BY <1>1, Known DEF Knows, Settling
<1>3. /\ OnlyMoves(d)
      /\ worker'[d].version = worker[d].version
      /\ \/ worker'[d].pc = "commit" /\ worker'[d].quota = worker[d].quota
         \/ worker'[d].pc = "catch"
  BY <1>1, GotoFields, RaiseFields DEF Good
<1>4. HoldsLease(d)' <=> HoldsLease(d)
  BY <1>1, <1>3 DEF HoldsLease
<1>5. HoldsLease(d) => job.settlement \in {"RECONCILING", "SETTLED"}
  BY <1>1, Known DEF OwnerKnows, Settling
<1>6. ASSUME Backed' PROVE DeliveryKnows(d)'
  BY <1>1, <1>2, <1>3, <1>4, <1>5, <1>6 DEF DeliveryKnows, Knows, OwnerKnows, ClaimKnows, Answered,
                                  Preparing, Calling, Settling, Untried, Open
<1>7. CASE ledger' = ledger
  <2>1. Backed'
    BY <1>1, <1>2, <1>7 DEF Backed, EveryHold, Lost
  <2>2. QED BY <1>1, <1>3, <1>6, <1>7, <2>1, LocalMove DEF db
<1>8. CASE /\ ~worker[d].quota
           /\ Chargeable(d)
           /\ ledger.extra + ledger.back = 0
           /\ \/ \E n \in 1..MaxExtra : ledger' = [ledger EXCEPT !.extra = n]
              \/ \E n \in 1..Cost     : ledger' = [ledger EXCEPT !.back = n]
  <2>1. HoldsLease(d) /\ ~Lost /\ ~Lost'
    BY <1>1, <1>8, LeasedIsUnsettled DEF Chargeable, Lost
  <2>2. ledger.spend = Cost /\ Cost \in Nat /\ MaxExtra \in Nat
    BY <1>2, <1>8, BoundAssumption DEF Backed
  <2>3. ledger \in [spend : Nat, extra : Nat, back : Nat, refund : Nat, enqueue : Nat]
    BY DEF Good, TypeOK
  <2>4. ledger.refund = 0 /\ ledger.enqueue = 0 /\ job.settlement \notin Closed
    BY <2>1, RunningLedger
  <2>5. /\ ledger'.spend = ledger.spend /\ ledger'.refund = 0 /\ ledger'.enqueue = 0
        /\ ledger'.extra \in Nat /\ ledger'.back \in Nat
        /\ \/ ledger'.extra > 0 /\ ledger'.back = 0
           \/ ledger'.extra = 0 /\ ledger'.back <= Cost
    <3>1. ledger.extra = 0 /\ ledger.back = 0
      BY <1>8, <2>3
    <3>2. ASSUME NEW n \in 1..MaxExtra, ledger' = [ledger EXCEPT !.extra = n]
          PROVE  /\ ledger'.spend = ledger.spend /\ ledger'.refund = 0 /\ ledger'.enqueue = 0
                 /\ ledger'.extra \in Nat /\ ledger'.extra > 0 /\ ledger'.back = 0
      BY <2>2, <2>3, <2>4, <3>1, <3>2
    <3>3. ASSUME NEW n \in 1..Cost, ledger' = [ledger EXCEPT !.back = n]
          PROVE  /\ ledger'.spend = ledger.spend /\ ledger'.refund = 0 /\ ledger'.enqueue = 0
                 /\ ledger'.extra = 0 /\ ledger'.back \in Nat /\ ledger'.back <= Cost
      BY <2>2, <2>3, <2>4, <3>1, <3>3
    <3>4. QED BY <1>8, <3>2, <3>3
  <2>6. LedgerInvariant'
    BY <1>1, <2>2, <2>4, <2>5 DEF LedgerInvariant, Given, Taken
  <2>7. Backed' /\ Monotone
    BY <1>1, <1>2, <2>5 DEF Backed, Monotone, EveryHold, Lost, Broken, Answered
  <2>8. RowInvariant'
    BY <1>1, <2>7 DEF Good, MoneyInvariant, RowInvariant, Lost, Answered, Unresolved
  <2>9. BooksInvariant'
    BY <1>1, <2>4, <2>5 DEF Good, MoneyInvariant, BooksInvariant
  <2>10. job'.lockedBy = Process[d]
    BY <1>1, <2>1 DEF HoldsLease
  <2>11. QED BY <1>1, <1>3, <1>6, <2>1, <2>6, <2>7, <2>8, <2>9, <2>10, FencedStep
<1>9. QED BY <1>7, <1>8 DEF Adjust

\* The settlement: every hold and the job in one transaction.
LEMMA SettlingKeepsMoney ==
    ASSUME Good, NEW d \in Deliveries, worker[d].pc = "commit", CanSettle(d),
           SettleGeneration(d), UNCHANGED <<attempts, outputs, ledger, books, closer>>,
           Goto(d, "verify") \/ Raise(d, SettleError)
    PROVE  MoneyInvariant'
<1>1. worker[d].quota = job.quota /\ Backed /\ Answered /\ HoldsLease(d)
  BY Known DEF Knows, Settling, CanSettle
<1>2. ~Chat => outputs = Expected
  BY <1>1, Known DEF OwnerKnows
<1>3. /\ job'.status = job.status /\ job'.quota = job.quota
      /\ job'.settlement = "SETTLED" /\ job'.lockedBy = Process[d]
      /\ resv' = IF job.quota THEN [s \in Scopes |-> "SETTLED"] ELSE resv
  BY <1>1 DEF SettleGeneration, HoldsLease, Good, TypeOK, JobType
<1>4. job.quota => \A s \in Scopes : resv[s] = "RESERVED"
  BY <1>1 DEF CanSettle, ReservationsSettleable
<1>5. ~job.quota => \A s \in Scopes : resv[s] # "SETTLED"
  BY <1>1 DEF CanSettle, ReservationsSettleable
<1>6. ~Lost /\ ~Lost' /\ job'.status = "RUNNING"
  BY <1>1, <1>3, LeasedIsUnsettled DEF Lost, HoldsLease
<1>7. Backed' /\ Answered' /\ (Broken => Broken')
  BY <1>1, <1>3, <1>4 DEF Backed, Answered, Broken
<1>8. Monotone
  BY <1>3, <1>7 DEF Monotone
<1>9. \A s \in Scopes : (resv'[s] = "SETTLED") <=> job'.quota
  BY <1>3, <1>5
<1>10. RowInvariant'
  BY <1>2, <1>3, <1>6, <1>7, <1>9 DEF RowInvariant, Lost, Open
<1>11. LedgerInvariant' /\ BooksInvariant'
  BY <1>3, <1>6, RunningLedger DEF Closed
<1>12. OnlyMoves(d) /\ (worker'[d].pc = "verify" \/ worker'[d].pc = "catch")
  BY GotoFields, RaiseFields DEF Good
<1>13. DeliveryKnows(d)'
  BY <1>3, <1>7, <1>12 DEF DeliveryKnows, Knows, OwnerKnows, ClaimKnows, Preparing,
                           Calling, Settling, Untried, Open
<1>14. QED BY <1>1, <1>3, <1>8, <1>10, <1>11, <1>12, <1>13, FencedStep

LEMMA CommitKeepsMoney ==
    ASSUME Good, NEW d \in Deliveries
    PROVE  /\ CommitSettlement(d) => MoneyInvariant'
           /\ CommitUnacknowledged(d) => MoneyInvariant'
<1>1. ASSUME CommitUnacknowledged(d) PROVE MoneyInvariant'
  BY <1>1, SettlingKeepsMoney DEF CommitUnacknowledged
<1>2. ASSUME CommitSettlement(d) PROVE MoneyInvariant'
  <2>1. CASE CanSettle(d)
    BY <1>2, <2>1, SettlingKeepsMoney DEF CommitSettlement
  <2>2. CASE ~CanSettle(d)
    <3>1. worker[d].pc = "commit" /\ UNCHANGED <<db, closer>> /\ Backed
      BY <1>2, <2>2, Known DEF CommitSettlement, SettleGeneration, db, Knows
    <3>2. HoldsLease(d) => job.settlement \notin Open
      BY <3>1, Known DEF OwnerKnows, Settling, Open
    <3>3. CASE Raise(d, SettleError)
      BY <3>1, <3>2, <3>3, LocalRaise
    <3>4. CASE job.settlement = "SETTLED" /\ Goto(d, "verify")
      <4>1. OnlyMoves(d) /\ worker'[d].pc = "verify"
        BY <3>4, GotoFields DEF Good
      <4>2. DeliveryKnows(d)'
        BY <3>1, <3>4, <4>1 DEF DeliveryKnows, Knows, OwnerKnows, ClaimKnows, Preparing,
                                Calling, Settling, Untried, db
      <4>3. QED BY <3>1, <4>1, <4>2, LocalMove
    <3>5. QED BY <1>2, <2>2, <3>3, <3>4 DEF CommitSettlement
  <2>3. QED BY <2>1, <2>2
<1>3. QED BY <1>1, <1>2

\* The owner unlocks the row: SUCCEEDED, QUEUED again, or FAILED.
LEMMA OwnerUnlocks ==
    ASSUME Good, NEW d \in Deliveries, HoldsLease(d), NEW x \in {"SUCCEEDED", "QUEUED", "FAILED"},
           job' = [Unlocked(job) EXCEPT !.status = x],
           UNCHANGED <<attempts, outputs, resv, ledger, books>>, OnlyMoves(d),
           worker'[d].pc \in Quiet,
           x = "SUCCEEDED" => "CAPTURE" \in books,
           x = "QUEUED" => (job.settlement \in Open => Unresolved = {}),
           \A c \in Closers : closer'[c] = closer[c] \/ CloserKnows(c)'
    PROVE  MoneyInvariant'
<1>1. /\ job'.status = x /\ job'.quota = job.quota
      /\ job'.settlement = job.settlement /\ job'.lockedBy = None
  BY DEF Unlocked, Good, TypeOK, JobType
<1>2. ~Lost /\ job.settlement \notin Closed /\ ledger.refund = 0 /\ ledger.enqueue = 0
  BY LeasedIsUnsettled, RunningLedger
<1>3. Backed => Backed'
  BY <1>1, <1>2 DEF Backed, EveryHold
<1>4. Monotone
  BY <1>1, <1>3 DEF Monotone, Broken, Answered
<1>5. RowInvariant'
  BY <1>1, <1>2, <1>3 DEF Good, MoneyInvariant, RowInvariant, Unresolved, Answered
<1>6. LedgerInvariant'
  BY <1>1, <1>2 DEF Good, MoneyInvariant, LedgerInvariant, Given, Taken
<1>7. BooksInvariant'
  BY <1>1 DEF Good, MoneyInvariant, BooksInvariant
<1>8. QED BY <1>1, <1>4, <1>5, <1>6, <1>7, QuietKnows, FencedStep

LEMMA EndKeepsMoney ==
    ASSUME Good, NEW d \in Deliveries
    PROVE  /\ Finish(d) => MoneyInvariant'
           /\ ReleaseForRetry(d) => MoneyInvariant'
           /\ FailJob(d) => MoneyInvariant'
<1>1. ASSUME Finish(d) PROVE MoneyInvariant'
  <2>1. "CAPTURE" \in books /\ UNCHANGED <<attempts, outputs, resv, ledger, books, closer>>
    BY <1>1, Known DEF Finish, Knows
  <2>2. CASE Raise(d, "leaselost") /\ UNCHANGED job
    BY <2>1, <2>2, LocalRaise DEF db
  <2>3. CASE HoldsLease(d) /\ job' = [Unlocked(job) EXCEPT !.status = "SUCCEEDED"] /\ End(d, "returned")
    BY <2>1, <2>3, EndFields, OwnerUnlocks DEF Good, Quiet
  <2>4. QED BY <1>1, <2>2, <2>3 DEF Finish
<1>2. ASSUME ReleaseForRetry(d) PROVE MoneyInvariant'
  <2>1. /\ worker[d].pc = "release"
        /\ OnlyMoves(d) /\ worker'[d].pc \in Quiet
        /\ UNCHANGED <<attempts, outputs, resv, ledger, books, closer>>
    BY <1>2, EndFields DEF ReleaseForRetry, Good, Quiet
  <2>2. CASE HoldsLease(d)
    <3>1. job.settlement \in Open => Unresolved = {}
      BY <2>1, <2>2, Known DEF OwnerKnows
    <3>2. job' = [Unlocked(job) EXCEPT !.status = "QUEUED"]
      BY <1>2, <2>2 DEF ReleaseForRetry
    <3>3. QED BY <2>1, <2>2, <3>1, <3>2, OwnerUnlocks
  <2>3. CASE ~HoldsLease(d)
    <3>1. job' = job
      BY <1>2, <2>3 DEF ReleaseForRetry
    <3>2. QED BY <2>1, <3>1, LocalQuiet DEF db
  <2>4. QED BY <2>2, <2>3
<1>3. ASSUME FailJob(d) PROVE MoneyInvariant'
  <2>1. UNCHANGED <<attempts, outputs, resv, ledger, books>>
    BY <1>3 DEF FailJob
  <2> DEFINE after == IF worker[d].pc = "finalize" THEN "returned" ELSE "threw"
  <2>2. CASE End(d, after) /\ UNCHANGED <<job, closer>>
    <3>1. OnlyMoves(d) /\ worker'[d].pc \in Quiet
      BY <2>2, EndFields DEF Good, Quiet
    <3>2. QED BY <2>1, <2>2, <3>1, LocalQuiet DEF db
  <2>3. CASE /\ HoldsLease(d)
             /\ job' = [Unlocked(job) EXCEPT !.status = "FAILED"]
             /\ worker' = [worker EXCEPT ![d] = [Idle EXCEPT !.pc = "closing", !.after = after]]
             /\ BeginClose(d, "FAILED")
    <3>1. OnlyMoves(d) /\ worker'[d].pc \in Quiet
      BY <2>3 DEF OnlyMoves, Idle, Quiet, Good, TypeOK
    <3>2. /\ \A c \in Closers : c # d => closer'[c] = closer[c]
          /\ closer'[d].pc = "publish" /\ closer'[d].reason = "FAILED"
      BY <2>3 DEF BeginClose, NoClose, Closers, Good, TypeOK
    <3>3. job'.status = "FAILED"
      BY <2>3 DEF Unlocked, Good, TypeOK, JobType
    <3>4. CloserKnows(d)'
      BY <3>2, <3>3 DEF CloserKnows
    <3>5. QED BY <2>1, <2>3, <3>1, <3>2, <3>4, OwnerUnlocks
  <2>4. QED BY <1>3, <2>2, <2>3 DEF FailJob
<1>4. QED BY <1>1, <1>2, <1>3

\* A hold of a job that is lost, or short of another hold, is released.
LEMMA HoldReleased ==
    ASSUME Good, NEW s \in Scopes, ReleaseReservation(s), Broken \/ Lost,
           UNCHANGED <<job, attempts, outputs, ledger, books>>
    PROVE  Monotone /\ RowInvariant' /\ LedgerInvariant' /\ BooksInvariant'
<1>1. \A t \in Scopes : \/ resv'[t] = resv[t]
                        \/ resv[t] = "RESERVED" /\ resv'[t] = "RELEASED"
  BY DEF ReleaseReservation, Good, TypeOK
<1>2. Backed => Backed'
  BY DEF Backed, EveryHold, Broken, Lost
<1>3. Broken => Broken'
  BY <1>1 DEF Broken
<1>4. Monotone
  BY <1>2, <1>3 DEF Monotone, Answered
<1>5. RowInvariant'
  BY <1>1, <1>2 DEF Good, MoneyInvariant, RowInvariant, Lost, Unresolved, Answered
<1>6. LedgerInvariant'
  BY <1>1 DEF Good, MoneyInvariant, LedgerInvariant, Lost, Given, Taken
<1>7. BooksInvariant'
  BY DEF Good, MoneyInvariant, BooksInvariant
<1>8. QED BY <1>4, <1>5, <1>6, <1>7

\* What else a delivery knows is about the row and the attempts.
LEMMA RowKnowledgeStays ==
    ASSUME Good, Monotone, UNCHANGED <<job, attempts, outputs>>,
           NEW d \in Deliveries, worker'[d] = worker[d]
    PROVE  DeliveryKnows(d)'
<1>1. Knows(d)'
  BY Known, KnowledgeStays
<1>2. (HoldsLease(d) <=> HoldsLease(d)') /\ (OwnerKnows(d) <=> OwnerKnows(d)')
  BY DEF HoldsLease, OwnerKnows, Unresolved
<1>3. ClaimKnows(d)'
  BY Known DEF ClaimKnows, Owns, Unresolved
<1>4. QED BY <1>1, <1>2, <1>3, Known DEF DeliveryKnows

\* A closer that stays, while the ledger changes only if credits were owed.
LEMMA CloserKnowledgeStays ==
    ASSUME Good, NEW c \in Closers, closer'[c] = closer[c], job'.status = job.status,
           job.settlement \notin Open => job'.settlement \notin Open,
           Taken = Given => ledger' = ledger, books \subseteq books'
    PROVE  CloserKnows(c)'
<1>1. CloserKnows(c)
  BY DEF Good, MoneyInvariant, CloserInvariant
<1>2. QED BY <1>1 DEF CloserKnows, Taken, Given

LEMMA UnfencedKeepsMoney ==
    ASSUME Good, NEW d \in Deliveries
    PROVE  /\ Unreserve(d) => MoneyInvariant'
           /\ Book(d) => MoneyInvariant'
<1>1. ASSUME Unreserve(d) PROVE MoneyInvariant'
  <2>1. worker[d].pc = "unreserve" /\ UNCHANGED <<job, attempts, outputs, ledger, books, closer>>
    BY <1>1 DEF Unreserve
  <2>2. worker[d].quota = job.quota /\ job.quota /\ Broken
    BY <2>1, Known DEF Knows, Preparing
  <2>3. CASE Raise(d, "terminal") /\ UNCHANGED resv
    BY <2>1, <2>3, LocalRaise DEF db
  <2>4. ASSUME NEW s \in worker[d].refs, ReleaseReservation(s) \/ UNCHANGED resv,
               worker' = [worker EXCEPT ![d].refs = @ \ {s}]
        PROVE  MoneyInvariant'
    <3>1. s \in Scopes
      BY DEF Good, TypeOK, WorkerType
    <3>2. /\ OnlyMoves(d)
          /\ worker'[d].pc = "unreserve"
          /\ worker'[d].version = worker[d].version
          /\ worker'[d].quota = worker[d].quota
      BY <2>1, <2>4 DEF OnlyMoves, Good, TypeOK, WorkerType
    <3>3. ASSUME Broken' PROVE DeliveryKnows(d)'
      <4>1. HoldsLease(d) => OwnerKnows(d)
        BY Known
      <4>2. HoldsLease(d)' => OwnerKnows(d)'
        BY <2>1, <3>2, <4>1 DEF HoldsLease, OwnerKnows, Unresolved, Preparing, Calling, Settling,
                                Untried
      <4>3. QED BY <2>1, <2>2, <3>2, <3>3, <4>2 DEF DeliveryKnows, Knows, ClaimKnows, Preparing,
                                              Calling, Settling
    <3>4. CASE UNCHANGED resv
      <4>1. Broken'
        BY <2>2, <3>4 DEF Broken
      <4>2. QED BY <2>1, <3>2, <3>3, <3>4, <4>1, LocalMove DEF db
    <3>5. CASE ReleaseReservation(s)
      <4>1. Monotone /\ RowInvariant' /\ LedgerInvariant' /\ BooksInvariant'
        BY <2>1, <2>2, <3>1, <3>5, HoldReleased
      <4>2. DeliveryKnows(d)'
        BY <2>2, <3>3, <4>1 DEF Monotone
      <4>3. \A e \in Deliveries : DeliveryKnows(e)'
        BY <2>1, <3>2, <4>1, <4>2, RowKnowledgeStays DEF OnlyMoves
      <4>4. \A c \in Closers : CloserKnows(c)'
        BY <2>1, CloserKnowledgeStays
      <4>5. QED BY <4>1, <4>3, <4>4 DEF MoneyInvariant, DeliveryInvariant, CloserInvariant
    <3>6. QED BY <2>4, <3>4, <3>5
  <2>5. QED BY <1>1, <2>3, <2>4 DEF Unreserve
<1>2. ASSUME Book(d) PROVE MoneyInvariant'
  <2>1. /\ worker[d].pc = "book" /\ books' = books \cup {"CAPTURE"}
        /\ UNCHANGED <<job, attempts, outputs, resv, ledger, closer>>
    BY <1>2 DEF Book
  <2>2. OnlyMoves(d) /\ worker'[d].pc = "finish"
    BY <1>2, GotoFields DEF Book, Good
  <2>3. job.settlement = "SETTLED"
    BY <2>1 DEF Good, LeaseInvariant, VerifiedIsSettled
  <2>4. Monotone
    BY <2>1 DEF Monotone, Backed, EveryHold, Lost, Broken, Answered
  <2>5. RowInvariant' /\ LedgerInvariant'
    BY <2>1 DEF Good, MoneyInvariant, RowInvariant, LedgerInvariant, Backed, EveryHold, Lost, Answered,
                Unresolved, Given, Taken
  <2>6. BooksInvariant'
    BY <2>1, <2>3 DEF Good, MoneyInvariant, BooksInvariant
  <2>7. DeliveryKnows(d)'
    BY <2>1, <2>2 DEF DeliveryKnows, Knows, OwnerKnows, ClaimKnows, Preparing, Calling,
                      Settling, Untried
  <2>8. \A e \in Deliveries : DeliveryKnows(e)'
    BY <2>1, <2>2, <2>4, <2>7, RowKnowledgeStays DEF OnlyMoves
  <2>9. \A c \in Closers : CloserKnows(c)'
    BY <2>1, CloserKnowledgeStays
  <2>10. QED BY <2>5, <2>6, <2>8, <2>9 DEF MoneyInvariant, DeliveryInvariant, CloserInvariant
<1>3. QED BY <1>1, <1>2

-----------------------------------------------------------------------------
(***************************************************************************)
(* Cancellation, recovery and the lease's clock.                           *)
(***************************************************************************)

\* A request or a pass unlocks a job, marking it if a call may be billed.
LEMMA RowTaken ==
    ASSUME Good, job.status \in {"QUEUED", "RUNNING"}, job'.lockedBy = None,
           job'.status \in {"QUEUED", "CANCELLED"}, job'.quota = job.quota,
           job'.settlement = IF job.settlement \in Open /\ MustReconcile THEN "RECONCILING"
                                                                         ELSE job.settlement,
           UNCHANGED <<attempts, outputs, resv, ledger, books, worker>>,
           \A c \in Closers : closer'[c] = closer[c] \/ CloserKnows(c)'
    PROVE  MoneyInvariant'
<1>1. ~Lost /\ job.settlement \notin Closed /\ ledger.refund = 0 /\ ledger.enqueue = 0
  BY RunningLedger DEF Lost, Failed
<1>2. job'.settlement = "SETTLED" <=> job.settlement = "SETTLED"
  BY DEF Open
<1>3. Backed => Backed'
  BY <1>1, <1>2 DEF Backed, EveryHold
<1>4. Monotone
  BY <1>2, <1>3 DEF Monotone, Broken, Answered
<1>5. Unresolved # {} => Backed
  BY DEF Good, MoneyInvariant, RowInvariant
<1>6. RowInvariant'
  <2>1. \A s \in Scopes : (resv'[s] = "SETTLED") <=> (job'.settlement = "SETTLED" /\ job'.quota)
    BY <1>2 DEF Good, MoneyInvariant, RowInvariant
  <2>2. job'.settlement \in {"RESERVED", "SETTLED"} => Backed'
    BY <1>3 DEF Good, MoneyInvariant, RowInvariant
  <2>3. job'.settlement = "RECONCILING" /\ ~Lost' => Backed'
    BY <1>1, <1>3, <1>5 DEF MustReconcile, Good, MoneyInvariant, RowInvariant
  <2>4. Unresolved' = Unresolved
    BY DEF Unresolved
  <2>5. job'.status = "QUEUED" /\ job'.settlement \in Open => Unresolved = {}
    BY DEF MustReconcile, Open
  <2>6. job'.settlement = "SETTLED" => Answered' /\ (~Chat => outputs' = Expected)
    BY <1>2 DEF Good, MoneyInvariant, RowInvariant, Answered
  <2>7. QED BY <1>3, <1>5, <2>1, <2>2, <2>3, <2>4, <2>5, <2>6 DEF RowInvariant
<1>7. LedgerInvariant'
  BY <1>1 DEF Good, MoneyInvariant, LedgerInvariant, Given, Taken, Closed
<1>8. BooksInvariant'
  BY <1>1, <1>2 DEF Good, MoneyInvariant, BooksInvariant, Closed
<1>9. \A e \in Deliveries : job'.lockedBy # Process[e]
  BY ProcessAssumption
<1>10. QED BY <1>1, <1>4, <1>6, <1>7, <1>8, <1>9, OwnerStep

LEMMA EnvironmentKeepsMoney ==
    ASSUME Good
    PROVE  /\ Cancel => MoneyInvariant'
           /\ RecoverStaleLease => MoneyInvariant'
           /\ Expire => MoneyInvariant'
           /\ \A r \in Recoverers : RecoverTerminal(r) => MoneyInvariant'
<1>1. ASSUME Cancel PROVE MoneyInvariant'
  <2>1. /\ job'.lockedBy = None /\ job'.status = "CANCELLED" /\ job'.quota = job.quota
        /\ job'.settlement = IF job.settlement \in Open /\ MustReconcile THEN "RECONCILING"
                                                                         ELSE job.settlement
    BY <1>1 DEF Cancel, Unlocked, Good, TypeOK, JobType
  <2>2. /\ \A c \in Closers : c # Api => closer'[c] = closer[c]
        /\ closer'[Api].pc = "publish" /\ closer'[Api].reason = "CANCELLED"
    BY <1>1 DEF Cancel, BeginClose, NoClose, Closers, Handlers, Good, TypeOK
  <2>3. CloserKnows(Api)'
    BY <2>1, <2>2 DEF CloserKnows
  <2>4. QED BY <1>1, <2>1, <2>2, <2>3, RowTaken DEF Cancel
<1>2. ASSUME RecoverStaleLease PROVE MoneyInvariant'
  <2>1. /\ job'.lockedBy = None /\ job'.status = "QUEUED" /\ job'.quota = job.quota
        /\ job'.settlement = IF job.settlement \in Open /\ MustReconcile THEN "RECONCILING"
                                                                         ELSE job.settlement
    BY <1>2 DEF RecoverStaleLease, Unlocked, Good, TypeOK, JobType
  <2>2. QED BY <1>2, <2>1, RowTaken DEF RecoverStaleLease
<1>3. ASSUME Expire PROVE MoneyInvariant'
  <2>1. /\ job'.status = job.status /\ job'.settlement = job.settlement
        /\ job'.quota = job.quota /\ job'.lockedBy = job.lockedBy /\ job'.lease = "expired"
        /\ UNCHANGED <<attempts, outputs, resv, ledger, books, worker, closer>>
    BY <1>3 DEF Expire, Good, TypeOK, JobType
  <2>2. Monotone
    BY <2>1 DEF Monotone, Backed, EveryHold, Lost, Broken, Answered
  <2>3. RowInvariant' /\ LedgerInvariant' /\ BooksInvariant'
    BY <2>1 DEF Good, MoneyInvariant, RowInvariant, LedgerInvariant, BooksInvariant, Backed, EveryHold,
                Lost, Answered, Unresolved, Given, Taken
  <2>4. \A d \in Deliveries : DeliveryKnows(d)'
    BY <2>1, <2>2, Known, KnowledgeStays
       DEF DeliveryKnows, HoldsLease, ClaimKnows, Owns, Unresolved
  <2>5. \A c \in Closers : CloserKnows(c)'
    BY <2>1, CloserKnowledgeStays
  <2>6. QED BY <2>3, <2>4, <2>5 DEF MoneyInvariant, DeliveryInvariant, CloserInvariant
<1>4. ASSUME NEW r \in Recoverers, RecoverTerminal(r) PROVE MoneyInvariant'
  <2>1. job' = job /\ worker' = worker /\ UNCHANGED db
    BY <1>4 DEF RecoverTerminal, db
  <2>2. /\ \A c \in Closers : c # r => closer'[c] = closer[c]
        /\ closer'[r].pc = "publish" /\ closer'[r].reason = job.status
    BY <1>4 DEF RecoverTerminal, BeginClose, NoClose, Closers, Handlers, Good, TypeOK
  <2>3. CloserKnows(r)'
    BY <2>1, <2>2 DEF CloserKnows
  <2>4. QED BY <2>1, <2>2, <2>3, LocalStep DEF Good
<1>5. QED BY <1>1, <1>2, <1>3, <1>4

-----------------------------------------------------------------------------
(***************************************************************************)
(* finalizeTerminal.                                                       *)
(***************************************************************************)
OnlyCloses(c) == \A f \in Closers : f # c => closer'[f] = closer[f]

\* Whoever closes the job finds it lost, so that nobody holds its lease.
LEMMA ClosedIsLost ==
    ASSUME Good, NEW c \in Closers, closer[c].pc # "idle"
    PROVE  /\ Lost /\ job.status = closer[c].reason /\ job.lockedBy = None
           /\ job.settlement # "SETTLED"
<1>1. job.status = closer[c].reason /\ Lost
  BY DEF Good, TypeOK, CloserType, Lost, MoneyInvariant, CloserInvariant, CloserKnows
<1>2. QED BY <1>1 DEF Good, LeaseInvariant, LockedIsRunning, OutcomeMatchesMoney, Lost, Failed

\* A step of such a closer.
LEMMA LostStep ==
    ASSUME Good, NEW c \in Closers, closer[c].pc # "idle", Monotone,
           job'.status = job.status, job'.lockedBy = job.lockedBy,
           RowInvariant', LedgerInvariant', BooksInvariant',
           job.settlement \notin Open => job'.settlement \notin Open,
           Taken = Given => ledger' = ledger,
           \A e \in Deliveries : worker'[e] = worker[e] \/ worker'[e].pc \in {"returned", "threw"},
           OnlyCloses(c), CloserKnows(c)'
    PROVE  MoneyInvariant'
<1>1. \A e \in Deliveries : job'.lockedBy # Process[e]
  BY ClosedIsLost, ProcessAssumption
<1>2. DeliveryInvariant'
  BY <1>1, Known, OthersKnow, QuietKnows DEF DeliveryInvariant, Quiet
<1>3. CloserInvariant'
  BY CloserKnowledgeStays DEF CloserInvariant, OnlyCloses, Monotone
<1>4. QED BY <1>2, <1>3 DEF MoneyInvariant

\* A closer that leaves knows only what it must.
LEMMA LeaveKnows ==
    ASSUME Good, NEW c \in Closers, job'.status = closer[c].reason,
           \/ \E s : LeaveClose(c, s)
           \/ \E b \in BOOLEAN : StopClose(c, b)
    PROVE  CloserKnows(c)' /\ OnlyCloses(c)
<1>1. CASE \E b : StopClose(c, b)
  BY <1>1 DEF StopClose, NoClose, CloserKnows, OnlyCloses, Good, TypeOK
<1>2. CASE GotoClose(c, "cleanup")
  <2>1. closer'[c].pc = "cleanup" /\ closer'[c].reason = closer[c].reason /\ OnlyCloses(c)
    BY <1>2 DEF GotoClose, OnlyCloses, Good, TypeOK, CloserType
  <2>2. QED BY <2>1 DEF CloserKnows
<1>3. QED BY <1>1, <1>2 DEF LeaveClose

\* The row of a lost job is marked or closed.
LEMMA LostRow ==
    ASSUME Good, Lost, job'.status = job.status, job'.quota = job.quota,
           job'.settlement = job.settlement \/ job'.settlement \in {"RECONCILING"} \cup Closed,
           UNCHANGED <<attempts, outputs, resv, ledger, books>>
    PROVE  Monotone /\ RowInvariant'
<1>1. job.settlement # "SETTLED" /\ job'.settlement # "SETTLED" /\ Lost'
  BY DEF Good, LeaseInvariant, OutcomeMatchesMoney, Lost, Closed
<1>2. Backed => Backed'
  BY <1>1 DEF Backed
<1>3. Monotone
  BY <1>1, <1>2 DEF Monotone, Broken, Answered
<1>4. /\ job'.settlement \in {"RESERVED", "SETTLED"} => Backed'
      /\ Unresolved' # {} => Backed'
  BY <1>1, <1>2 DEF Good, MoneyInvariant, RowInvariant, Unresolved, Closed
<1>5. \A s \in Scopes : resv'[s] # "SETTLED"
  BY <1>1 DEF Good, MoneyInvariant, RowInvariant
<1>6. job'.status # "QUEUED"
  BY DEF Lost, Failed
<1>7. RowInvariant'
  BY <1>1, <1>4, <1>5, <1>6 DEF RowInvariant
<1>8. QED BY <1>3, <1>7

LEMMA PublishKeepsMoney ==
    ASSUME Good, NEW c \in Closers, Publish(c)
    PROVE  MoneyInvariant'
<1> DEFINE now == IF job.settlement \in Open THEN "RECONCILING" ELSE job.settlement
<1>1. /\ closer[c].pc = "publish"
      /\ UNCHANGED <<attempts, outputs, resv, ledger, books>>
  BY DEF Publish
<1>2. Lost /\ job.status = closer[c].reason /\ job.settlement # "SETTLED"
  BY <1>1, ClosedIsLost
<1>3. /\ job' = [job EXCEPT !.settlement = now]
      /\ closer' = [closer EXCEPT ![c] = [@ EXCEPT !.pc = "inspect", !.seen = now]]
      /\ UNCHANGED worker
  BY <1>2 DEF Publish
<1>4. /\ job'.status = job.status /\ job'.quota = job.quota /\ job'.lockedBy = job.lockedBy
      /\ job'.settlement = now
  BY <1>3 DEF Good, TypeOK, JobType
<1>5. Monotone /\ RowInvariant'
  BY <1>1, <1>2, <1>4, LostRow
<1>6. now = job.settlement \/ (now = "RECONCILING" /\ job.settlement \in Open)
  OBVIOUS
<1>7. LedgerInvariant' /\ BooksInvariant'
  BY <1>1, <1>2, <1>4, <1>6 DEF Good, MoneyInvariant, LedgerInvariant, BooksInvariant, Closed, Open,
                               Lost, Given, Taken
<1>8. closer'[c].pc = "inspect" /\ closer'[c].reason = closer[c].reason /\ OnlyCloses(c)
  BY <1>3 DEF OnlyCloses, Good, TypeOK, CloserType
<1>9. now \notin Open
  BY DEF Open
<1>10. CloserKnows(c)'
  BY <1>2, <1>4, <1>8, <1>9 DEF CloserKnows
<1> HIDE DEF now
<1>11. QED BY <1>1, <1>3, <1>4, <1>5, <1>7, <1>8, <1>9, <1>10, LostStep

LEMMA InspectKeepsMoney ==
    ASSUME Good, NEW c \in Closers, Inspect(c)
    PROVE  MoneyInvariant'
<1>1. /\ closer[c].pc = "inspect"
      /\ UNCHANGED <<job, outputs, resv, ledger, books>>
  BY DEF Inspect
<1>2. Lost /\ job.status = closer[c].reason /\ job.settlement # "SETTLED"
  BY <1>1, ClosedIsLost
<1>3. job.settlement \notin Open
  BY <1>1 DEF Good, MoneyInvariant, CloserInvariant, CloserKnows
<1>4. /\ \A a \in AttemptIds : attempts'[a] = "SUCCEEDED" <=> attempts[a] = "SUCCEEDED"
      /\ Unresolved' \subseteq Unresolved
  <2>1. CASE UNCHANGED attempts
    BY <2>1 DEF Unresolved
  <2>2. CASE attempts' = [a \in AttemptIds |->
                            IF attempts[a] = "RUNNING" THEN "FAILED" ELSE attempts[a]]
    BY <2>2 DEF Unresolved
  <2>3. QED BY <2>1, <2>2 DEF Inspect
<1>5. Monotone
  BY <1>1, <1>4 DEF Monotone, Backed, EveryHold, Lost, Broken, Answered
<1>6. RowInvariant'
  BY <1>1, <1>2, <1>4, <1>5 DEF Good, MoneyInvariant, RowInvariant, Backed, EveryHold, Lost
<1>7. LedgerInvariant' /\ BooksInvariant'
  BY <1>1 DEF Good, MoneyInvariant, LedgerInvariant, BooksInvariant, Lost, Given, Taken
<1>8. CASE LeaveClose(c, job.settlement)
  <2>1. CloserKnows(c)' /\ OnlyCloses(c)
    BY <1>1, <1>2, <1>8, LeaveKnows
  <2>2. \A e \in Deliveries : worker'[e] = worker[e] \/ worker'[e].pc \in {"returned", "threw"}
    BY <1>8, ClosingIsNeutral DEF Good
  <2>3. QED BY <1>1, <1>3, <1>5, <1>6, <1>7, <2>1, <2>2, LostStep
<1>9. CASE /\ closer' = [closer EXCEPT ![c] = [@ EXCEPT !.pc = "refund",
                                                       !.refs = {s \in Scopes : resv[s] = "RESERVED"}]]
           /\ UNCHANGED worker
  <2>1. closer'[c].pc = "refund" /\ closer'[c].reason = closer[c].reason /\ OnlyCloses(c)
    BY <1>9 DEF OnlyCloses, Good, TypeOK, CloserType
  <2>2. CloserKnows(c)'
    BY <1>1, <1>2, <1>3, <2>1 DEF CloserKnows
  <2>3. QED BY <1>1, <1>3, <1>5, <1>6, <1>7, <1>9, <2>1, <2>2, LostStep
<1>10. QED BY <1>8, <1>9 DEF Inspect

LEMMA RefundKeepsMoney ==
    ASSUME Good, NEW c \in Closers, RefundOutstanding(c)
    PROVE  MoneyInvariant'
<1> DEFINE amount == IF ledger.refund > 0 THEN ledger.refund ELSE Outstanding
<1>1. /\ closer[c].pc = "refund"
      /\ ledger' = [ledger EXCEPT !.refund = amount]
      /\ closer' = [closer EXCEPT ![c] = [@ EXCEPT !.pc = IF amount > 0 THEN "record" ELSE "release",
                                                   !.refund = amount > 0]]
      /\ UNCHANGED <<job, attempts, outputs, resv, books, worker>>
  BY DEF RefundOutstanding
<1>2. Lost /\ job.status = closer[c].reason
  BY <1>1, ClosedIsLost
<1>3. job.settlement \notin Open
  BY <1>1 DEF Good, MoneyInvariant, CloserInvariant, CloserKnows
<1>4. ledger \in [spend : Nat, extra : Nat, back : Nat, refund : Nat, enqueue : Nat]
  BY DEF Good, TypeOK
<1>5. /\ Taken \in Nat /\ Given \in Nat /\ Given <= Taken
      /\ ledger.refund > 0 => Taken = Given
  BY <1>4 DEF Good, MoneyInvariant, LedgerInvariant, Taken, Given
<1>6. /\ amount \in Nat
      /\ Taken = Given => amount = ledger.refund
      /\ amount = ledger.refund + (Taken - Given)
  <2>1. CASE ledger.refund > 0
    BY <1>4, <1>5, <2>1
  <2>2. CASE ledger.refund = 0
    BY <1>5, <2>2 DEF Outstanding
  <2>3. QED BY <1>4, <2>1, <2>2
<1> HIDE DEF amount
<1>7. /\ ledger'.spend = ledger.spend /\ ledger'.extra = ledger.extra
      /\ ledger'.back = ledger.back /\ ledger'.enqueue = ledger.enqueue
      /\ ledger'.refund = amount
  BY <1>1, <1>4
<1>8. Taken' = Taken /\ Given' = Taken /\ (Taken = Given => ledger' = ledger)
  <2>1. Taken' = Taken
    BY <1>7 DEF Taken
  <2>2. Given' = Given + (amount - ledger.refund)
    BY <1>4, <1>6, <1>7 DEF Given
  <2>3. Taken = Given => ledger' = ledger
    BY <1>1, <1>4, <1>6
  <2>4. QED BY <1>4, <1>5, <1>6, <2>1, <2>2, <2>3
<1>9. Monotone
  BY <1>1, <1>7 DEF Monotone, Backed, EveryHold, Lost, Broken, Answered
<1>10. RowInvariant'
  <2>1. Backed => Backed'
    BY <1>9 DEF Monotone
  <2>2. QED BY <1>1, <2>1 DEF Good, MoneyInvariant, RowInvariant, Lost, Answered, Unresolved
<1>11. LedgerInvariant'
  <2>1. LedgerInvariant
    BY DEF Good, MoneyInvariant
  <2>2. ledger'.enqueue = 0 /\ Given' <= Taken' /\ Taken' = Given' /\ Lost'
    BY <1>1, <1>2, <1>5, <1>7, <1>8, <2>1 DEF LedgerInvariant, Lost
  <2>3. job'.settlement \in Closed => ledger' = ledger
    BY <1>1, <1>8, <2>1 DEF LedgerInvariant
  <2>4. QED BY <1>1, <2>1, <2>2, <2>3 DEF LedgerInvariant
<1>12. BooksInvariant'
  <2>1. ledger.refund > 0 => ledger'.refund > 0
    BY <1>5, <1>8
  <2>2. QED BY <1>1, <2>1 DEF Good, MoneyInvariant, BooksInvariant
<1>13. /\ closer'[c].pc = (IF amount > 0 THEN "record" ELSE "release")
       /\ closer'[c].reason = closer[c].reason
       /\ closer'[c].refund = (amount > 0)
       /\ OnlyCloses(c)
  BY <1>1 DEF OnlyCloses, Good, TypeOK, CloserType
<1>14. CloserKnows(c)'
  <2>1. Taken' = Given' /\ job'.status = closer'[c].reason /\ job'.settlement \notin Open
    BY <1>1, <1>2, <1>3, <1>8, <1>13
  <2>2. CASE amount > 0
    BY <1>7, <1>13, <2>1, <2>2 DEF CloserKnows
  <2>3. CASE ~(amount > 0)
    BY <1>7, <1>13, <2>1, <2>3 DEF CloserKnows
  <2>4. QED BY <2>2, <2>3
<1>15. QED BY <1>1, <1>3, <1>8, <1>9, <1>10, <1>11, <1>12, <1>13, <1>14, LostStep

LEMMA ReleaseKeepsMoney ==
    ASSUME Good, NEW c \in Closers
    PROVE  /\ RecordRefund(c) => MoneyInvariant'
           /\ ReleaseHold(c) => MoneyInvariant'
<1>1. CloserKnows(c)
  BY DEF Good, MoneyInvariant, CloserInvariant
<1>2. ASSUME RecordRefund(c) PROVE MoneyInvariant'
  <2>1. /\ closer[c].pc = "record" /\ books' = books \cup {"REFUND"}
        /\ UNCHANGED <<job, attempts, outputs, resv, ledger, worker>>
    BY <1>2 DEF RecordRefund
  <2>2. /\ closer'[c].pc = "release" /\ closer'[c].reason = closer[c].reason
        /\ closer'[c].refund = closer[c].refund /\ OnlyCloses(c)
    BY <1>2 DEF RecordRefund, GotoClose, OnlyCloses, Good, TypeOK, CloserType
  <2>3. Monotone
    BY <2>1 DEF Monotone, Backed, EveryHold, Lost, Broken, Answered
  <2>4. RowInvariant' /\ LedgerInvariant'
    BY <2>1 DEF Good, MoneyInvariant, RowInvariant, LedgerInvariant, Backed, EveryHold, Lost, Answered,
                Unresolved, Given, Taken
  <2>5. ledger.refund > 0
    BY <1>1, <2>1 DEF CloserKnows
  <2>6. BooksInvariant'
    BY <2>1, <2>5 DEF Good, MoneyInvariant, BooksInvariant
  <2>7. CloserKnows(c)'
    BY <1>1, <2>1, <2>2 DEF CloserKnows, Given, Taken
  <2>8. QED BY <2>1, <2>2, <2>3, <2>4, <2>6, <2>7, LostStep
<1>3. ASSUME ReleaseHold(c) PROVE MoneyInvariant'
  <2>1. closer[c].pc = "release" /\ UNCHANGED <<job, attempts, outputs, ledger, books, worker>>
    BY <1>3 DEF ReleaseHold
  <2>2. Lost
    BY <2>1, ClosedIsLost
  <2>3. ASSUME OnlyCloses(c), closer'[c].pc \in {"release", "close"},
               closer'[c].reason = closer[c].reason, closer'[c].refund = closer[c].refund,
               Monotone, RowInvariant', LedgerInvariant', BooksInvariant'
        PROVE  MoneyInvariant'
    <3>1. CloserKnows(c)'
      BY <1>1, <2>1, <2>3 DEF CloserKnows, Given, Taken
    <3>2. QED BY <2>1, <2>3, <3>1, LostStep
  <2>4. ASSUME NEW s \in closer[c].refs, ReleaseReservation(s),
               closer' = [closer EXCEPT ![c].refs = @ \ {s}]
        PROVE  MoneyInvariant'
    <3>1. s \in Scopes
      BY DEF Good, TypeOK, CloserType
    <3>2. Monotone /\ RowInvariant' /\ LedgerInvariant' /\ BooksInvariant'
      BY <2>1, <2>2, <2>4, <3>1, HoldReleased
    <3>3. /\ OnlyCloses(c) /\ closer'[c].pc = "release"
          /\ closer'[c].reason = closer[c].reason /\ closer'[c].refund = closer[c].refund
      BY <2>1, <2>4 DEF OnlyCloses, Good, TypeOK, CloserType
    <3>4. QED BY <2>3, <3>2, <3>3
  <2>5. CASE GotoClose(c, "close") /\ UNCHANGED resv
    <3>1. /\ OnlyCloses(c) /\ closer'[c].pc = "close"
          /\ closer'[c].reason = closer[c].reason /\ closer'[c].refund = closer[c].refund
      BY <2>5 DEF GotoClose, OnlyCloses, Good, TypeOK, CloserType
    <3>2. RowInvariant' /\ LedgerInvariant' /\ BooksInvariant'
      BY <2>1, <2>5, RowsStay DEF db, Good
    <3>3. Monotone
      BY <2>1, <2>5 DEF Monotone, Backed, EveryHold, Lost, Broken, Answered
    <3>4. QED BY <2>3, <3>1, <3>2, <3>3
  <2>6. QED BY <1>3, <2>4, <2>5 DEF ReleaseHold
<1>4. QED BY <1>2, <1>3

\* The last statement, and a closing that ends before it.
LEMMA ClosingKeepsMoney ==
    ASSUME Good, NEW c \in Closers
    PROVE  /\ CloseSettlement(c) => MoneyInvariant'
           /\ CleanTerminal(c) => MoneyInvariant'
           /\ CloseFails(c) => MoneyInvariant'
<1>1. CloserKnows(c)
  BY DEF Good, MoneyInvariant, CloserInvariant
<1>2. ASSUME CloseSettlement(c) PROVE MoneyInvariant'
  <2>1. PICK now : /\ job' = [job EXCEPT !.settlement = now]
                   /\ LeaveClose(c, now)
                   /\ \/ now = job.settlement
                      \/ /\ now = IF closer[c].refund THEN "REFUNDED" ELSE "RELEASED"
                         /\ \A s \in Scopes : resv[s] \notin {"RESERVED", "SETTLED"}
    BY <1>2 DEF CloseSettlement
  <2>2. closer[c].pc = "close" /\ UNCHANGED <<attempts, outputs, resv, ledger, books>>
    BY <1>2 DEF CloseSettlement
  <2>3. Lost /\ job.status = closer[c].reason
    BY <2>2, ClosedIsLost
  <2>4. /\ job'.status = job.status /\ job'.quota = job.quota /\ job'.lockedBy = job.lockedBy
        /\ job'.settlement = now
    BY <2>1 DEF Good, TypeOK, JobType
  <2>5. Monotone /\ RowInvariant'
    BY <2>1, <2>2, <2>3, <2>4, LostRow DEF Closed
  <2>6. CASE now = job.settlement
    <3>1. job' = job
      BY <2>1, <2>6 DEF Good, TypeOK, JobType
    <3>2. LedgerInvariant' /\ BooksInvariant'
      BY <2>2, <3>1 DEF Good, MoneyInvariant, LedgerInvariant, BooksInvariant, Lost, Given, Taken
    <3>3. CloserKnows(c)' /\ OnlyCloses(c)
      BY <2>1, <2>3, <2>4, LeaveKnows
    <3>4. \A e \in Deliveries : worker'[e] = worker[e] \/ worker'[e].pc \in {"returned", "threw"}
      BY <2>1, ClosingIsNeutral DEF Good
    <3>5. QED BY <2>2, <2>4, <2>5, <2>6, <3>2, <3>3, <3>4, LostStep
  <2>7. CASE /\ now = IF closer[c].refund THEN "REFUNDED" ELSE "RELEASED"
             /\ \A s \in Scopes : resv[s] # "RESERVED"
    <3>1. /\ Taken = Given /\ (closer[c].refund <=> ledger.refund > 0)
          /\ closer[c].refund => "REFUND" \in books
          /\ job.settlement \notin Open
      BY <1>1, <2>2 DEF CloserKnows
    <3>2. LedgerInvariant'
      BY <2>2, <2>3, <2>4, <2>7, <3>1 DEF Good, MoneyInvariant, LedgerInvariant, Lost, Given, Taken
    <3>3. job.settlement # "SETTLED" /\ now \notin Open
      BY <2>2, <2>7, ClosedIsLost DEF Open
    <3>4. BooksInvariant'
      BY <2>2, <2>3, <2>4, <2>7, <3>1, <3>3 DEF Good, MoneyInvariant, BooksInvariant, Lost, Failed
    <3>5. CloserKnows(c)' /\ OnlyCloses(c)
      BY <2>1, <2>3, <2>4, LeaveKnows
    <3>6. \A e \in Deliveries : worker'[e] = worker[e] \/ worker'[e].pc \in {"returned", "threw"}
      BY <2>1, ClosingIsNeutral DEF Good
    <3>7. QED BY <2>2, <2>4, <2>5, <3>2, <3>3, <3>4, <3>5, <3>6, LostStep
  <2>8. QED BY <2>1, <2>6, <2>7
<1>3. ASSUME CleanTerminal(c) \/ CloseFails(c) PROVE MoneyInvariant'
  <2>1. /\ closer[c].pc # "idle"
        /\ UNCHANGED <<job, attempts, resv, ledger, books>>
        /\ \E b \in BOOLEAN : StopClose(c, b)
    BY <1>3 DEF CleanTerminal, CloseFails, db
  <2>2. job.status = closer[c].reason /\ job.settlement # "SETTLED"
    BY <2>1, ClosedIsLost
  <2>3. CloserKnows(c)' /\ OnlyCloses(c)
    BY <2>1, <2>2, LeaveKnows
  <2>4. \A e \in Deliveries : worker'[e] = worker[e] \/ worker'[e].pc \in {"returned", "threw"}
    BY <2>1, ClosingIsNeutral DEF Good
  <2>5. Monotone
    BY <2>1 DEF Monotone, Backed, EveryHold, Lost, Broken, Answered
  <2>6. RowInvariant'
    BY <2>1, <2>2 DEF Good, MoneyInvariant, RowInvariant, Backed, EveryHold, Lost, Answered, Unresolved
  <2>7. LedgerInvariant' /\ BooksInvariant'
    BY <2>1 DEF Good, MoneyInvariant, LedgerInvariant, BooksInvariant, Lost, Given, Taken
  <2>8. QED BY <2>1, <2>3, <2>4, <2>5, <2>6, <2>7, LostStep
<1>4. QED BY <1>2, <1>3

-----------------------------------------------------------------------------
(***************************************************************************)
(* The invariant holds, and with it the properties.                        *)
(***************************************************************************)
LEMMA MoneyInit == Init => MoneyInvariant
<1> SUFFICES ASSUME Init PROVE MoneyInvariant
  OBVIOUS
<1>1. /\ job.status = "QUEUED" /\ job.lockedBy = None /\ job.settlement \in {"PENDING", "RESERVED"}
      /\ books = {} /\ Unresolved = {}
  BY DEF Init, InitMoney, InitQuota, InitCredits, NewJob, Unresolved
<1>2. \A d \in Deliveries : worker[d].pc = "idle"
  BY DEF Init, Idle
<1>3. \A c \in Closers : closer[c].pc = "idle"
  BY DEF Init, NoClose
<1>4. /\ \A s \in Scopes : resv[s] # "SETTLED"
      /\ job.settlement = "RESERVED" => Backed
  BY DEF Init, InitMoney, InitQuota, InitCredits, NewJob, NoLedger, Backed, EveryHold
<1>5. /\ ledger.spend \in Nat /\ ledger.extra = 0
      /\ ledger.back = 0 /\ ledger.refund = 0 /\ ledger.enqueue = 0
  <2>1. ledger = NoLedger \/ \E n \in {0, Cost} : ledger = [NoLedger EXCEPT !.spend = n]
    BY DEF Init, InitMoney, InitQuota, InitCredits
  <2>2. 0 \in Nat /\ Cost \in Nat
    BY BoundAssumption
  <2>3. ASSUME NEW n \in {0, Cost}, ledger = [NoLedger EXCEPT !.spend = n]
        PROVE  /\ ledger.spend \in Nat /\ ledger.extra = 0
               /\ ledger.back = 0 /\ ledger.refund = 0 /\ ledger.enqueue = 0
    BY <2>2, <2>3 DEF NoLedger
  <2>4. CASE ledger = NoLedger
    BY <2>4 DEF NoLedger
  <2>5. QED BY <2>1, <2>3, <2>4
<1>6. RowInvariant
  BY <1>1, <1>4 DEF RowInvariant
<1>7. LedgerInvariant
  BY <1>1, <1>5 DEF LedgerInvariant, Given, Taken, Closed
<1>8. BooksInvariant
  BY <1>1 DEF BooksInvariant
<1>9. DeliveryInvariant
  BY <1>2 DEF DeliveryInvariant, DeliveryKnows, Knows, OwnerKnows, ClaimKnows, Preparing, Calling,
              Settling, Untried
<1>10. CloserInvariant
  BY <1>3 DEF CloserInvariant, CloserKnows
<1>11. QED BY <1>6, <1>7, <1>8, <1>9, <1>10 DEF MoneyInvariant

LEMMA MoneyStep == Good /\ [Next]_vars => MoneyInvariant'
<1> SUFFICES ASSUME Good, [Next]_vars PROVE MoneyInvariant'
  OBVIOUS
<1>1. ASSUME NEW d \in Deliveries, Claim(d) \/ ClaimLost(d) \/ Rest(d) \/ Work(d)
      PROVE  MoneyInvariant'
  <2>1. CASE RunnerStep(d)
    BY <2>1, CallKeepsMoney, AuditKeepsMoney, MarksKeepMoney, AdjustKeepsMoney DEF RunnerStep
  <2>2. CASE SettleStep(d)
    BY <2>2, MarksKeepMoney, CommitKeepsMoney, CatchKeepsMoney, UnfencedKeepsMoney, EndKeepsMoney
       DEF SettleStep
  <2>3. CASE ErrorStep(d)
    BY <2>3, CatchKeepsMoney, EndKeepsMoney, MarksKeepMoney, FailuresKeepMoney DEF ErrorStep
  <2>4. QED BY <1>1, <2>1, <2>2, <2>3, ClaimKeepsMoney, ReadKeepsMoney, ReserveKeepsMoney,
               MarksKeepMoney, UnfencedKeepsMoney, FailuresKeepMoney DEF Work
<1>2. ASSUME NEW c \in Closers, CloseStep(c) \/ CloseFails(c) PROVE MoneyInvariant'
  BY <1>2, PublishKeepsMoney, InspectKeepsMoney, RefundKeepsMoney, ReleaseKeepsMoney,
     ClosingKeepsMoney DEF CloseStep
<1>3. ASSUME Environment PROVE MoneyInvariant'
  BY <1>2, <1>3, EnvironmentKeepsMoney DEF Environment
<1>4. CASE UNCHANGED vars
  BY <1>4, LocalStep DEF vars, db, Good
<1>5. QED BY <1>1, <1>3, <1>4 DEF Next

LEMMA GoodInit ==
    ASSUME OwnProcesses
    PROVE  Init => Good
<1>1. Init => AtMostOne
  BY DEF Init, AtMostOne, Unresolved
<1>2. QED BY <1>1, TypeInit, InvariantInit, MoneyInit DEF Good

LEMMA GoodStep == Good /\ [Next]_vars => Good'
<1> SUFFICES ASSUME Good, [Next]_vars PROVE Good'
  OBVIOUS
<1>1. OwnProcesses /\ TypeOK /\ LeaseInvariant /\ AtMostOne
  BY DEF Good
<1>2. TypeOK' /\ LeaseInvariant' /\ AtMostOne'
  BY <1>1, TypeStep, InvariantStep, AttemptStep
<1>3. OwnProcesses'
  BY <1>1 DEF OwnProcesses
<1>4. QED BY <1>2, <1>3, MoneyStep DEF Good

\* The whole invariant, from which the theorems follow.
LEMMA AlwaysGood ==
    ASSUME OwnProcesses
    PROVE  Spec => []Good
BY GoodInit, GoodStep, PTL DEF Spec

\* With every delivery on a process of its own, the charge and the holds of a
\* job follow its settlement, whatever workers, cancellation, recovery and
\* repeated finalizeTerminal do: a settled job keeps its charge and has its
\* holds settled, a closed one has no hold and owes nothing.
THEOREM MoneyIsWholeCorrect ==
    ASSUME OwnProcesses
    PROVE  Spec => []MoneyIsWhole
<1>1. ASSUME Good PROVE MoneyIsWhole
  <2>1. TypeOK /\ LeaseInvariant /\ RowInvariant /\ LedgerInvariant
    BY <1>1 DEF Good, MoneyInvariant
  <2>2. job.settlement = "SETTLED" => ledger.refund = 0
    BY <2>1 DEF LeaseInvariant, OutcomeMatchesMoney, LedgerInvariant, Lost, TypeOK
  <2>3. Taken = Given => Outstanding = 0
    <3>1. Taken \in Nat
      BY <2>1 DEF TypeOK, Taken
    <3>2. QED BY <3>1 DEF Outstanding
  <2>4. QED BY <2>1, <2>2, <2>3 DEF MoneyIsWhole, RowInvariant, LedgerInvariant
<1>2. QED BY <1>1, AlwaysGood, PTL

\* However often refundOutstandingGeneration runs, and whoever runs it, the
\* user never gets back more than the job took.
THEOREM NeverOverRefundedCorrect ==
    ASSUME OwnProcesses
    PROVE  Spec => []NeverOverRefunded
<1>1. Good => NeverOverRefunded
  BY DEF Good, MoneyInvariant, LedgerInvariant, NeverOverRefunded
<1>2. QED BY <1>1, AlwaysGood, PTL

\* A job that releaseForRetry or the recovery pass put back into the queue,
\* and that may still call a Provider, has no attempt that may be billed.
THEOREM RequeuedIsReplayableCorrect ==
    ASSUME OwnProcesses
    PROVE  Spec => []RequeuedIsReplayable
<1>1. Good => RequeuedIsReplayable
  BY DEF Good, MoneyInvariant, RowInvariant, RequeuedIsReplayable
<1>2. QED BY <1>1, AlwaysGood, PTL

\* A job that was charged was answered and has all its outputs, although
\* retries, failovers and the unfenced outputs.cleanup delete outputs.
THEOREM ChargedIsDeliveredCorrect ==
    ASSUME OwnProcesses
    PROVE  Spec => []ChargedIsDelivered
<1>1. Good => ChargedIsDelivered
  BY DEF Good, MoneyInvariant, RowInvariant, Answered, ChargedIsDelivered
<1>2. QED BY <1>1, AlwaysGood, PTL

\* The BillingTransactions tell what happened: no CAPTURE without the
\* settlement, no success without its CAPTURE, no REFUND row without the
\* refund, no REFUNDED job without its row.
THEOREM BooksMatchMoneyCorrect ==
    ASSUME OwnProcesses
    PROVE  Spec => []BooksMatchMoney
<1>1. Good => BooksMatchMoney
  BY DEF Good, MoneyInvariant, BooksInvariant, BooksMatchMoney
<1>2. QED BY <1>1, AlwaysGood, PTL

\* Only StartAttempt starts a call, as the owner of a RESERVED job.
PaidFor(a) ==
    attempts[a] = "none" /\ attempts'[a] = "RUNNING" =>
        /\ job.settlement \in Open
        /\ IF job.quota THEN \A s \in Scopes : resv[s] = "RESERVED" ELSE ledger.spend = Cost
        /\ ledger.refund = 0

LEMMA StartIsPaidFor ==
    ASSUME Good, NEW d \in Deliveries, StartAttempt(d), NEW a \in AttemptIds
    PROVE  PaidFor(a)
<1>1. CASE UNCHANGED attempts
  BY <1>1 DEF PaidFor
<1>2. CASE HoldsLease(d)
  <2>1. worker[d].pc = "start"
    BY DEF StartAttempt
  <2>2. job.settlement = "RESERVED" /\ Backed /\ ~Lost
    BY <1>2, <2>1, Known, LeasedIsUnsettled DEF Knows, OwnerKnows, Calling
  <2>3. ledger.refund = 0
    BY <2>2, RunningLedger
  <2>4. QED BY <2>2, <2>3 DEF PaidFor, Backed, EveryHold, Open
<1>3. QED BY <1>1, <1>2 DEF StartAttempt

LEMMA OthersStartNothing ==
    ASSUME Good, [Next]_vars, NEW a \in AttemptIds, attempts[a] = "none", attempts'[a] = "RUNNING"
    PROVE  \E d \in Deliveries : StartAttempt(d)
<1>1. attempts' # attempts
  OBVIOUS
<1>2. ASSUME NEW d \in Deliveries, FailAttempt(d) \/ SucceedAttempt(d) PROVE FALSE
  BY <1>1, <1>2 DEF FailAttempt, SucceedAttempt, Good, TypeOK
<1>3. ASSUME NEW c \in Closers, Inspect(c) PROVE FALSE
  BY <1>1, <1>3 DEF Inspect
<1>4. ASSUME NEW d \in Deliveries, Claim(d) \/ ClaimLost(d) \/ Rest(d) \/ Work(d)
      PROVE  StartAttempt(d)
  <2>1. CASE \/ Claim(d) \/ ClaimLost(d) \/ Rest(d) \/ ReadForeign(d) \/ ReadOwned(d)
             \/ ReserveTooEarly(d) \/ ReserveWithoutQuota(d) \/ ReserveFromTable(d)
             \/ Adopt(d) \/ Unreserve(d)
    BY <1>1, <2>1 DEF Claim, ClaimLost, Rest, ReadForeign, ReadOwned, ReserveTooEarly,
                      ReserveWithoutQuota, ReserveFromTable, Adopt, Unreserve, db
  <2>2. CASE RunnerStep(d)
    BY <1>1, <1>2, <2>2
       DEF RunnerStep, CleanOutputs, NoCandidate, ProviderRefuses, StreamBreaks, ChatAnswers,
           StoreOutput, UndoOutputs, MarkReconciling, Adjust, db
  <2>3. CASE SettleStep(d)
    BY <1>1, <2>3 DEF SettleStep, SettleNonChat, CommitSettlement, CommitUnacknowledged,
                      Verify, Book, Finish, db
  <2>4. CASE ErrorStep(d) \/ Die(d)
    BY <1>1, <2>4 DEF ErrorStep, CatchForeign, CatchCancelled, CatchOwned, ReleaseForRetry,
                      Remark, FailJob, DatabaseFails, Die, db
  <2>5. QED BY <1>4, <2>1, <2>2, <2>3, <2>4 DEF Work
<1>5. ASSUME Environment PROVE FALSE
  BY <1>1, <1>3, <1>5
     DEF Environment, Cancel, RecoverStaleLease, Expire, RecoverTerminal, CloseStep, CloseFails,
         Publish, RefundOutstanding, RecordRefund, ReleaseHold, CloseSettlement, CleanTerminal, db
<1>6. CASE UNCHANGED vars
  BY <1>1, <1>6 DEF vars
<1>7. QED BY <1>4, <1>5, <1>6 DEF Next

\* No Provider is called for a job whose money is not held in full, or whose
\* earlier answer waits for its reconciliation.
THEOREM CallsArePaidForCorrect ==
    ASSUME OwnProcesses
    PROVE  Spec => CallsArePaidFor
<1>1. Good /\ [Next]_vars =>
        [\A a \in AttemptIds : attempts[a] = "none" /\ attempts'[a] = "RUNNING" =>
          /\ job.settlement \in Open
          /\ IF job.quota THEN \A s \in Scopes : resv[s] = "RESERVED" ELSE ledger.spend = Cost
          /\ ledger.refund = 0]_vars
  BY StartIsPaidFor, OthersStartNothing DEF PaidFor
<1>2. QED BY <1>1, AlwaysGood, PTL DEF Spec, CallsArePaidFor

-----------------------------------------------------------------------------
(***************************************************************************)
(* The job implements SettlementContract: every step is one of its steps   *)
(* or leaves its variables alone.                                          *)
(***************************************************************************)
Status == IF job.status \in Terminal THEN job.status ELSE "active"
Held   == {s \in Scopes : resv[s] = "RESERVED"}
Allowed == Contract!Next \/ UNCHANGED Contract!contractVars

\* What the contract sees of the job.
LEMMA Seen ==
    ASSUME Good
    PROVE  /\ Contract!Active <=> job.status \in {"QUEUED", "RUNNING"}
           /\ Contract!Lost <=> Lost
           /\ Contract!Payable <=> job.settlement \in Open
           /\ ~Lost /\ job.settlement # "SETTLED" =>
                 /\ Contract!Active
                 /\ job.settlement \in Open \cup {"RECONCILING"}
           /\ Lost => job.settlement # "SETTLED"
           /\ Taken \in Nat /\ Given \in Nat /\ Given <= Taken
           /\ Outstanding = Taken - Given /\ Outstanding \in Nat
<1>1. TypeOK /\ LeaseInvariant /\ LedgerInvariant
  BY DEF Good, MoneyInvariant
<1>2. Contract!Active <=> job.status \in {"QUEUED", "RUNNING"}
  BY <1>1 DEF Contract!Active, TypeOK, JobType, Terminal, Failed
<1>3. Contract!Lost <=> Lost
  BY <1>1 DEF Contract!Lost, Lost, Terminal, Failed
<1>4. Contract!Payable <=> job.settlement \in Open
  BY DEF Contract!Payable, Open
<1>5. ASSUME ~Lost, job.settlement # "SETTLED"
      PROVE  job.status \in {"QUEUED", "RUNNING"} /\ job.settlement \in Open \cup {"RECONCILING"}
  BY <1>1, <1>5 DEF TypeOK, JobType, Terminal, Settlements, Unsettled, Open, Lost, LeaseInvariant,
                    OutcomeMatchesMoney
<1>6. Lost => job.settlement # "SETTLED"
  BY <1>1 DEF Lost, LeaseInvariant, OutcomeMatchesMoney
<1>7. Taken \in Nat /\ Given \in Nat /\ Given <= Taken
  BY <1>1 DEF TypeOK, LedgerInvariant, Taken, Given
<1>8. Outstanding = Taken - Given /\ Outstanding \in Nat
  BY <1>7 DEF Outstanding
<1>9. QED BY <1>2, <1>3, <1>4, <1>5, <1>6, <1>7, <1>8

\* A step that the contract does not see.
LEMMA Unseen ==
    ASSUME Status' = Status, job'.settlement = job.settlement,
           (Unresolved' # {}) <=> (Unresolved # {}), UNCHANGED <<resv, ledger>>
    PROVE  Allowed
BY DEF Allowed, Contract!contractVars, Status, Outstanding, Taken, Given

LEMMA UnseenRow ==
    ASSUME UNCHANGED <<job, attempts, resv, ledger>>
    PROVE  Allowed
BY Unseen DEF Status, Unresolved

\* The settlement of a job, and nothing else the contract sees, changes.
LEMMA SeenReconciling ==
    ASSUME Good, Status' = Status, job.status # "SUCCEEDED", job.settlement \in Open,
           job'.settlement = "RECONCILING", UNCHANGED <<attempts, resv, ledger>>
    PROVE  Allowed
<1>1. Contract!Payable /\ (Contract!Active \/ Contract!Lost)
  BY Seen DEF Lost, Open, Good, TypeOK, JobType, Terminal
<1>2. Contract!Reconcile
  BY <1>1 DEF Contract!Reconcile, Status, Unresolved, Outstanding, Taken, Given
<1>3. QED BY <1>2 DEF Allowed, Contract!Next

\* The owner of the lease, as the contract sees it.
LEMMA OwnerSeen ==
    ASSUME Good, NEW d \in Deliveries, HoldsLease(d)
    PROVE  Contract!Active /\ Status = "active"
BY Seen DEF HoldsLease, Status, Terminal, Failed

\* Claiming, the reservations and the settlement marks.
LEMMA ReserveImplements ==
    ASSUME Good, NEW d \in Deliveries
    PROVE  /\ Claim(d) => Allowed
           /\ Adopt(d) => Allowed
           /\ Unreserve(d) => Allowed
           /\ MarkReconciling(d) => Allowed
           /\ Remark(d) => Allowed
           /\ SettleNonChat(d) => Allowed
<1>1. ASSUME Claim(d) PROVE Allowed
  <2>1. /\ job.status = "QUEUED" /\ job'.status = "RUNNING" /\ job'.settlement = job.settlement
        /\ UNCHANGED <<attempts, resv, ledger>>
    BY <1>1 DEF Claim, Claimable, Good, TypeOK, JobType
  <2>2. Status = "active" /\ Status' = "active"
    BY <2>1 DEF Status, Terminal, Failed
  <2>3. QED BY <2>1, <2>2, Unseen DEF Unresolved
<1>2. ASSUME Adopt(d) PROVE Allowed
  <2>1. worker[d].pc = "adopt" /\ UNCHANGED <<attempts, resv, ledger>>
    BY <1>2 DEF Adopt
  <2>2. CASE UNCHANGED job
    BY <2>1, <2>2, UnseenRow
  <2>3. CASE HoldsLease(d) /\ job' = [job EXCEPT !.settlement = "RESERVED"]
    <3>1. /\ job'.settlement = "RESERVED" /\ Status' = Status
          /\ job.settlement \in Open
      BY <2>1, <2>3, Known DEF OwnerKnows, Preparing, Status, Good, TypeOK, JobType
    <3>2. CASE job.settlement = "RESERVED"
      BY <2>1, <3>1, <3>2, Unseen DEF Unresolved
    <3>3. CASE job.settlement = "PENDING"
      <4>1. Contract!Confirm
        BY <2>1, <2>3, <3>1, <3>3, OwnerSeen
           DEF Contract!Confirm, Status, Unresolved, Outstanding, Taken, Given
      <4>2. QED BY <4>1 DEF Allowed, Contract!Next
    <3>4. QED BY <3>1, <3>2, <3>3 DEF Open
  <2>4. QED BY <1>2, <2>2, <2>3 DEF Adopt
<1>3. ASSUME Unreserve(d) PROVE Allowed
  <2>1. worker[d].pc = "unreserve" /\ UNCHANGED <<job, attempts, ledger>>
    BY <1>3 DEF Unreserve
  <2>2. CASE UNCHANGED resv
    BY <2>1, <2>2, UnseenRow
  <2>3. ASSUME NEW s \in worker[d].refs, ReleaseReservation(s) PROVE Allowed
    <3>1. job.quota /\ Broken
      BY <2>1, Known DEF Knows
    <3>2. CASE resv[s] # "RESERVED"
      <4>1. UNCHANGED resv
        BY <2>3, <3>2 DEF ReleaseReservation, Good, TypeOK
      <4>2. QED BY <2>1, <4>1, UnseenRow
    <3>3. CASE resv[s] = "RESERVED"
      <4>1. s \in Held /\ Held' = Held \ {s}
        BY <2>3, <3>3 DEF ReleaseReservation, Held, Good, TypeOK, WorkerType
      <4>2. job.settlement # "SETTLED"
        BY <3>1 DEF Broken, Good, MoneyInvariant, RowInvariant
      <4>3. Lost \/ ~Backed
        BY <3>1, <4>2 DEF Backed, EveryHold, Broken
      <4>4. Lost \/ (job.settlement \in Open /\ Unresolved = {})
        BY <4>2, <4>3, Seen DEF Good, MoneyInvariant, RowInvariant
      <4>5. Contract!Lost \/ (Contract!Active /\ Contract!Payable /\ ~(Unresolved # {}))
        BY <4>2, <4>4, Seen
      <4>6. Contract!Release
        BY <2>1, <4>1, <4>5 DEF Contract!Release, Held, Unresolved, Outstanding, Taken, Given
      <4>7. QED BY <4>6 DEF Allowed, Contract!Next
    <3>4. QED BY <3>2, <3>3
  <2>4. QED BY <1>3, <2>2, <2>3 DEF Unreserve
<1>4. ASSUME MarkReconciling(d) \/ Remark(d) PROVE Allowed
  <2>1. worker[d].pc \in {"mark", "remark"} /\ UNCHANGED <<attempts, resv, ledger>>
    BY <1>4 DEF MarkReconciling, Remark
  <2>2. CASE UNCHANGED job
    BY <2>1, <2>2, UnseenRow
  <2>3. CASE HoldsLease(d) /\ job' = [job EXCEPT !.settlement = "RECONCILING"]
    <3>1. job'.settlement = "RECONCILING" /\ Status' = Status /\ job.status # "SUCCEEDED"
      BY <2>3 DEF HoldsLease, Status, Good, TypeOK, JobType
    <3>2. job.settlement \in Unsettled
      BY <2>1, <2>3 DEF Good, LeaseInvariant, OwnerSettles, BeforeSettlement
    <3>3. CASE job.settlement \in Open
      BY <2>1, <3>1, <3>3, SeenReconciling
    <3>4. CASE job.settlement = "RECONCILING"
      BY <2>1, <3>1, <3>4, Unseen DEF Unresolved
    <3>5. QED BY <3>2, <3>3, <3>4 DEF Unsettled, Open
  <2>4. QED BY <1>4, <2>2, <2>3 DEF MarkReconciling, Remark
<1>5. ASSUME SettleNonChat(d) PROVE Allowed
  <2>1. worker[d].pc = "settle" /\ UNCHANGED <<attempts, resv, ledger>>
    BY <1>5 DEF SettleNonChat
  <2>2. CASE UNCHANGED job
    BY <2>1, <2>2, UnseenRow
  <2>3. CASE /\ HoldsLease(d)
             /\ job' = [job EXCEPT !.settlement = IF @ = "SETTLED" THEN @ ELSE "RECONCILING"]
    <3>1. job.settlement \in {"RECONCILING", "SETTLED"}
      BY <2>1, <2>3, Known DEF OwnerKnows, Settling
    <3>2. job' = job
      BY <2>3, <3>1 DEF Good, TypeOK, JobType
    <3>3. QED BY <2>1, <3>2, UnseenRow
  <2>4. QED BY <1>5, <2>2, <2>3 DEF SettleNonChat
<1>6. QED BY <1>1, <1>2, <1>3, <1>4, <1>5

\* The attempts.
LEMMA AuditImplements ==
    ASSUME Good, NEW d \in Deliveries
    PROVE  /\ StartAttempt(d) => Allowed
           /\ FailAttempt(d) => Allowed
           /\ SucceedAttempt(d) => Allowed
<1>1. HoldsLease(d) /\ worker[d].pc \in Calling => job.settlement = "RESERVED"
  BY Known DEF OwnerKnows
<1>2. ASSUME UNCHANGED <<job, resv, ledger>>
      PROVE  UNCHANGED <<Status, job.settlement, Outstanding, Held>>
  BY <1>2 DEF Status, Outstanding, Taken, Given, Held
<1>3. ASSUME StartAttempt(d) PROVE Allowed
  <2>1. worker[d].pc = "start" /\ UNCHANGED <<job, resv, ledger>>
    BY <1>3 DEF StartAttempt
  <2>2. CASE UNCHANGED attempts
    BY <2>1, <2>2, UnseenRow
  <2>3. ASSUME HoldsLease(d), Unresolved = {}, NEW a \in AttemptIds,
               attempts' = [attempts EXCEPT ![a] = "RUNNING"]
        PROVE  Allowed
    <3>1. Unresolved' # {}
      BY <2>3 DEF Unresolved, Good, TypeOK
    <3>2. Contract!Call
      BY <1>1, <1>2, <2>1, <2>3, <3>1, OwnerSeen DEF Contract!Call, Calling, Status, Held
    <3>3. QED BY <3>2 DEF Allowed, Contract!Next
  <2>4. QED BY <1>3, <2>2, <2>3 DEF StartAttempt, MustReconcile
<1>4. ASSUME FailAttempt(d) PROVE Allowed
  <2>1. worker[d].pc = "refused" /\ UNCHANGED <<job, resv, ledger>>
    BY <1>4 DEF FailAttempt
  <2>2. CASE UNCHANGED attempts
    BY <2>1, <2>2, UnseenRow
  <2>3. CASE /\ HoldsLease(d) /\ attempts[worker[d].attempt] = "RUNNING"
             /\ attempts' = [attempts EXCEPT ![worker[d].attempt] = "FAILED"]
    <3>1. worker[d].attempt \in AttemptIds
      BY <2>1, Known DEF Knows
    <3>2. Unresolved = {worker[d].attempt}
      BY <2>3, <3>1 DEF Unresolved, Good, AtMostOne
    <3>3. Unresolved' = {}
      BY <2>3, <3>1, <3>2 DEF Unresolved, Good, TypeOK
    <3>4. Contract!Payable
      BY <1>1, <2>1, <2>3, Seen DEF Calling, Open
    <3>5. Contract!CallFails
      BY <1>2, <2>1, <2>3, <3>2, <3>3, <3>4, OwnerSeen DEF Contract!CallFails, Status, Held
    <3>6. QED BY <3>5 DEF Allowed, Contract!Next
  <2>4. QED BY <1>4, <2>2, <2>3 DEF FailAttempt
<1>5. ASSUME SucceedAttempt(d) PROVE Allowed
  <2>1. worker[d].pc = "accept" /\ UNCHANGED <<job, resv, ledger>>
    BY <1>5 DEF SucceedAttempt
  <2>2. CASE UNCHANGED attempts
    BY <2>1, <2>2, UnseenRow
  <2>3. CASE /\ attempts[worker[d].attempt] = "RUNNING"
             /\ attempts' = [attempts EXCEPT ![worker[d].attempt] = "SUCCEEDED"]
    <3>1. worker[d].attempt \in AttemptIds
      BY <2>1, Known DEF Knows
    <3>2. worker[d].attempt \in Unresolved /\ worker[d].attempt \in Unresolved'
      BY <2>3, <3>1 DEF Unresolved, Good, TypeOK
    <3>3. QED BY <1>2, <2>1, <3>2, Unseen
  <2>4. QED BY <1>5, <2>2, <2>3 DEF SucceedAttempt
<1>6. QED BY <1>3, <1>4, <1>5

\* The real cost, the settlement, and the end.
LEMMA SettleImplements ==
    ASSUME Good, NEW d \in Deliveries
    PROVE  /\ Adjust(d) => Allowed
           /\ CommitSettlement(d) => Allowed
           /\ CommitUnacknowledged(d) => Allowed
           /\ Finish(d) => Allowed
           /\ FailJob(d) => Allowed
           /\ ReleaseForRetry(d) => Allowed
<1>1. ASSUME HoldsLease(d), worker[d].pc \in {"adjust", "commit"}, job.settlement \in Unsettled
      PROVE  job.settlement = "RECONCILING" /\ Unresolved # {}
  <2>1. job.settlement = "RECONCILING"
    BY <1>1, Known DEF OwnerKnows, Settling, Unsettled
  <2>2. Answered
    BY <1>1, Known DEF Knows
  <2>3. QED BY <2>1, <2>2 DEF Answered, Unresolved
<1>2. ASSUME Adjust(d) PROVE Allowed
  <2>1. worker[d].pc = "adjust" /\ UNCHANGED <<job, attempts, resv>>
    BY <1>2 DEF Adjust
  <2>2. CASE UNCHANGED ledger
    BY <2>1, <2>2, UnseenRow
  <2>3. CASE Chargeable(d)
    <3>1. job.settlement = "RECONCILING" /\ Unresolved # {} /\ Contract!Active
      BY <1>1, <2>1, <2>3, OwnerSeen DEF Chargeable
    <3>2. TypeOK' /\ LedgerInvariant'
      <4>1. MoneyInvariant' /\ [Next]_vars
        BY <1>2, AdjustKeepsMoney DEF Next, Work, RunnerStep
      <4>2. QED BY <4>1, TypeStep DEF Good, MoneyInvariant
    <3>3. /\ ledger' \in [spend : Nat, extra : Nat, back : Nat, refund : Nat, enqueue : Nat]
          /\ Given' <= Taken'
      BY <3>2 DEF TypeOK, LedgerInvariant
    <3>4. Outstanding' \in Nat
      BY <3>3 DEF Outstanding, Taken, Given
    <3>5. Contract!Adjust
      BY <2>1, <3>1, <3>4 DEF Contract!Adjust, Status, Unresolved
    <3>6. QED BY <3>5 DEF Allowed, Contract!Next
  <2>4. QED BY <1>2, <2>2, <2>3 DEF Adjust
<1>3. ASSUME CommitSettlement(d) \/ CommitUnacknowledged(d) PROVE Allowed
  <2>1. /\ worker[d].pc = "commit" /\ SettleGeneration(d) /\ UNCHANGED <<attempts, ledger>>
    BY <1>3 DEF CommitSettlement, CommitUnacknowledged
  <2>2. CASE ~CanSettle(d)
    BY <2>1, <2>2, UnseenRow DEF SettleGeneration
  <2>3. CASE CanSettle(d)
    <3>1. job.settlement = "RECONCILING" /\ Unresolved # {} /\ Contract!Active
      BY <1>1, <2>1, <2>3, OwnerSeen DEF CanSettle
    <3>2. job' = [job EXCEPT !.settlement = "SETTLED"]
      BY <2>1, <2>3 DEF SettleGeneration
    <3>3. job'.settlement = "SETTLED" /\ Status' = Status
      BY <3>2 DEF Status, Good, TypeOK, JobType
    <3>4. Held' = {}
      <4>1. CASE worker[d].quota
        BY <2>1, <2>3, <4>1 DEF SettleGeneration, Held
      <4>2. CASE ~worker[d].quota
        BY <2>1, <2>3, <4>2 DEF SettleGeneration, CanSettle, ReservationsSettleable, Held
      <4>3. QED BY <4>1, <4>2
    <3>5. Contract!Settle
      BY <2>1, <3>1, <3>3, <3>4 DEF Contract!Settle, Status, Held, Unresolved, Outstanding, Taken, Given
    <3>6. QED BY <3>5 DEF Allowed, Contract!Next
  <2>4. QED BY <2>2, <2>3
<1>4. ASSUME Finish(d) \/ FailJob(d) \/ ReleaseForRetry(d) PROVE Allowed
  <2>1. UNCHANGED <<attempts, resv, ledger>>
    BY <1>4 DEF Finish, FailJob, ReleaseForRetry
  <2>2. CASE UNCHANGED job
    BY <2>1, <2>2, UnseenRow
  <2>3. ASSUME HoldsLease(d), NEW x, job' = [Unlocked(job) EXCEPT !.status = x]
        PROVE  job'.settlement = job.settlement /\ job'.status = x
    BY <2>3 DEF Unlocked, Good, TypeOK, JobType
  <2>4. CASE Finish(d) /\ HoldsLease(d)
    <3>1. job'.settlement = job.settlement /\ job'.status = "SUCCEEDED" /\ job.settlement = "SETTLED"
      BY <2>3, <2>4 DEF Finish, Good, LeaseInvariant, VerifiedIsSettled
    <3>2. Contract!Succeed
      BY <2>1, <2>4, <3>1, OwnerSeen
         DEF Contract!Succeed, Terminal, Unresolved, Outstanding, Taken, Given
    <3>3. QED BY <3>2 DEF Allowed, Contract!Next
  <2>5. CASE FailJob(d) /\ HoldsLease(d)
    <3>1. job'.settlement = job.settlement /\ job'.status = "FAILED"
      BY <2>3, <2>5 DEF FailJob
    <3>2. job.settlement \in Unsettled
      BY <2>5 DEF FailJob, Good, LeaseInvariant, OwnerSettles, BeforeSettlement
    <3>3. Contract!GiveUp
      BY <2>1, <2>5, <3>1, <3>2, OwnerSeen
         DEF Contract!GiveUp, Terminal, Failed, Unsettled, Unresolved, Outstanding, Taken, Given
    <3>4. QED BY <3>3 DEF Allowed, Contract!Next
  <2>6. CASE ReleaseForRetry(d) /\ HoldsLease(d)
    <3>1. job'.settlement = job.settlement /\ job'.status = "QUEUED"
      BY <2>3, <2>6 DEF ReleaseForRetry
    <3>2. Status' = "active" /\ Status = "active"
      BY <2>6, <3>1, OwnerSeen DEF Status, Terminal, Failed
    <3>3. QED BY <2>1, <3>1, <3>2, Unseen DEF Unresolved
  <2>7. QED BY <1>4, <2>2, <2>4, <2>5, <2>6 DEF Finish, FailJob, ReleaseForRetry
<1>5. QED BY <1>2, <1>3, <1>4

\* Every step of a delivery.
LEMMA WorkImplements ==
    ASSUME Good, NEW d \in Deliveries, Claim(d) \/ ClaimLost(d) \/ Rest(d) \/ Work(d)
    PROVE  Allowed
<1>1. CASE \/ ClaimLost(d) \/ Rest(d) \/ ReadForeign(d) \/ ReadOwned(d) \/ ReserveTooEarly(d)
           \/ ReserveWithoutQuota(d) \/ ReserveFromTable(d) \/ Die(d)
  BY <1>1, UnseenRow DEF ClaimLost, Rest, ReadForeign, ReadOwned, ReserveTooEarly,
                         ReserveWithoutQuota, ReserveFromTable, Die, db
<1>2. CASE RunnerStep(d)
  <2>1. CASE \/ CleanOutputs(d) \/ NoCandidate(d) \/ ProviderRefuses(d) \/ StreamBreaks(d)
             \/ ChatAnswers(d) \/ StoreOutput(d) \/ UndoOutputs(d)
    BY <2>1, UnseenRow DEF CleanOutputs, NoCandidate, ProviderRefuses, StreamBreaks,
                           ChatAnswers, StoreOutput, UndoOutputs, db
  <2>2. QED BY <1>2, <2>1, AuditImplements, ReserveImplements, SettleImplements DEF RunnerStep
<1>3. CASE SettleStep(d)
  <2>1. CASE Verify(d) \/ Book(d)
    BY <2>1, UnseenRow DEF Verify, Book, db
  <2>2. QED BY <1>3, <2>1, ReserveImplements, SettleImplements DEF SettleStep
<1>4. CASE ErrorStep(d)
  <2>1. CASE CatchForeign(d) \/ CatchCancelled(d) \/ CatchOwned(d) \/ DatabaseFails(d)
    BY <2>1, UnseenRow DEF CatchForeign, CatchCancelled, CatchOwned, DatabaseFails, db
  <2>2. QED BY <1>4, <2>1, ReserveImplements, SettleImplements DEF ErrorStep
<1>5. QED BY <1>1, <1>2, <1>3, <1>4, ReserveImplements DEF Work

\* Cancellation, recovery and the lease's clock.
LEMMA EnvironmentImplements ==
    ASSUME Good
    PROVE  /\ Cancel => Allowed
           /\ RecoverStaleLease => Allowed
           /\ Expire => Allowed
           /\ \A r \in Recoverers : RecoverTerminal(r) => Allowed
<1>1. ASSUME Cancel PROVE Allowed
  <2>1. /\ job.status \in {"QUEUED", "RUNNING"} /\ job.settlement \in Open
        /\ job'.status = "CANCELLED"
        /\ job'.settlement = IF Unresolved # {} THEN "RECONCILING" ELSE job.settlement
        /\ UNCHANGED <<attempts, resv, ledger>>
    BY <1>1 DEF Cancel, MustReconcile, Unlocked, Good, TypeOK, JobType
  <2>2. Contract!Active /\ Contract!Payable
    BY <2>1, Seen
  <2>3. Contract!GiveUp
    BY <2>1, <2>2 DEF Contract!GiveUp, Terminal, Failed, Unresolved, Outstanding, Taken, Given
  <2>4. QED BY <2>3 DEF Allowed, Contract!Next
<1>2. ASSUME RecoverStaleLease PROVE Allowed
  <2>1. /\ job.status = "RUNNING" /\ job'.status = "QUEUED"
        /\ job'.settlement = IF job.settlement \in Open /\ MustReconcile THEN "RECONCILING"
                                                                         ELSE job.settlement
        /\ UNCHANGED <<attempts, resv, ledger>>
    BY <1>2 DEF RecoverStaleLease, Unlocked, Good, TypeOK, JobType
  <2>2. Status = "active" /\ Status' = "active"
    BY <2>1 DEF Status, Terminal, Failed
  <2>3. CASE job.settlement \in Open /\ MustReconcile
    BY <2>1, <2>2, <2>3, SeenReconciling
  <2>4. CASE ~(job.settlement \in Open /\ MustReconcile)
    BY <2>1, <2>2, <2>4, Unseen DEF Unresolved
  <2>5. QED BY <2>3, <2>4
<1>3. ASSUME Expire PROVE Allowed
  <2>1. /\ job'.status = job.status /\ job'.settlement = job.settlement
        /\ UNCHANGED <<attempts, resv, ledger>>
    BY <1>3 DEF Expire, Good, TypeOK, JobType
  <2>2. QED BY <2>1, Unseen DEF Status, Unresolved
<1>4. ASSUME NEW r \in Recoverers, RecoverTerminal(r) PROVE Allowed
  BY <1>4, UnseenRow DEF RecoverTerminal, db
<1>5. QED BY <1>1, <1>2, <1>3, <1>4

\* finalizeTerminal: marking, giving the call up, refunding, releasing, closing.
LEMMA CloseImplements ==
    ASSUME Good, NEW c \in Closers, CloseStep(c) \/ CloseFails(c)
    PROVE  Allowed
<1>1. /\ closer[c].pc # "idle"
      /\ Lost /\ job.status = closer[c].reason /\ job.settlement # "SETTLED"
  <2>1. closer[c].pc # "idle"
    BY DEF CloseStep, Publish, Inspect, RefundOutstanding, RecordRefund, ReleaseHold,
           CloseSettlement, CleanTerminal, CloseFails
  <2>2. QED BY <2>1, ClosedIsLost
<1>2. CloserKnows(c) /\ LedgerInvariant
  BY DEF Good, MoneyInvariant, CloserInvariant
<1>3. Contract!Lost /\ job.status \in Terminal
  BY <1>1, Seen DEF Lost, Terminal
<1>4. job.settlement \in Open \cup {"RECONCILING", "RELEASED", "REFUNDED"}
  BY <1>1 DEF Good, TypeOK, JobType, Settlements, Unsettled, Closed, Open
<1>5. CASE Publish(c)
  <2>1. UNCHANGED <<attempts, resv, ledger>>
    BY <1>5 DEF Publish
  <2>2. CASE job.settlement \in Open
    <3>1. job' = [job EXCEPT !.settlement = "RECONCILING"]
      BY <1>1, <1>5, <2>2 DEF Publish
    <3>2. job'.settlement = "RECONCILING" /\ Status' = Status /\ job.status # "SUCCEEDED"
      BY <1>1, <3>1 DEF Status, Lost, Failed, Good, TypeOK, JobType
    <3>3. QED BY <2>1, <2>2, <3>2, SeenReconciling
  <2>3. CASE job.settlement \notin Open
    <3>1. job' = job
      BY <1>5, <2>3 DEF Publish, Good, TypeOK, JobType
    <3>2. QED BY <2>1, <3>1, UnseenRow
  <2>4. QED BY <2>2, <2>3
<1>6. CASE Inspect(c)
  <2>1. UNCHANGED <<job, resv, ledger>> /\ job.settlement \notin Open
    BY <1>2, <1>6 DEF Inspect, CloserKnows
  <2>2. Unresolved' \subseteq Unresolved
    BY <1>6 DEF Inspect, Unresolved
  <2>3. Contract!Abandon
    BY <1>3, <1>4, <2>1, <2>2 DEF Contract!Abandon, Outstanding, Taken, Given
  <2>4. QED BY <2>3 DEF Allowed, Contract!Next
<1>7. CASE RefundOutstanding(c)
  <2> DEFINE amount == IF ledger.refund > 0 THEN ledger.refund ELSE Outstanding
  <2>1. ledger' = [ledger EXCEPT !.refund = amount] /\ UNCHANGED <<job, attempts, resv>>
    BY <1>7 DEF RefundOutstanding
  <2>2. job.settlement \notin Open
    BY <1>2, <1>7 DEF RefundOutstanding, CloserKnows
  <2>3. ledger \in [spend : Nat, extra : Nat, back : Nat, refund : Nat, enqueue : Nat]
    BY DEF Good, TypeOK
  <2>4. Given <= Taken /\ (ledger.refund > 0 => Taken = Given)
    BY <1>2 DEF LedgerInvariant
  <2>5. CASE Taken = Given
    <3>1. amount = ledger.refund
      BY <2>3, <2>5 DEF Outstanding, Taken, Given
    <3>2. ledger' = ledger
      BY <2>1, <2>3, <3>1
    <3>3. QED BY <2>1, <3>2, UnseenRow
  <2>6. CASE Taken # Given
    <3>1. ledger' = [ledger EXCEPT !.refund = Outstanding] /\ ledger.refund = 0
      BY <2>1, <2>3, <2>4, <2>6
    <3>2. Outstanding = Taken - Given /\ Outstanding \in Nat
      BY Seen
    <3>3. Outstanding' = 0
      BY <2>3, <2>4, <3>1, <3>2 DEF Outstanding, Taken, Given
    <3>4. job.settlement = "RECONCILING"
      BY <1>2, <1>4, <2>2, <2>6 DEF LedgerInvariant, Closed
    <3>5. Contract!Refund
      BY <1>3, <2>1, <3>3, <3>4 DEF Contract!Refund, Unresolved
    <3>6. QED BY <3>5 DEF Allowed, Contract!Next
  <2>7. QED BY <2>5, <2>6
<1>8. CASE ReleaseHold(c)
  <2>1. UNCHANGED <<job, attempts, ledger>>
    BY <1>8 DEF ReleaseHold
  <2>2. CASE UNCHANGED resv
    BY <2>1, <2>2, UnseenRow
  <2>3. ASSUME NEW s \in closer[c].refs, ReleaseReservation(s) PROVE Allowed
    <3>1. CASE resv[s] # "RESERVED"
      <4>1. UNCHANGED resv
        BY <2>3, <3>1 DEF ReleaseReservation, Good, TypeOK
      <4>2. QED BY <2>1, <4>1, UnseenRow
    <3>2. CASE resv[s] = "RESERVED"
      <4>1. s \in Held /\ Held' = Held \ {s}
        BY <2>3, <3>2 DEF ReleaseReservation, Held, Good, TypeOK, CloserType
      <4>2. Contract!Release
        BY <1>3, <2>1, <4>1 DEF Contract!Release, Held, Unresolved, Outstanding, Taken, Given
      <4>3. QED BY <4>2 DEF Allowed, Contract!Next
    <3>3. QED BY <3>1, <3>2
  <2>4. QED BY <1>8, <2>2, <2>3 DEF ReleaseHold
<1>9. CASE CloseSettlement(c)
  <2>1. PICK now : /\ job' = [job EXCEPT !.settlement = now]
                   /\ \/ now = job.settlement
                      \/ /\ now \in {"REFUNDED", "RELEASED"}
                         /\ job.settlement \in Unsettled
                         /\ \A s \in Scopes : resv[s] \notin {"RESERVED", "SETTLED"}
    BY <1>9 DEF CloseSettlement
  <2>2. closer[c].pc = "close" /\ UNCHANGED <<attempts, resv, ledger>>
    BY <1>9 DEF CloseSettlement
  <2>3. job'.settlement = now /\ job'.status = job.status
    BY <2>1 DEF Good, TypeOK, JobType
  <2>4. CASE now = job.settlement
    BY <2>2, <2>3, <2>4, Unseen DEF Status, Unresolved
  <2>5. CASE /\ now \in {"REFUNDED", "RELEASED"}
             /\ job.settlement \in Unsettled
             /\ \A s \in Scopes : resv[s] # "RESERVED"
    <3>1. job.settlement = "RECONCILING" /\ Taken = Given
      BY <1>2, <2>2, <2>5 DEF CloserKnows, Unsettled, Open
    <3>2. Outstanding = 0 /\ Held = {}
      BY <2>5, <3>1, Seen DEF Held
    <3>3. Contract!Close
      BY <1>3, <2>2, <2>3, <2>5, <3>1, <3>2
         DEF Contract!Close, Held, Unresolved, Outstanding, Taken, Given
    <3>4. QED BY <3>3 DEF Allowed, Contract!Next
  <2>6. QED BY <2>1, <2>4, <2>5
<1>10. CASE RecordRefund(c) \/ CleanTerminal(c) \/ CloseFails(c)
  BY <1>10, UnseenRow DEF RecordRefund, CleanTerminal, CloseFails, db
<1>11. QED BY <1>5, <1>6, <1>7, <1>8, <1>9, <1>10 DEF CloseStep

\* With every delivery on a process of its own, every execution of a job is
\* one of SettlementContract: workers, failovers, lost acknowledgements,
\* cancellation, recovery and repeated finalizeTerminal never show the user
\* or the Provider anything that the contract does not allow.
THEOREM ContractCorrect ==
    ASSUME OwnProcesses
    PROVE  Spec => ImplementsContract
<1>1. Init => Contract!Init
  <2> SUFFICES ASSUME Init PROVE Contract!Init
    OBVIOUS
  <2>1. Good
    BY GoodInit
  <2>2. Status = "active" /\ job.settlement \in {"PENDING", "RESERVED"} /\ Unresolved = {}
    BY DEF Init, InitMoney, InitQuota, InitCredits, NewJob, Unresolved, Status, Terminal, Failed
  <2>3. Outstanding \in Nat
    BY <2>1, Seen
  <2>4. QED BY <2>2, <2>3 DEF Contract!Init, Status
<1>2. Good /\ [Next]_vars => [Contract!Next]_(Contract!contractVars)
  <2> SUFFICES ASSUME Good, [Next]_vars PROVE Allowed
    BY DEF Allowed
  <2>1. CASE UNCHANGED vars
    BY <2>1, UnseenRow DEF vars
  <2>2. CASE Environment
    BY <2>2, EnvironmentImplements, CloseImplements DEF Environment
  <2>3. ASSUME NEW d \in Deliveries, Claim(d) \/ ClaimLost(d) \/ Rest(d) \/ Work(d) PROVE Allowed
    BY <2>3, WorkImplements
  <2>4. QED BY <2>1, <2>2, <2>3 DEF Next
<1>3. QED BY <1>1, <1>2, AlwaysGood, PTL DEF Spec, ImplementsContract, Contract!Spec
=============================================================================
