-------------------------- MODULE TokenQuotaProofs --------------------------
(***************************************************************************)
(* Proofs about TokenQuota, for any number of chats, calls and scopes, any *)
(* plan and any usage: the type invariant, that the quota is never         *)
(* overdrawn, that the scopes of a chat agree, that the counters add up,   *)
(* and that a settlement never charges more than the hold.                 *)
(***************************************************************************)
EXTENDS TokenQuota, TotalsProofs

\* What the transactions of the service need and keep of the quota rows.
QuotaOK ==
    /\ used \in [Scopes -> Nat]
    /\ reserved \in [Scopes -> Nat]
    /\ rows \in [Generations -> [Scopes -> RowType]]
    /\ QuotaNeverOverdrawn

\* What the other processes keep.
LocalOK ==
    /\ calls \in [Generations -> [Calls -> CallType]]
    /\ job \in [Generations -> {"live", "credits", "failed", "settled"}]
    /\ creator \in [Generations -> CreatorType]
    /\ worker \in [Generations -> WorkerType]

Inv == QuotaOK /\ LocalOK /\ ScopeInvariant

-----------------------------------------------------------------------------
(***************************************************************************)
(* The four transactions keep the quota rows typed and not overdrawn.      *)
(***************************************************************************)
LEMMA FirstScope == 1 \in Scopes
BY ScopeAssumption DEF Scopes

\* The rows each transaction writes.
LEMMA RaisedRow ==
    ASSUME NEW row \in RowType, NEW n \in Nat
    PROVE  /\ [row EXCEPT !.units = @ + n] \in RowType
           /\ [row EXCEPT !.units = @ + n].status = row.status
           /\ [row EXCEPT !.units = @ + n].units = row.units + n
           /\ [row EXCEPT !.units = @ + n].charged = row.charged
<1>1. /\ row.units + n \in Nat
      /\ row = [status |-> row.status, units |-> row.units, charged |-> row.charged]
      /\ row.charged \in Nat
      /\ row.status \in {"none", "RESERVED", "RELEASED", "SETTLED"}
  BY DEF RowType
<1>2. [row EXCEPT !.units = @ + n]
          = [status |-> row.status, units |-> row.units + n, charged |-> row.charged]
  BY <1>1
<1>. QED BY <1>1, <1>2 DEF RowType

LEMMA SettledRow ==
    ASSUME NEW row \in RowType, NEW n \in Nat
    PROVE  /\ [row EXCEPT !.status = "SETTLED", !.charged = n] \in RowType
           /\ [row EXCEPT !.status = "SETTLED", !.charged = n].status = "SETTLED"
           /\ [row EXCEPT !.status = "SETTLED", !.charged = n].charged = n
BY DEF RowType

LEMMA ReleasedRow ==
    ASSUME NEW row \in RowType
    PROVE  /\ [row EXCEPT !.status = "RELEASED"] \in RowType
           /\ [row EXCEPT !.status = "RELEASED"].status = "RELEASED"
BY DEF RowType

LEMMA ReserveKeepsQuota ==
    ASSUME QuotaOK, NEW g \in Generations, NEW s \in Scopes,
           Available(s) >= Units,
           reserved' = [reserved EXCEPT ![s] = @ + Units],
           rows' = [rows EXCEPT ![g][s] = [status |-> "RESERVED", units |-> Units, charged |-> 0]],
           UNCHANGED used
    PROVE  QuotaOK'
<1>. USE ScopeAssumption, UnitAssumption
<1>1. reserved' \in [Scopes -> Nat]
  BY DEF QuotaOK
<1>2. rows' \in [Generations -> [Scopes -> RowType]]
  BY DEF QuotaOK, RowType
<1>3. \A r \in Scopes : used'[r] + reserved'[r] <= Granted[r]
  <2>. TAKE r \in Scopes
  <2>1. CASE r = s
    <3>1. reserved'[r] = reserved[r] + Units /\ used'[r] = used[r]
      BY <2>1 DEF QuotaOK
    <3>2. Granted[r] - used[r] - reserved[r] >= Units
      BY <2>1 DEF Available
    <3>3. /\ used[r] \in Nat /\ reserved[r] \in Nat /\ Granted[r] \in Nat /\ Units \in Nat
      BY DEF QuotaOK
    <3>. QED BY <2>1, <3>1, <3>2, <3>3
  <2>2. CASE r # s
    BY <2>2 DEF QuotaOK, QuotaNeverOverdrawn
  <2>. QED BY <2>1, <2>2
<1>. QED BY <1>1, <1>2, <1>3 DEF QuotaOK, QuotaNeverOverdrawn

LEMMA IncreaseKeepsQuota ==
    ASSUME QuotaOK, NEW g \in Generations, NEW n \in Nat,
           CanIncrease(g, n), Increase(g, n)
    PROVE  QuotaOK'
<1>. USE ScopeAssumption
<1>1. reserved' \in [Scopes -> Nat] /\ used' \in [Scopes -> Nat]
  BY DEF QuotaOK, Increase
<1>2. rows' \in [Generations -> [Scopes -> RowType]]
  <2>1. \A s \in Scopes : [rows[g][s] EXCEPT !.units = @ + n] \in RowType
    BY RaisedRow DEF QuotaOK
  <2>2. rows' = [rows EXCEPT ![g] = [s \in Scopes |-> [rows[g][s] EXCEPT !.units = @ + n]]]
    BY DEF Increase
  <2>. QED BY <2>1, <2>2 DEF QuotaOK
<1>3. \A s \in Scopes : used'[s] + reserved'[s] <= Granted[s]
  BY DEF QuotaOK, QuotaNeverOverdrawn, Increase, CanIncrease, Available
<1>. QED BY <1>1, <1>2, <1>3 DEF QuotaOK, QuotaNeverOverdrawn

LEMMA ReleaseKeepsQuota ==
    ASSUME QuotaOK, NEW g \in Generations, NEW s \in Scopes, Release(g, s)
    PROVE  QuotaOK'
<1>. USE ScopeAssumption
<1>1. CASE Holds(g, s) /\ reserved[s] >= rows[g][s].units
  <2>1. rows[g][s].units \in Nat
    BY DEF QuotaOK, RowType
  <2>2. reserved' = [reserved EXCEPT ![s] = @ - rows[g][s].units] /\ UNCHANGED used
    BY <1>1 DEF Release
  <2>3. reserved' \in [Scopes -> Nat]
    BY <1>1, <2>1, <2>2 DEF QuotaOK
  <2>4. rows' \in [Generations -> [Scopes -> RowType]]
    <3>1. [rows[g][s] EXCEPT !.status = "RELEASED"] \in RowType
      BY ReleasedRow DEF QuotaOK
    <3>2. rows' = [rows EXCEPT ![g][s] = [rows[g][s] EXCEPT !.status = "RELEASED"]]
      BY <1>1 DEF Release
    <3>. QED BY <3>1, <3>2 DEF QuotaOK
  <2>5. \A r \in Scopes : used'[r] + reserved'[r] <= Granted[r]
    BY <2>1, <2>2 DEF QuotaOK, QuotaNeverOverdrawn
  <2>. QED BY <2>2, <2>3, <2>4, <2>5 DEF QuotaOK, QuotaNeverOverdrawn
<1>2. CASE ~(Holds(g, s) /\ reserved[s] >= rows[g][s].units)
  BY <1>2 DEF Release, QuotaOK, QuotaNeverOverdrawn
<1>. QED BY <1>1, <1>2

LEMMA SettleKeepsQuota ==
    ASSUME QuotaOK, NEW g \in Generations, NEW n \in Nat,
           CanSettle(g, n), SettleRows(g, n)
    PROVE  QuotaOK'
<1>. USE ScopeAssumption
<1>1. \A s \in Scopes : rows[g][s].units \in Nat
  BY DEF QuotaOK, RowType
<1>2. \A s \in Scopes : reserved[s] >= rows[g][s].units
  BY DEF CanSettle
<1>3. reserved' = [s \in Scopes |-> reserved[s] - rows[g][s].units]
  BY DEF SettleRows
<1>4. used' = [s \in Scopes |-> used[s] + n]
  BY DEF SettleRows
<1>5. reserved' \in [Scopes -> Nat] /\ used' \in [Scopes -> Nat]
  BY <1>1, <1>2, <1>3, <1>4 DEF QuotaOK
<1>6. rows' \in [Generations -> [Scopes -> RowType]]
  <2>1. \A s \in Scopes : [rows[g][s] EXCEPT !.status = "SETTLED", !.charged = n] \in RowType
    <3>. TAKE s \in Scopes
    <3>1. rows[g][s] \in RowType
      BY DEF QuotaOK
    <3>. QED BY <3>1, SettledRow
  <2>2. rows' = [rows EXCEPT ![g] = [s \in Scopes |->
                    [rows[g][s] EXCEPT !.status = "SETTLED", !.charged = n]]]
    BY DEF SettleRows
  <2>. QED BY <2>1, <2>2 DEF QuotaOK
<1>7. \A s \in Scopes : used'[s] + reserved'[s] <= Granted[s]
  <2>. TAKE s \in Scopes
  <2>1. Excess(g, s, n) <= Available(s)
    BY DEF CanSettle
  <2>2. CASE n > rows[g][s].units
    BY <1>1, <1>3, <1>4, <2>1, <2>2 DEF QuotaOK, Excess, Available
  <2>3. CASE ~(n > rows[g][s].units)
    BY <1>1, <1>3, <1>4, <2>3 DEF QuotaOK, QuotaNeverOverdrawn
  <2>. QED BY <2>2, <2>3
<1>. QED BY <1>5, <1>6, <1>7 DEF QuotaOK, QuotaNeverOverdrawn

-----------------------------------------------------------------------------
(***************************************************************************)
(* They keep the scopes of a chat in agreement.  The creator's place in    *)
(* the list of scopes does not move with them, except by Reserve.          *)
(***************************************************************************)
SameCreator == \A g \in Generations : creator'[g].pc = "reserve" => creator'[g] = creator[g]

LEMMA IncreaseKeepsScopes ==
    ASSUME QuotaOK, ScopeInvariant, NEW g \in Generations, NEW n \in Nat,
           CanIncrease(g, n), Increase(g, n), SameCreator
    PROVE  ScopeInvariant'
<1>1. \A s \in Scopes : rows[g][s].status = "RESERVED"
  BY DEF CanIncrease, Holds
<1>2. \A s \in Scopes : rows'[g][s] = [rows[g][s] EXCEPT !.units = @ + n]
  <2>1. rows' = [rows EXCEPT ![g] = [s \in Scopes |-> [rows[g][s] EXCEPT !.units = @ + n]]]
    BY DEF Increase
  <2>. QED BY <2>1 DEF QuotaOK
<1>3. \A s \in Scopes : /\ rows'[g][s].status = "RESERVED"
                        /\ rows'[g][s].units = rows[g][s].units + n
  <2>. TAKE s \in Scopes
  <2>1. rows[g][s] \in RowType
    BY DEF QuotaOK
  <2>2. /\ [rows[g][s] EXCEPT !.units = @ + n].status = rows[g][s].status
        /\ [rows[g][s] EXCEPT !.units = @ + n].units = rows[g][s].units + n
    BY <2>1, RaisedRow
  <2>. QED BY <1>1, <1>2, <2>2
<1>4. \A h \in Generations : h # g => rows'[h] = rows[h]
  BY DEF QuotaOK, Increase
<1>5. ScopesAgree'
  BY <1>1, <1>3, <1>4 DEF ScopeInvariant, ScopesAgree, Holds
<1>6. FirstHold'
  BY <1>3, <1>4 DEF ScopeInvariant, FirstHold, Holds
<1>7. ReservedOnce'
  BY <1>1, <1>3, <1>4 DEF ScopeInvariant, ReservedOnce, SameCreator
<1>. QED BY <1>5, <1>6, <1>7 DEF ScopeInvariant

LEMMA ReleaseKeepsScopes ==
    ASSUME QuotaOK, ScopeInvariant, NEW g \in Generations, NEW s \in Scopes,
           Release(g, s), SameCreator
    PROVE  ScopeInvariant'
<1>1. CASE Holds(g, s) /\ reserved[s] >= rows[g][s].units
  <2>1. rows' = [rows EXCEPT ![g][s].status = "RELEASED"] /\ rows[g][s].status = "RESERVED"
    BY <1>1 DEF Release, Holds
  <2>2. rows'[g][s].status = "RELEASED"
    BY <2>1 DEF QuotaOK, RowType
  <2>3. \A h \in Generations, r \in Scopes : ~(h = g /\ r = s) => rows'[h][r] = rows[h][r]
    BY <2>1 DEF QuotaOK
  <2>4. \A r \in Scopes : rows[g][r].status # "SETTLED"
    BY <2>1 DEF ScopeInvariant, ScopesAgree
  <2>5. ScopesAgree'
    BY <2>1, <2>2, <2>3, <2>4 DEF ScopeInvariant, ScopesAgree, Holds
  <2>6. FirstHold'
    BY <2>2, <2>3 DEF ScopeInvariant, FirstHold, Holds
  <2>7. ReservedOnce'
    BY <2>1, <2>2, <2>3 DEF ScopeInvariant, ReservedOnce, SameCreator
  <2>. QED BY <2>5, <2>6, <2>7 DEF ScopeInvariant
<1>2. CASE ~(Holds(g, s) /\ reserved[s] >= rows[g][s].units)
  BY <1>2 DEF Release, ScopeInvariant, ScopesAgree, FirstHold, ReservedOnce, SameCreator, Holds
<1>. QED BY <1>1, <1>2

LEMMA SettleKeepsScopes ==
    ASSUME QuotaOK, ScopeInvariant, NEW g \in Generations, NEW n \in Nat,
           CanSettle(g, n), SettleRows(g, n), SameCreator
    PROVE  ScopeInvariant'
<1>1. \A s \in Scopes : rows[g][s].status = "RESERVED"
  BY DEF CanSettle, Holds
<1>2. \A s \in Scopes : rows'[g][s].status = "SETTLED" /\ rows'[g][s].charged = n
  <2>1. rows' = [rows EXCEPT ![g] = [s \in Scopes |->
                    [rows[g][s] EXCEPT !.status = "SETTLED", !.charged = n]]]
    BY DEF SettleRows
  <2>2. \A s \in Scopes : rows'[g][s] = [rows[g][s] EXCEPT !.status = "SETTLED", !.charged = n]
    BY <2>1 DEF QuotaOK
  <2>3. \A s \in Scopes :
            /\ [rows[g][s] EXCEPT !.status = "SETTLED", !.charged = n].status = "SETTLED"
            /\ [rows[g][s] EXCEPT !.status = "SETTLED", !.charged = n].charged = n
    <3>. TAKE s \in Scopes
    <3>1. rows[g][s] \in RowType
      BY DEF QuotaOK
    <3>. QED BY <3>1, SettledRow
  <2>. QED BY <2>2, <2>3
<1>3. \A h \in Generations : h # g => rows'[h] = rows[h]
  BY DEF QuotaOK, SettleRows
<1>4. ScopesAgree'
  BY <1>2, <1>3 DEF ScopeInvariant, ScopesAgree, Holds
<1>5. FirstHold'
  BY <1>2, <1>3 DEF ScopeInvariant, FirstHold, Holds
<1>6. ReservedOnce'
  BY <1>1, <1>2, <1>3 DEF ScopeInvariant, ReservedOnce, SameCreator
<1>. QED BY <1>4, <1>5, <1>6 DEF ScopeInvariant

\* A step that leaves the rows alone.
LEMMA IdleKeepsScopes ==
    ASSUME ScopeInvariant, UNCHANGED rows, SameCreator
    PROVE  ScopeInvariant'
BY DEF ScopeInvariant, ScopesAgree, FirstHold, ReservedOnce, SameCreator, Holds

LEMMA IdleKeepsQuota ==
    ASSUME QuotaOK, UNCHANGED quota
    PROVE  QuotaOK'
BY DEF QuotaOK, QuotaNeverOverdrawn, quota

-----------------------------------------------------------------------------
(***************************************************************************)
(* Every step keeps the invariant: first the quota rows, then the local    *)
(* states, then the agreement of the scopes.                               *)
(***************************************************************************)
LEMMA StepKeepsQuota ==
    ASSUME QuotaOK, LocalOK, NEW g \in Generations,
           CreatorStep(g) \/ WorkerStep(g) \/ EndJob(g) \/ Close(g)
    PROVE  QuotaOK'
<1>. USE ScopeAssumption, UnitAssumption
<1>1. CASE Reserve(g)
  <2>1. creator[g].next \in Scopes
    BY DEF LocalOK, CreatorType
  <2>. QED BY <1>1, <2>1, ReserveKeepsQuota DEF Reserve
<1>2. CASE FallBack(g)
  BY <1>2, ReleaseKeepsQuota, IdleKeepsQuota DEF FallBack, GiveBack
<1>3. CASE Catch(g)
  BY <1>3, ReleaseKeepsQuota, IdleKeepsQuota DEF Catch, GiveBack
<1>4. CASE ReserveRefused(g) \/ Enqueue(g) \/ CreatorFails(g) \/ CreatorDies(g)
  BY <1>4, IdleKeepsQuota DEF ReserveRefused, Enqueue, CreatorFails, CreatorDies
<1>5. CASE Unreserve(g)
  BY <1>5, ReleaseKeepsQuota, IdleKeepsQuota DEF Unreserve, GiveBack
<1>6. CASE Preauthorize(g)
  <2>1. PICK n \in 0..MaxUsage : IF n = 0 THEN UNCHANGED quota ELSE CanIncrease(g, n) /\ Increase(g, n)
    BY <1>6 DEF Preauthorize
  <2>. QED BY <2>1, IncreaseKeepsQuota, IdleKeepsQuota
<1>7. CASE Extend(g)
  <2>1. PICK n \in 0..MaxSafe : IF n = 0 THEN UNCHANGED quota ELSE CanIncrease(g, n) /\ Increase(g, n)
    BY <1>7 DEF Extend
  <2>. QED BY <2>1, IncreaseKeepsQuota, IdleKeepsQuota
<1>8. CASE Settle(g)
  <2>1. worker[g].total \in Nat
    BY DEF LocalOK, WorkerType
  <2>. QED BY <1>8, <2>1, SettleKeepsQuota DEF Settle
<1>9. CASE Close(g)
  BY <1>9, ReleaseKeepsQuota DEF Close, GiveBack
<1>10. CASE \/ Adopt(g) \/ StartCall(g) \/ CallAbandoned(g) \/ Record(g) \/ CallEnds(g)
            \/ Answer(g) \/ Reconcile(g) \/ RetryLater(g) \/ Crash(g) \/ EndJob(g)
  BY <1>10, IdleKeepsQuota
  DEF Adopt, StartCall, CallAbandoned, Record, CallEnds, Answer, Reconcile, RetryLater, Crash, EndJob
<1>. QED
  BY <1>1, <1>2, <1>3, <1>4, <1>5, <1>6, <1>7, <1>8, <1>9, <1>10 DEF CreatorStep, WorkerStep

LEMMA FailJobType ==
    ASSUME LocalOK, NEW g \in Generations, FailJob(g)
    PROVE  job' \in [Generations -> {"live", "credits", "failed", "settled"}]
BY DEF LocalOK, FailJob

LEMMA StopType ==
    ASSUME LocalOK, NEW g \in Generations, Stop(g)
    PROVE  worker' \in [Generations -> WorkerType]
BY DEF LocalOK, Stop, NoWorker, WorkerType

LEMMA GotoType ==
    ASSUME LocalOK, NEW g \in Generations,
           NEW label \in {"idle", "unreserve", "run", "preauth", "record", "call", "extend", "settle"},
           Goto(g, label)
    PROVE  worker' \in [Generations -> WorkerType]
BY DEF LocalOK, Goto, WorkerType

LEMMA GotoCreatorType ==
    ASSUME LocalOK, NEW g \in Generations,
           NEW label \in {"reserve", "fallback", "enqueue", "catch", "over"},
           GotoCreator(g, label)
    PROVE  creator' \in [Generations -> CreatorType]
BY DEF LocalOK, GotoCreator, CreatorType

LEMMA CallFields ==
    ASSUME NEW call \in CallType, NEW n \in Nat
    PROVE  /\ [call EXCEPT !.status = "RUNNING"] \in CallType
           /\ [call EXCEPT !.status = "FAILED"] \in CallType
           /\ [call EXCEPT !.reserved = n] \in CallType
BY DEF CallType

LEMMA WorkerFields ==
    ASSUME NEW w \in WorkerType, NEW n \in Nat
    PROVE  /\ [w EXCEPT !.pc = "record", !.units = n] \in WorkerType
           /\ [w EXCEPT !.pc = "extend", !.total = n] \in WorkerType
BY DEF WorkerType

LEMMA AbandonCallType ==
    ASSUME LocalOK, NEW g \in Generations, AbandonCall(g)
    PROVE  /\ calls' \in [Generations -> [Calls -> CallType]]
           /\ job' \in [Generations -> {"live", "credits", "failed", "settled"}]
           /\ worker' \in [Generations -> WorkerType]
<1>1. \A c \in Calls : [calls[g][c] EXCEPT !.status = "FAILED"] \in CallType
  <2>. TAKE c \in Calls
  <2>1. calls[g][c] \in CallType
    BY DEF LocalOK
  <2>. QED BY <2>1, CallFields
<1>2. calls' \in [Generations -> [Calls -> CallType]]
  BY <1>1 DEF LocalOK, AbandonCall
<1>. QED BY <1>2, FailJobType, StopType DEF AbandonCall

LEMMA NextScopeType ==
    ASSUME LocalOK, NEW g \in Generations, NextScope(g)
    PROVE  creator' \in [Generations -> CreatorType]
<1>. USE ScopeAssumption DEF Scopes
<1>1. creator[g].next \in Scopes
  BY DEF LocalOK, CreatorType
<1>2. CASE creator[g].next = NScopes
  BY <1>2, GotoCreatorType DEF NextScope
<1>3. CASE creator[g].next # NScopes
  <2>1. creator[g].next + 1 \in Scopes
    BY <1>1, <1>3
  <2>2. creator' = [creator EXCEPT ![g].next = creator[g].next + 1]
    BY <1>3 DEF NextScope
  <2>. QED BY <2>1, <2>2 DEF LocalOK, CreatorType
<1>. QED BY <1>2, <1>3

LEMMA CreatorKeepsLocal ==
    ASSUME LocalOK, NEW g \in Generations, CreatorStep(g)
    PROVE  LocalOK'
<1>1. CASE Reserve(g)
  <2>1. CASE NextScope(g) /\ UNCHANGED job
    BY <1>1, <2>1, NextScopeType DEF Reserve, LocalOK
  <2>2. CASE EnterCatch(g)
    BY <1>1, <2>2, GotoCreatorType, FailJobType DEF Reserve, EnterCatch, LocalOK
  <2>. QED BY <1>1, <2>1, <2>2 DEF Reserve
<1>2. CASE ReserveRefused(g)
  BY <1>2, GotoCreatorType DEF ReserveRefused, LocalOK
<1>3. CASE FallBack(g)
  <2>1. creator' \in [Generations -> CreatorType]
    BY <1>3, GotoCreatorType DEF FallBack, LocalOK
  <2>. QED BY <1>3, <2>1 DEF FallBack, LocalOK
<1>4. CASE Enqueue(g)
  BY <1>4, GotoCreatorType DEF Enqueue, LocalOK
<1>5. CASE CreatorFails(g)
  BY <1>5, GotoCreatorType, FailJobType DEF CreatorFails, EnterCatch, LocalOK
<1>6. CASE Catch(g)
  BY <1>6, GotoCreatorType DEF Catch, LocalOK
<1>7. CASE CreatorDies(g)
  BY <1>7, GotoCreatorType DEF CreatorDies, LocalOK
<1>. QED BY <1>1, <1>2, <1>3, <1>4, <1>5, <1>6, <1>7 DEF CreatorStep

LEMMA CallsKeepLocal ==
    ASSUME LocalOK, NEW g \in Generations,
           StartCall(g) \/ Preauthorize(g) \/ CallAbandoned(g) \/ Record(g) \/ CallEnds(g)
    PROVE  LocalOK'
<1>. USE UnitAssumption
<1>1. CASE StartCall(g)
  <2>1. PICK c \in Calls :
            /\ calls' = [calls EXCEPT ![g][c].status = "RUNNING"]
            /\ worker' = [worker EXCEPT ![g].pc = "preauth", ![g].call = {c}]
    BY <1>1 DEF StartCall
  <2>2. calls' \in [Generations -> [Calls -> CallType]]
    <3>1. calls[g][c] \in CallType
      BY DEF LocalOK
    <3>2. calls' = [calls EXCEPT ![g] = [calls[g] EXCEPT ![c] = [calls[g][c] EXCEPT !.status = "RUNNING"]]]
      BY <2>1
    <3>3. [calls[g] EXCEPT ![c] = [calls[g][c] EXCEPT !.status = "RUNNING"]] \in [Calls -> CallType]
      BY <3>1, CallFields DEF LocalOK
    <3>. QED BY <3>2, <3>3 DEF LocalOK
  <2>3. worker' \in [Generations -> WorkerType]
    BY <2>1 DEF LocalOK, WorkerType
  <2>. QED BY <1>1, <2>2, <2>3 DEF StartCall, LocalOK
<1>2. CASE Preauthorize(g)
  <2>1. PICK n \in 0..MaxUsage :
            \/ worker' = [worker EXCEPT ![g].pc = "record", ![g].units = n] /\ UNCHANGED <<calls, job>>
            \/ AbandonCall(g)
    BY <1>2 DEF Preauthorize
  <2>2. CASE worker' = [worker EXCEPT ![g].pc = "record", ![g].units = n] /\ UNCHANGED <<calls, job>>
    <3>1. worker' \in [Generations -> WorkerType]
      <4>1. worker' = [worker EXCEPT ![g] = [worker[g] EXCEPT !.pc = "record", !.units = n]]
        BY <2>2 DEF LocalOK, WorkerType
      <4>2. worker[g] \in WorkerType /\ n \in Nat
        BY DEF LocalOK
      <4>3. [worker[g] EXCEPT !.pc = "record", !.units = n] \in WorkerType
        BY <4>2, WorkerFields
      <4>. QED BY <4>1, <4>3 DEF LocalOK
    <3>. QED BY <1>2, <2>2, <3>1 DEF Preauthorize, LocalOK
  <2>3. CASE AbandonCall(g)
    BY <1>2, <2>3, AbandonCallType DEF Preauthorize, LocalOK
  <2>. QED BY <2>1, <2>2, <2>3
<1>3. CASE CallAbandoned(g)
  BY <1>3, AbandonCallType DEF CallAbandoned, LocalOK
<1>4. CASE Record(g)
  <2>1. worker[g].units \in Nat
    BY DEF LocalOK, WorkerType
  <2>2. \A c \in Calls : [calls[g][c] EXCEPT !.reserved = worker[g].units] \in CallType
    <3>. TAKE c \in Calls
    <3>1. calls[g][c] \in CallType
      BY DEF LocalOK
    <3>. QED BY <2>1, <3>1, CallFields
  <2>3. calls' \in [Generations -> [Calls -> CallType]]
    BY <1>4, <2>2 DEF LocalOK, Record
  <2>. QED BY <1>4, <2>3, GotoType DEF Record, LocalOK
<1>5. CASE CallEnds(g)
  <2>1. worker[g].units \in Nat
    BY DEF LocalOK, WorkerType
  <2>2. PICK outcome \in CallType :
            calls' = [calls EXCEPT ![g] = [c \in Calls |-> IF c \in worker[g].call THEN outcome ELSE @[c]]]
    <3>1. [status : {"SUCCEEDED"}, reserved : {worker[g].units}, charged : 0..MaxUsage] \subseteq CallType
      BY <2>1 DEF CallType
    <3>2. [status : {"FAILED"}, reserved : {worker[g].units}, charged : {0}] \subseteq CallType
      BY <2>1 DEF CallType
    <3>. QED BY <1>5, <3>1, <3>2 DEF CallEnds
  <2>3. calls' \in [Generations -> [Calls -> CallType]]
    BY <2>2 DEF LocalOK
  <2>4. worker' \in [Generations -> WorkerType]
    BY <1>5 DEF CallEnds, LocalOK, NoWorker, WorkerType
  <2>. QED BY <1>5, <2>3, <2>4 DEF CallEnds, LocalOK
<1>. QED BY <1>1, <1>2, <1>3, <1>4, <1>5

LEMMA WorkerKeepsLocal ==
    ASSUME LocalOK, NEW g \in Generations, WorkerStep(g)
    PROVE  LocalOK'
<1>. USE UnitAssumption
<1>1. CASE Adopt(g)
  BY <1>1, GotoType DEF Adopt, LocalOK
<1>2. CASE Unreserve(g)
  BY <1>2, FailJobType, StopType DEF Unreserve, LocalOK
<1>3. CASE StartCall(g) \/ Preauthorize(g) \/ CallAbandoned(g) \/ Record(g) \/ CallEnds(g)
  BY <1>3, CallsKeepLocal
<1>4. CASE Answer(g)
  <2>1. CASE FailJob(g) /\ Stop(g)
    BY <1>4, <2>1, FailJobType, StopType DEF Answer, LocalOK
  <2>2. CASE \E total \in 0..MaxSafe :
                /\ worker' = [worker EXCEPT ![g].pc = "extend", ![g].total = total]
                /\ UNCHANGED job
    <3>1. worker' \in [Generations -> WorkerType]
      <4>1. PICK total \in 0..MaxSafe :
                worker' = [worker EXCEPT ![g].pc = "extend", ![g].total = total]
        BY <2>2
      <4>2. worker' = [worker EXCEPT ![g] = [worker[g] EXCEPT !.pc = "extend", !.total = total]]
        BY <4>1 DEF LocalOK, WorkerType
      <4>3. worker[g] \in WorkerType /\ total \in Nat
        BY DEF LocalOK
      <4>4. [worker[g] EXCEPT !.pc = "extend", !.total = total] \in WorkerType
        BY <4>3, WorkerFields
      <4>. QED BY <4>2, <4>4 DEF LocalOK
    <3>. QED BY <1>4, <2>2, <3>1 DEF Answer, LocalOK
  <2>. QED BY <1>4, <2>1, <2>2 DEF Answer
<1>5. CASE Extend(g)
  BY <1>5, GotoType, FailJobType, StopType DEF Extend, LocalOK
<1>6. CASE Settle(g)
  BY <1>6, StopType DEF Settle, LocalOK
<1>7. CASE Reconcile(g)
  BY <1>7, FailJobType, StopType DEF Reconcile, LocalOK
<1>8. CASE RetryLater(g)
  BY <1>8, StopType DEF RetryLater, LocalOK
<1>9. CASE Crash(g)
  BY <1>9, FailJobType, StopType DEF Crash, LocalOK
<1>. QED BY <1>1, <1>2, <1>3, <1>4, <1>5, <1>6, <1>7, <1>8, <1>9 DEF WorkerStep

LEMMA StepKeepsLocal ==
    ASSUME LocalOK, NEW g \in Generations,
           CreatorStep(g) \/ WorkerStep(g) \/ EndJob(g) \/ Close(g)
    PROVE  LocalOK'
<1>1. CASE EndJob(g)
  BY <1>1, FailJobType DEF EndJob, LocalOK
<1>2. CASE Close(g)
  BY <1>2 DEF Close, LocalOK
<1>. QED BY <1>1, <1>2, CreatorKeepsLocal, WorkerKeepsLocal

-----------------------------------------------------------------------------
LEMMA GotoCreatorMovesOn ==
    ASSUME LocalOK, NEW g \in Generations, NEW label, label # "reserve", GotoCreator(g, label)
    PROVE  SameCreator
BY DEF LocalOK, GotoCreator, CreatorType, SameCreator

LEMMA StillCreator ==
    ASSUME UNCHANGED creator
    PROVE  SameCreator
BY DEF SameCreator

\* create() reserves the next scope: no later scope has a row, and a hold in
\* an earlier one is the first hold.
LEMMA ReserveKeepsScopes ==
    ASSUME QuotaOK, LocalOK, ScopeInvariant, NEW g \in Generations, Reserve(g)
    PROVE  ScopeInvariant'
<1>. DEFINE s == creator[g].next
            row == [status |-> "RESERVED", units |-> Units, charged |-> 0]
<1>1. /\ s \in Scopes
      /\ creator[g].pc = "reserve"
  BY DEF LocalOK, CreatorType, Reserve
<1>2. rows' = [rows EXCEPT ![g][s] = row]
  BY DEF Reserve
<1>3. rows[g][s].status = "none"
  BY <1>1, ScopeAssumption DEF ScopeInvariant, ReservedOnce, Scopes
<1>4. rows'[g][s].status = "RESERVED" /\ rows'[g][s].units = Units
  BY <1>1, <1>2 DEF QuotaOK
<1>5. \A h \in Generations, r \in Scopes : ~(h = g /\ r = s) => rows'[h][r] = rows[h][r]
  BY <1>1, <1>2 DEF QuotaOK
<1>6. \A r \in Scopes : rows[g][r].status # "SETTLED"
  BY <1>1, <1>3 DEF ScopeInvariant, ScopesAgree
<1>7. \A r \in Scopes : Holds(g, r) => rows[g][r].units = Units
  BY <1>1, <1>3 DEF ScopeInvariant, FirstHold
<1>. HIDE DEF s, row
<1>8. ScopesAgree'
  <2>. SUFFICES ASSUME NEW h \in Generations, NEW r \in Scopes, NEW q \in Scopes
                PROVE  /\ Holds(h, r)' /\ Holds(h, q)' => rows'[h][r].units = rows'[h][q].units
                       /\ rows'[h][r].status = "SETTLED" =>
                             rows'[h][q].status = "SETTLED" /\ rows'[h][q].charged = rows'[h][r].charged
    BY DEF ScopesAgree
  <2>1. CASE h = g
    <3>1. \A p \in Scopes : Holds(g, p)' => rows'[g][p].units = Units
      BY <1>4, <1>5, <1>7 DEF Holds
    <3>2. \A p \in Scopes : rows'[g][p].status # "SETTLED"
      BY <1>4, <1>5, <1>6
    <3>. QED BY <2>1, <3>1, <3>2
  <2>2. CASE h # g
    BY <1>5, <2>2 DEF ScopeInvariant, ScopesAgree, Holds
  <2>. QED BY <2>1, <2>2
<1>9. FirstHold'
  BY <1>4, <1>5 DEF ScopeInvariant, FirstHold, Holds
<1>10. ReservedOnce'
  <2>. SUFFICES ASSUME NEW h \in Generations, NEW r \in Scopes,
                       creator'[h].pc = "reserve", r >= creator'[h].next
                PROVE  rows'[h][r].status = "none"
    BY DEF ReservedOnce
  <2>1. CASE h = g
    <3>1. ~EnterCatch(g)
      BY <2>1 DEF EnterCatch, GotoCreator, LocalOK, CreatorType
    <3>2. NextScope(g)
      BY <3>1 DEF Reserve
    <3>3. s # NScopes
      BY <2>1, <3>2 DEF NextScope, GotoCreator, LocalOK, CreatorType, s
    <3>4. creator'[g].next = s + 1
      BY <3>2, <3>3 DEF NextScope, LocalOK, CreatorType, s
    <3>5. r >= s /\ r # s
      BY <1>1, <2>1, <3>4, ScopeAssumption DEF Scopes
    <3>. QED BY <1>1, <1>5, <2>1, <3>5 DEF ScopeInvariant, ReservedOnce, s
  <2>2. CASE h # g
    <3>1. creator'[h] = creator[h]
      BY <2>2 DEF Reserve, NextScope, EnterCatch, GotoCreator, LocalOK
    <3>. QED BY <1>5, <2>2, <3>1 DEF ScopeInvariant, ReservedOnce
  <2>. QED BY <2>1, <2>2
<1>. QED BY <1>8, <1>9, <1>10 DEF ScopeInvariant

LEMMA StepKeepsScopes ==
    ASSUME QuotaOK, LocalOK, ScopeInvariant, NEW g \in Generations,
           CreatorStep(g) \/ WorkerStep(g) \/ EndJob(g) \/ Close(g)
    PROVE  ScopeInvariant'
<1>. USE UnitAssumption
<1>1. CASE Reserve(g)
  BY <1>1, ReserveKeepsScopes
<1>2. CASE ReserveRefused(g) \/ Enqueue(g) \/ CreatorFails(g) \/ CreatorDies(g)
  BY <1>2, GotoCreatorMovesOn, IdleKeepsScopes
  DEF ReserveRefused, Enqueue, CreatorFails, EnterCatch, CreatorDies, quota
<1>3. CASE FallBack(g)
  BY <1>3, GotoCreatorMovesOn, StillCreator, ReleaseKeepsScopes, IdleKeepsScopes DEF FallBack, GiveBack, quota
<1>4. CASE Catch(g)
  BY <1>4, GotoCreatorMovesOn, StillCreator, ReleaseKeepsScopes, IdleKeepsScopes DEF Catch, GiveBack, quota
<1>5. CASE Unreserve(g)
  BY <1>5, StillCreator, ReleaseKeepsScopes, IdleKeepsScopes DEF Unreserve, GiveBack, quota
<1>6. CASE Preauthorize(g)
  <2>1. PICK n \in 0..MaxUsage : IF n = 0 THEN UNCHANGED quota ELSE CanIncrease(g, n) /\ Increase(g, n)
    BY <1>6 DEF Preauthorize
  <2>2. SameCreator
    BY <1>6, StillCreator DEF Preauthorize
  <2>. QED BY <2>1, <2>2, IncreaseKeepsScopes, IdleKeepsScopes DEF quota
<1>7. CASE Extend(g)
  <2>1. PICK n \in 0..MaxSafe : IF n = 0 THEN UNCHANGED quota ELSE CanIncrease(g, n) /\ Increase(g, n)
    BY <1>7 DEF Extend
  <2>2. SameCreator
    BY <1>7, StillCreator DEF Extend
  <2>. QED BY <2>1, <2>2, IncreaseKeepsScopes, IdleKeepsScopes DEF quota
<1>8. CASE Settle(g)
  <2>1. worker[g].total \in Nat
    BY DEF LocalOK, WorkerType
  <2>2. SameCreator
    BY <1>8, StillCreator DEF Settle
  <2>. QED BY <1>8, <2>1, <2>2, SettleKeepsScopes DEF Settle
<1>9. CASE Close(g)
  BY <1>9, StillCreator, ReleaseKeepsScopes DEF Close, GiveBack
<1>10. CASE \/ Adopt(g) \/ StartCall(g) \/ CallAbandoned(g) \/ Record(g) \/ CallEnds(g)
            \/ Answer(g) \/ Reconcile(g) \/ RetryLater(g) \/ Crash(g) \/ EndJob(g)
  BY <1>10, StillCreator, IdleKeepsScopes
  DEF Adopt, StartCall, CallAbandoned, Record, CallEnds, Answer, Reconcile, RetryLater, Crash, EndJob, quota
<1>. QED
  BY <1>1, <1>2, <1>3, <1>4, <1>5, <1>6, <1>7, <1>8, <1>9, <1>10 DEF CreatorStep, WorkerStep

-----------------------------------------------------------------------------
LEMMA InitInv ==
    ASSUME Init
    PROVE  Inv
<1>. USE ScopeAssumption, UnitAssumption
<1>1. QuotaOK
  BY DEF Init, QuotaOK, QuotaNeverOverdrawn, NoRow, RowType
<1>2. LocalOK
  <2>1. 1 \in Scopes
    BY FirstScope
  <2>. QED BY <2>1 DEF Init, LocalOK, NoCall, NoWorker, CallType, CreatorType, WorkerType
<1>3. ScopeInvariant
  BY DEF Init, ScopeInvariant, ScopesAgree, FirstHold, ReservedOnce, NoRow, Holds
<1>. QED BY <1>1, <1>2, <1>3 DEF Inv

LEMMA NextInv ==
    ASSUME Inv, [Next]_vars
    PROVE  Inv'
<1>1. CASE Next
  <2>1. PICK g \in Generations : CreatorStep(g) \/ WorkerStep(g) \/ EndJob(g) \/ Close(g)
    BY <1>1 DEF Next
  <2>. QED BY <2>1, StepKeepsQuota, StepKeepsLocal, StepKeepsScopes DEF Inv
<1>2. CASE UNCHANGED vars
  <2>1. QuotaOK' /\ LocalOK'
    BY <1>2, IdleKeepsQuota DEF Inv, LocalOK, vars, quota
  <2>2. ScopeInvariant'
    BY <1>2, StillCreator, IdleKeepsScopes DEF Inv, vars
  <2>. QED BY <2>1, <2>2 DEF Inv
<1>. QED BY <1>1, <1>2

\* The inductive invariant of the quota protocol: typed rows within the plan,
\* typed processes, and scopes that agree.
THEOREM QuotaInvariant == Spec => []Inv
BY InitInv, NextInv, PTL DEF Spec

\* The rows of token-quota.service.ts and the variables of its callers stay
\* typed; in particular no counter of a quota row ever falls below zero.
THEOREM QuotaTypeCorrect == Spec => []TypeOK
<1>1. Inv => TypeOK
  BY DEF Inv, QuotaOK, LocalOK, TypeOK
<1>. QED BY <1>1, QuotaInvariant, PTL

\* However the chats of a user interleave, fail and crash, what they have used
\* and hold stays within the plan, in the month and in the day: reserve and
\* increase test the limit, a settlement charges above its hold only what is left.
THEOREM NeverOverdrawn == Spec => []QuotaNeverOverdrawn
<1>1. Inv => QuotaNeverOverdrawn
  BY DEF Inv, QuotaOK
<1>. QED BY <1>1, QuotaInvariant, PTL

\* The scopes of a chat hold equal units whenever both are held, and are
\* settled together for the same charge.
THEOREM MonthAndDayAgree == Spec => []ScopesAgree
<1>1. Inv => ScopesAgree
  BY DEF Inv, ScopeInvariant
<1>. QED BY <1>1, QuotaInvariant, PTL

-----------------------------------------------------------------------------
(***************************************************************************)
(* The counters add up.  What each transaction leaves of the rows of its   *)
(* chat comes first: it is used here and below.                            *)
(***************************************************************************)
ChargesOK == \A g \in Generations, s \in Scopes : rows[g][s].status # "SETTLED" => rows[g][s].charged = 0

OtherRowsStay(g) == \A h \in Generations : h # g => rows'[h] = rows[h]

LEMMA ReservedRows ==
    ASSUME QuotaOK, NEW g \in Generations, NEW s \in Scopes,
           rows' = [rows EXCEPT ![g][s] = [status |-> "RESERVED", units |-> Units, charged |-> 0]]
    PROVE  /\ OtherRowsStay(g)
           /\ \A r \in Scopes : r # s => rows'[g][r] = rows[g][r]
           /\ rows'[g][s] = [status |-> "RESERVED", units |-> Units, charged |-> 0]
BY DEF QuotaOK, OtherRowsStay

LEMMA IncreasedRows ==
    ASSUME QuotaOK, NEW g \in Generations, NEW n \in Nat, Increase(g, n)
    PROVE  /\ OtherRowsStay(g)
           /\ \A s \in Scopes : /\ rows'[g][s].status = rows[g][s].status
                                /\ rows'[g][s].units = rows[g][s].units + n
                                /\ rows'[g][s].charged = rows[g][s].charged
<1>1. rows' = [rows EXCEPT ![g] = [s \in Scopes |-> [rows[g][s] EXCEPT !.units = @ + n]]]
  BY DEF Increase
<1>2. \A s \in Scopes : rows'[g][s] = [rows[g][s] EXCEPT !.units = @ + n] /\ rows[g][s] \in RowType
  BY <1>1 DEF QuotaOK
<1>3. OtherRowsStay(g)
  BY <1>1 DEF QuotaOK, OtherRowsStay
<1>4. ASSUME NEW s \in Scopes
      PROVE  /\ rows'[g][s].status = rows[g][s].status
             /\ rows'[g][s].units = rows[g][s].units + n
             /\ rows'[g][s].charged = rows[g][s].charged
  <2>. DEFINE row == rows[g][s]
  <2>1. row \in RowType /\ rows'[g][s] = [row EXCEPT !.units = @ + n]
    BY <1>2
  <2>. HIDE DEF row
  <2>. QED
    BY <2>1, RaisedRow DEF row
<1>. QED
  BY <1>3, <1>4

LEMMA ReleasedRows ==
    ASSUME QuotaOK, NEW g \in Generations, NEW s \in Scopes, Release(g, s)
    PROVE  \/ UNCHANGED quota
           \/ /\ OtherRowsStay(g) /\ UNCHANGED used /\ Holds(g, s)
              /\ reserved' = [reserved EXCEPT ![s] = @ - rows[g][s].units]
              /\ \A r \in Scopes : r # s => rows'[g][r] = rows[g][r]
              /\ rows'[g][s].status = "RELEASED"
              /\ rows'[g][s].units = rows[g][s].units
              /\ rows'[g][s].charged = rows[g][s].charged
<1>1. CASE Holds(g, s) /\ reserved[s] >= rows[g][s].units
  <2>1. rows' = [rows EXCEPT ![g][s].status = "RELEASED"]
    BY <1>1 DEF Release
  <2>2. OtherRowsStay(g) /\ \A r \in Scopes : r # s => rows'[g][r] = rows[g][r]
    BY <2>1 DEF QuotaOK, OtherRowsStay
  <2>3. rows'[g][s] = [rows[g][s] EXCEPT !.status = "RELEASED"] /\ rows[g][s] \in RowType
    BY <2>1 DEF QuotaOK
  <2>4. /\ rows'[g][s].status = "RELEASED"
        /\ rows'[g][s].units = rows[g][s].units
        /\ rows'[g][s].charged = rows[g][s].charged
    BY <2>3 DEF RowType
  <2>. QED
    BY <1>1, <2>2, <2>4 DEF Release
<1>2. CASE ~(Holds(g, s) /\ reserved[s] >= rows[g][s].units)
  BY <1>2 DEF Release, quota
<1>. QED
  BY <1>1, <1>2

LEMMA SettledRows ==
    ASSUME QuotaOK, NEW g \in Generations, NEW n \in Nat, SettleRows(g, n)
    PROVE  /\ OtherRowsStay(g)
           /\ \A s \in Scopes : /\ rows'[g][s].status = "SETTLED"
                                /\ rows'[g][s].units = rows[g][s].units
                                /\ rows'[g][s].charged = n
<1>1. rows' = [rows EXCEPT ![g] = [s \in Scopes |->
                  [rows[g][s] EXCEPT !.status = "SETTLED", !.charged = n]]]
  BY DEF SettleRows
<1>2. \A s \in Scopes : /\ rows'[g][s] = [rows[g][s] EXCEPT !.status = "SETTLED", !.charged = n]
                        /\ rows[g][s] \in RowType
  BY <1>1 DEF QuotaOK
<1>3. OtherRowsStay(g)
  BY <1>1 DEF QuotaOK, OtherRowsStay
<1>4. ASSUME NEW s \in Scopes
      PROVE  /\ rows'[g][s].status = "SETTLED"
             /\ rows'[g][s].units = rows[g][s].units
             /\ rows'[g][s].charged = n
  <2>. DEFINE row == rows[g][s]
  <2>1. row \in RowType /\ rows'[g][s] = [row EXCEPT !.status = "SETTLED", !.charged = n]
    BY <1>2
  <2>. HIDE DEF row
  <2>. QED
    BY <2>1 DEF row, RowType
<1>. QED
  BY <1>3, <1>4

\* What a chat has under way and has used are numbers.
LEMMA Summands ==
    ASSUME QuotaOK, NEW s \in Scopes
    PROVE  HeldUnits(s) \in [Generations -> Nat] /\ ChargedUnits(s) \in [Generations -> Nat]
<1>1. \A g \in Generations : rows[g][s].units \in Nat /\ rows[g][s].charged \in Nat
  BY DEF QuotaOK, RowType
<1>. QED
  BY <1>1 DEF HeldUnits, ChargedUnits

\* A transaction that writes the rows of one chat, and moves the counters by
\* what these rows change, keeps the sums.
LEMMA RowsAddUp ==
    ASSUME QuotaOK, QuotaOK', CountersAddUp, NEW g \in Generations, OtherRowsStay(g),
           \A s \in Scopes : /\ reserved'[s] + HeldUnits(s)[g] = reserved[s] + HeldUnits(s)'[g]
                             /\ used'[s] + ChargedUnits(s)[g] = used[s] + ChargedUnits(s)'[g]
    PROVE  CountersAddUp'
<1>. SUFFICES ASSUME NEW s \in Scopes
              PROVE  /\ reserved'[s] = Total(HeldUnits(s)', Generations)
                     /\ used'[s] = Total(ChargedUnits(s)', Generations)
  BY DEF CountersAddUp
<1>1. /\ HeldUnits(s) \in [Generations -> Nat] /\ ChargedUnits(s) \in [Generations -> Nat]
      /\ HeldUnits(s)' \in [Generations -> Nat] /\ ChargedUnits(s)' \in [Generations -> Nat]
  <2>1. HeldUnits(s)' \in [Generations -> Nat] /\ ChargedUnits(s)' \in [Generations -> Nat]
    <3>1. \A h \in Generations : rows'[h][s].units \in Nat /\ rows'[h][s].charged \in Nat
      BY DEF QuotaOK, RowType
    <3>. QED
      BY <3>1 DEF HeldUnits, ChargedUnits
  <2>. QED
    BY <2>1, Summands
<1>2. \A h \in Generations : h # g => /\ HeldUnits(s)'[h] = HeldUnits(s)[h]
                                      /\ ChargedUnits(s)'[h] = ChargedUnits(s)[h]
  BY DEF OtherRowsStay, HeldUnits, ChargedUnits, Holds
<1>3. /\ reserved[s] = Total(HeldUnits(s), Generations) /\ used[s] = Total(ChargedUnits(s), Generations)
      /\ reserved'[s] \in Nat /\ used'[s] \in Nat
  BY DEF CountersAddUp, QuotaOK
<1>. DEFINE f == HeldUnits(s)
            e == HeldUnits(s)'
            c == ChargedUnits(s)
            d == ChargedUnits(s)'
<1>4. IsFiniteSet(Generations)
  BY TableAssumption
<1>5. Total(e, Generations) + f[g] = Total(f, Generations) + e[g]
  <2>. HIDE DEF e, f
  <2>1. f \in [Generations -> Nat] /\ e \in [Generations -> Nat]
    BY <1>1 DEF e, f
  <2>2. \A h \in Generations : h # g => e[h] = f[h]
    BY <1>2 DEF e, f
  <2>. QED
    BY <1>4, <2>1, <2>2, TotalChanges
<1>6. Total(d, Generations) + c[g] = Total(c, Generations) + d[g]
  <2>. HIDE DEF c, d
  <2>1. c \in [Generations -> Nat] /\ d \in [Generations -> Nat]
    BY <1>1 DEF c, d
  <2>2. \A h \in Generations : h # g => d[h] = c[h]
    BY <1>2 DEF c, d
  <2>. QED
    BY <1>4, <2>1, <2>2, TotalChanges
<1>7. /\ Total(e, Generations) \in Nat /\ Total(d, Generations) \in Nat
      /\ f[g] \in Nat /\ c[g] \in Nat
  BY <1>1, <1>4, TotalIsNumber
<1>8. /\ reserved'[s] + f[g] = Total(e, Generations) + f[g]
      /\ used'[s] + c[g] = Total(d, Generations) + c[g]
  BY <1>3, <1>5, <1>6
<1>. HIDE DEF f, e, c, d
<1>9. reserved'[s] = Total(e, Generations) /\ used'[s] = Total(d, Generations)
  BY <1>3, <1>7, <1>8
<1>. QED
  BY <1>9 DEF e, d

LEMMA ReserveAddsUp ==
    ASSUME QuotaOK, QuotaOK', ChargesOK, CountersAddUp,
           NEW g \in Generations, NEW s \in Scopes, rows[g][s].status = "none",
           reserved' = [reserved EXCEPT ![s] = @ + Units],
           rows' = [rows EXCEPT ![g][s] = [status |-> "RESERVED", units |-> Units, charged |-> 0]],
           UNCHANGED used
    PROVE  ChargesOK' /\ CountersAddUp'
<1>1. /\ OtherRowsStay(g)
      /\ \A r \in Scopes : r # s => rows'[g][r] = rows[g][r]
      /\ rows'[g][s] = [status |-> "RESERVED", units |-> Units, charged |-> 0]
  BY ReservedRows
<1>2. ChargesOK'
  BY <1>1 DEF ChargesOK, OtherRowsStay
<1>3. ASSUME NEW r \in Scopes
      PROVE  /\ reserved'[r] + HeldUnits(r)[g] = reserved[r] + HeldUnits(r)'[g]
             /\ used'[r] + ChargedUnits(r)[g] = used[r] + ChargedUnits(r)'[g]
  <2>1. /\ reserved[r] \in Nat /\ Units \in Nat
        /\ ChargedUnits(r)[g] = rows[g][r].charged /\ ChargedUnits(r)'[g] = rows'[g][r].charged
    BY UnitAssumption DEF QuotaOK, ChargedUnits
  <2>2. CASE r = s
    <3>1. HeldUnits(r)[g] = 0 /\ HeldUnits(r)'[g] = Units /\ reserved'[r] = reserved[r] + Units
      BY <1>1, <2>2 DEF HeldUnits, Holds, QuotaOK
    <3>2. rows[g][r].charged = 0 /\ rows'[g][r].charged = 0
      BY <1>1, <2>2 DEF ChargesOK
    <3>. QED
      BY <2>1, <3>1, <3>2
  <2>3. CASE r # s
    <3>1. HeldUnits(r)'[g] = HeldUnits(r)[g] /\ reserved'[r] = reserved[r]
      BY <1>1, <2>3 DEF HeldUnits, Holds, QuotaOK
    <3>2. rows'[g][r].charged = rows[g][r].charged
      BY <1>1, <2>3
    <3>. QED
      BY <2>1, <3>1, <3>2
  <2>. QED
    BY <2>2, <2>3
<1>. QED
  BY <1>1, <1>2, <1>3, RowsAddUp

LEMMA IncreaseAddsUp ==
    ASSUME QuotaOK, QuotaOK', ChargesOK, CountersAddUp,
           NEW g \in Generations, NEW n \in Nat, CanIncrease(g, n), Increase(g, n)
    PROVE  ChargesOK' /\ CountersAddUp'
<1>1. /\ OtherRowsStay(g)
      /\ \A s \in Scopes : /\ rows'[g][s].status = rows[g][s].status
                           /\ rows'[g][s].units = rows[g][s].units + n
                           /\ rows'[g][s].charged = rows[g][s].charged
  BY IncreasedRows
<1>2. ChargesOK'
  BY <1>1 DEF ChargesOK, OtherRowsStay
<1>3. ASSUME NEW s \in Scopes
      PROVE  /\ reserved'[s] + HeldUnits(s)[g] = reserved[s] + HeldUnits(s)'[g]
             /\ used'[s] + ChargedUnits(s)[g] = used[s] + ChargedUnits(s)'[g]
  <2>1. /\ reserved[s] \in Nat /\ rows[g][s].units \in Nat
        /\ ChargedUnits(s)[g] = rows[g][s].charged /\ ChargedUnits(s)'[g] = rows'[g][s].charged
    BY DEF QuotaOK, RowType, ChargedUnits
  <2>2. HeldUnits(s)[g] = rows[g][s].units /\ HeldUnits(s)'[g] = rows[g][s].units + n
    BY <1>1 DEF CanIncrease, Holds, HeldUnits
  <2>3. reserved'[s] = reserved[s] + n /\ used'[s] = used[s]
    BY DEF Increase
  <2>. QED
    BY <1>1, <2>1, <2>2, <2>3
<1>. QED
  BY <1>1, <1>2, <1>3, RowsAddUp

LEMMA IdleAddsUp ==
    ASSUME ChargesOK, CountersAddUp, UNCHANGED quota
    PROVE  ChargesOK' /\ CountersAddUp'
<1>1. used' = used /\ reserved' = reserved /\ rows' = rows
  BY DEF quota
<1>2. ChargesOK'
  BY <1>1 DEF ChargesOK
<1>3. \A s \in Scopes : HeldUnits(s)' = HeldUnits(s) /\ ChargedUnits(s)' = ChargedUnits(s)
  BY <1>1 DEF HeldUnits, ChargedUnits, Holds
<1>4. CountersAddUp'
  <2>. SUFFICES ASSUME NEW s \in Scopes
                PROVE  /\ reserved'[s] = Total(HeldUnits(s)', Generations)
                       /\ used'[s] = Total(ChargedUnits(s)', Generations)
    BY DEF CountersAddUp
  <2>. QED
    BY <1>1, <1>3 DEF CountersAddUp
<1>. QED
  BY <1>2, <1>4

LEMMA ReleaseAddsUp ==
    ASSUME QuotaOK, QuotaOK', ChargesOK, CountersAddUp,
           NEW g \in Generations, NEW s \in Scopes, Release(g, s)
    PROVE  ChargesOK' /\ CountersAddUp'
<1>1. CASE UNCHANGED quota
  BY <1>1, IdleAddsUp
<1>2. CASE ~(UNCHANGED quota)
  <2>1. /\ OtherRowsStay(g) /\ UNCHANGED used /\ Holds(g, s)
        /\ reserved' = [reserved EXCEPT ![s] = @ - rows[g][s].units]
        /\ \A r \in Scopes : r # s => rows'[g][r] = rows[g][r]
        /\ rows'[g][s].status = "RELEASED"
        /\ rows'[g][s].units = rows[g][s].units
        /\ rows'[g][s].charged = rows[g][s].charged
    BY <1>2, ReleasedRows
  <2>2. ChargesOK'
    BY <2>1 DEF ChargesOK, OtherRowsStay, Holds
  <2>3. ASSUME NEW r \in Scopes
        PROVE  /\ reserved'[r] + HeldUnits(r)[g] = reserved[r] + HeldUnits(r)'[g]
               /\ used'[r] + ChargedUnits(r)[g] = used[r] + ChargedUnits(r)'[g]
    <3>1. /\ reserved[r] \in Nat /\ rows[g][r].units \in Nat
          /\ ChargedUnits(r)[g] = rows[g][r].charged /\ ChargedUnits(r)'[g] = rows'[g][r].charged
      BY DEF QuotaOK, RowType, ChargedUnits
    <3>2. CASE r = s
      <4>1. /\ HeldUnits(r)[g] = rows[g][r].units /\ HeldUnits(r)'[g] = 0
            /\ reserved'[r] = reserved[r] - rows[g][r].units
        BY <2>1, <3>2 DEF HeldUnits, Holds, QuotaOK
      <4>. QED
        BY <2>1, <3>1, <3>2, <4>1
    <3>3. CASE r # s
      <4>1. HeldUnits(r)'[g] = HeldUnits(r)[g] /\ reserved'[r] = reserved[r]
        BY <2>1, <3>3 DEF HeldUnits, Holds, QuotaOK
      <4>. QED
        BY <2>1, <3>1, <3>3, <4>1
    <3>. QED
      BY <3>2, <3>3
  <2>. QED
    BY <2>1, <2>2, <2>3, RowsAddUp
<1>. QED
  BY <1>1, <1>2

LEMMA SettleAddsUp ==
    ASSUME QuotaOK, QuotaOK', ChargesOK, CountersAddUp,
           NEW g \in Generations, NEW n \in Nat, CanSettle(g, n), SettleRows(g, n)
    PROVE  ChargesOK' /\ CountersAddUp'
<1>1. /\ OtherRowsStay(g)
      /\ \A s \in Scopes : /\ rows'[g][s].status = "SETTLED"
                           /\ rows'[g][s].units = rows[g][s].units
                           /\ rows'[g][s].charged = n
  BY SettledRows
<1>2. ChargesOK'
  BY <1>1 DEF ChargesOK, OtherRowsStay
<1>3. ASSUME NEW s \in Scopes
      PROVE  /\ reserved'[s] + HeldUnits(s)[g] = reserved[s] + HeldUnits(s)'[g]
             /\ used'[s] + ChargedUnits(s)[g] = used[s] + ChargedUnits(s)'[g]
  <2>1. /\ reserved[s] \in Nat /\ used[s] \in Nat /\ rows[g][s].units \in Nat
        /\ ChargedUnits(s)[g] = rows[g][s].charged /\ ChargedUnits(s)'[g] = rows'[g][s].charged
    BY DEF QuotaOK, RowType, ChargedUnits
  <2>2. Holds(g, s) /\ rows[g][s].charged = 0
    BY DEF CanSettle, Holds, ChargesOK
  <2>3. HeldUnits(s)[g] = rows[g][s].units /\ HeldUnits(s)'[g] = 0
    BY <1>1, <2>2 DEF Holds, HeldUnits
  <2>4. reserved'[s] = reserved[s] - rows[g][s].units /\ used'[s] = used[s] + n
    BY DEF SettleRows
  <2>. QED
    BY <1>1, <2>1, <2>2, <2>3, <2>4
<1>. QED
  BY <1>1, <1>2, <1>3, RowsAddUp

LEMMA StepAddsUp ==
    ASSUME QuotaOK, QuotaOK', LocalOK, ScopeInvariant, ChargesOK, CountersAddUp,
           NEW g \in Generations, CreatorStep(g) \/ WorkerStep(g) \/ EndJob(g) \/ Close(g)
    PROVE  ChargesOK' /\ CountersAddUp'
<1>. USE UnitAssumption
<1>1. CASE Reserve(g)
  <2>1. /\ creator[g].next \in Scopes
        /\ creator[g].pc = "reserve"
    BY <1>1 DEF LocalOK, CreatorType, Reserve
  <2>2. rows[g][creator[g].next].status = "none"
    BY <2>1, ScopeAssumption DEF ScopeInvariant, ReservedOnce, Scopes
  <2>. QED
    BY <1>1, <2>1, <2>2, ReserveAddsUp DEF Reserve
<1>2. CASE FallBack(g) \/ Catch(g) \/ Unreserve(g) \/ Close(g)
  BY <1>2, ReleaseAddsUp, IdleAddsUp DEF FallBack, Catch, Unreserve, Close, GiveBack
<1>3. CASE Preauthorize(g)
  <2>1. PICK n \in 0..MaxUsage : IF n = 0 THEN UNCHANGED quota ELSE CanIncrease(g, n) /\ Increase(g, n)
    BY <1>3 DEF Preauthorize
  <2>. QED BY <2>1, IncreaseAddsUp, IdleAddsUp
<1>4. CASE Extend(g)
  <2>1. PICK n \in 0..MaxSafe : IF n = 0 THEN UNCHANGED quota ELSE CanIncrease(g, n) /\ Increase(g, n)
    BY <1>4 DEF Extend
  <2>. QED BY <2>1, IncreaseAddsUp, IdleAddsUp
<1>5. CASE Settle(g)
  <2>1. worker[g].total \in Nat
    BY DEF LocalOK, WorkerType
  <2>. QED BY <1>5, <2>1, SettleAddsUp DEF Settle
<1>6. CASE \/ ReserveRefused(g) \/ Enqueue(g) \/ CreatorFails(g) \/ CreatorDies(g)
           \/ Adopt(g) \/ StartCall(g) \/ CallAbandoned(g) \/ Record(g) \/ CallEnds(g)
           \/ Answer(g) \/ Reconcile(g) \/ RetryLater(g) \/ Crash(g) \/ EndJob(g)
  BY <1>6, IdleAddsUp
  DEF ReserveRefused, Enqueue, CreatorFails, CreatorDies, Adopt, StartCall, CallAbandoned, Record,
      CallEnds, Answer, Reconcile, RetryLater, Crash, EndJob
<1>. QED
  BY <1>1, <1>2, <1>3, <1>4, <1>5, <1>6 DEF CreatorStep, WorkerStep

LEMMA InitAddsUp ==
    ASSUME Init
    PROVE  ChargesOK /\ CountersAddUp
<1>1. \A g \in Generations, s \in Scopes :
          rows[g][s].status = "none" /\ rows[g][s].charged = 0
  BY DEF Init, NoRow
<1>2. \A s \in Scopes, g \in Generations : HeldUnits(s)[g] = 0 /\ ChargedUnits(s)[g] = 0
  BY <1>1 DEF HeldUnits, ChargedUnits, Holds
<1>3. \A s \in Scopes : Total(HeldUnits(s), Generations) = 0 /\ Total(ChargedUnits(s), Generations) = 0
  BY <1>2, TotalOfZeros, TableAssumption
<1>. QED
  BY <1>1, <1>3 DEF Init, ChargesOK, CountersAddUp

-----------------------------------------------------------------------------
(***************************************************************************)
(* What the runner reads from its attempts is what the table holds.        *)
(***************************************************************************)
Working == {"run", "preauth", "record", "call", "extend", "settle"}
InCall  == {"preauth", "record", "call"}

Tried(g)     == \E c \in Calls : calls[g][c].status # "none"
HasRows(g)   == \A s \in Scopes : rows[g][s].status # "none"
Covered(g)   == \A s \in Scopes : rows[g][s].charged <= rows[g][s].units

\* A call has its share of the hold in its metadata from Record on, and the
\* worker that is in a call sees it running.
CallOK(g) ==
    /\ \A c \in Calls : calls[g][c].status = "none" => calls[g][c].reserved = 0
    /\ worker[g].pc \in InCall =>
          \E c \in Calls : /\ worker[g].call = {c}
                           /\ calls[g][c].status = "RUNNING"
                           /\ calls[g][c].reserved = IF worker[g].pc = "call" THEN worker[g].units ELSE 0

\* Only between the raise of a hold and its record, and when the hold was
\* raised for the answer, does the runner not know the hold of a live job.
HoldOK(g) ==
    Live(g) => \A s \in Scopes : Holds(g, s) =>
        /\ worker[g].pc = "record" => rows[g][s].units = Known(g) + worker[g].units
        /\ worker[g].pc = "settle" => worker[g].total <= rows[g][s].units
        /\ worker[g].pc \notin {"record", "settle"} => rows[g][s].units = Known(g)

KnownOK(g) ==
    /\ Covered(g) /\ CallOK(g) /\ HoldOK(g)
    /\ worker[g].pc \in Working \/ Tried(g) => HasRows(g)

KnownInv == \A g \in Generations : KnownOK(g)

\* A step for one chat leaves what the others know.
OthersStay(g) == \A h \in Generations : h # g => /\ rows'[h] = rows[h] /\ calls'[h] = calls[h]
                                                 /\ worker'[h] = worker[h] /\ job'[h] = job[h]

LEMMA OthersKnow ==
    ASSUME KnownInv, NEW g \in Generations, OthersStay(g), KnownOK(g)'
    PROVE  KnownInv'
<1>1. ASSUME NEW h \in Generations, h # g PROVE KnownOK(h)'
  <2>1. rows'[h] = rows[h] /\ calls'[h] = calls[h] /\ worker'[h] = worker[h] /\ job'[h] = job[h]
    BY <1>1 DEF OthersStay
  <2>2. [c \in Calls |-> calls[h][c].reserved]' = [c \in Calls |-> calls[h][c].reserved]
    BY <2>1
  <2>3. Known(h)' = Known(h)
    BY <2>2 DEF Known
  <2>. QED
    BY <2>1, <2>3 DEF KnownInv, KnownOK, Covered, CallOK, HoldOK, Tried, HasRows, Live, Holds
<1>. QED
  BY <1>1 DEF KnownInv

\* The known hold is a number; it is that of the first hold while no call has
\* a share of it.
LEMMA KnownType ==
    ASSUME LocalOK, NEW g \in Generations
    PROVE  /\ [c \in Calls |-> calls[g][c].reserved] \in [Calls -> Nat]
           /\ Known(g) \in Nat
           /\ (\A c \in Calls : calls[g][c].reserved = 0) => Known(g) = Units
<1>. DEFINE f == [c \in Calls |-> calls[g][c].reserved]
<1>1. f \in [Calls -> Nat]
  BY DEF LocalOK, CallType
<1>2. Known(g) = Units + Total(f, Calls)
  BY DEF Known
<1>3. (\A c \in Calls : calls[g][c].reserved = 0) => \A c \in Calls : f[c] = 0
  OBVIOUS
<1>4. f = [c \in Calls |-> calls[g][c].reserved]
  OBVIOUS
<1>. HIDE DEF f
<1>5. Total(f, Calls) \in Nat
  BY <1>1, TotalIsNumber, TableAssumption
<1>6. (\A c \in Calls : f[c] = 0) => Total(f, Calls) = 0
  BY TotalOfZeros, TableAssumption
<1>. QED
  BY <1>1, <1>2, <1>3, <1>4, <1>5, <1>6, UnitAssumption

LEMMA SameKnown ==
    ASSUME NEW g \in Generations, \A c \in Calls : calls'[g][c].reserved = calls[g][c].reserved
    PROVE  Known(g)' = Known(g)
<1>1. [c \in Calls |-> calls[g][c].reserved]' = [c \in Calls |-> calls[g][c].reserved]
  OBVIOUS
<1>. QED
  BY <1>1 DEF Known

LEMMA FailedIsNotLive ==
    ASSUME LocalOK, NEW g \in Generations, FailJob(g)
    PROVE  ~Live(g)' /\ \A h \in Generations : h # g => job'[h] = job[h]
BY DEF LocalOK, FailJob, Live

LEMMA StoppedIsIdle ==
    ASSUME LocalOK, NEW g \in Generations, Stop(g)
    PROVE  worker'[g].pc = "idle" /\ \A h \in Generations : h # g => worker'[h] = worker[h]
BY DEF LocalOK, Stop, NoWorker

LEMMA GotoMoves ==
    ASSUME LocalOK, NEW g \in Generations, NEW label, Goto(g, label)
    PROVE  /\ worker'[g].pc = label /\ worker'[g].units = worker[g].units
           /\ worker'[g].total = worker[g].total /\ worker'[g].call = worker[g].call
           /\ \A h \in Generations : h # g => worker'[h] = worker[h]
BY DEF LocalOK, Goto, WorkerType

\* A step that writes neither rows nor calls and keeps the place of the worker.
LEMMA QuietStepKnows ==
    ASSUME LocalOK, KnownInv, NEW g \in Generations, UNCHANGED <<rows, calls, worker>>,
           Live(g)' => Live(g), \A h \in Generations : h # g => job'[h] = job[h]
    PROVE  KnownInv'
<1>1. Known(g)' = Known(g)
  BY SameKnown
<1>2. KnownOK(g)'
  BY <1>1 DEF KnownInv, KnownOK, Covered, CallOK, HoldOK, Tried, HasRows, Holds
<1>3. OthersStay(g)
  BY DEF OthersStay
<1>. QED
  BY <1>2, <1>3, OthersKnow

LEMMA ReleaseKnows ==
    ASSUME QuotaOK, LocalOK, KnownInv, NEW g \in Generations, NEW s \in Scopes,
           Release(g, s), UNCHANGED <<calls, job, worker>>
    PROVE  KnownInv'
<1>1. CASE UNCHANGED quota
  BY <1>1, QuietStepKnows DEF quota, Live
<1>2. CASE ~(UNCHANGED quota)
  <2>1. /\ OtherRowsStay(g) /\ Holds(g, s)
        /\ \A r \in Scopes : r # s => rows'[g][r] = rows[g][r]
        /\ rows'[g][s].status = "RELEASED"
        /\ rows'[g][s].units = rows[g][s].units
        /\ rows'[g][s].charged = rows[g][s].charged
    BY <1>2, ReleasedRows
  <2>2. Known(g)' = Known(g)
    BY SameKnown
  <2>3. Covered(g)' /\ CallOK(g)' /\ (HasRows(g) => HasRows(g)') /\ Tried(g)' = Tried(g)
    BY <2>1 DEF KnownInv, KnownOK, Covered, CallOK, HasRows, Tried, Holds
  <2>4. HoldOK(g)'
    BY <2>1, <2>2 DEF KnownInv, KnownOK, HoldOK, Holds, Live
  <2>5. OthersStay(g)
    BY <2>1 DEF OthersStay, OtherRowsStay
  <2>. QED
    BY <2>3, <2>4, <2>5, OthersKnow DEF KnownInv, KnownOK
<1>. QED
  BY <1>1, <1>2

\* create() reserves a scope: the worker has not adopted the chat, since it
\* needs all of them, so every hold there is is a first hold.
LEMMA ReserveKnows ==
    ASSUME QuotaOK, LocalOK, ScopeInvariant, ChargesOK, KnownInv, NEW g \in Generations, Reserve(g)
    PROVE  KnownInv'
<1>. DEFINE s == creator[g].next
<1>1. s \in Scopes /\ creator[g].pc = "reserve"
  BY DEF LocalOK, CreatorType, Reserve
<1>2. rows[g][s].status = "none"
  BY <1>1, ScopeAssumption DEF ScopeInvariant, ReservedOnce, Scopes
<1>3. /\ OtherRowsStay(g)
      /\ \A r \in Scopes : r # s => rows'[g][r] = rows[g][r]
      /\ rows'[g][s] = [status |-> "RESERVED", units |-> Units, charged |-> 0]
  BY <1>1, ReservedRows DEF Reserve
<1>4. UNCHANGED <<calls, worker>> /\ (Live(g)' => Live(g)) /\ \A h \in Generations : h # g => job'[h] = job[h]
  BY FailedIsNotLive DEF Reserve, EnterCatch, Live
<1>. HIDE DEF s
<1>5. ~Tried(g) /\ worker[g].pc \notin Working
  BY <1>1, <1>2 DEF KnownInv, KnownOK, HasRows
<1>6. Known(g) = Units
  <2>1. \A c \in Calls : calls[g][c].reserved = 0
    BY <1>5 DEF Tried, KnownInv, KnownOK, CallOK
  <2>. QED
    BY <2>1, KnownType
<1>7. Known(g)' = Known(g)
  BY <1>4, SameKnown
<1>8. \A r \in Scopes : Holds(g, r)' => rows'[g][r].units = Units
  BY <1>1, <1>2, <1>3 DEF ScopeInvariant, FirstHold, Holds
<1>9. HoldOK(g)'
  BY <1>4, <1>5, <1>6, <1>7, <1>8 DEF HoldOK, Working
<1>10. Covered(g)' /\ CallOK(g)' /\ ~Tried(g)'
  BY <1>1, <1>3, <1>4, <1>5, UnitAssumption DEF KnownInv, KnownOK, Covered, CallOK, Tried
<1>11. OthersStay(g)
  BY <1>3, <1>4 DEF OthersStay, OtherRowsStay
<1>. QED
  BY <1>4, <1>5, <1>9, <1>10, <1>11, OthersKnow DEF KnownOK

LEMMA CreatorKnows ==
    ASSUME QuotaOK, LocalOK, ScopeInvariant, ChargesOK, KnownInv, NEW g \in Generations,
           CreatorStep(g) \/ EndJob(g) \/ Close(g)
    PROVE  KnownInv'
<1>1. CASE Reserve(g)
  BY <1>1, ReserveKnows
<1>2. CASE ReserveRefused(g) \/ Enqueue(g) \/ CreatorDies(g)
  BY <1>2, QuietStepKnows DEF ReserveRefused, Enqueue, CreatorDies, quota, Live
<1>3. CASE CreatorFails(g)
  <2>1. (Live(g)' => Live(g)) /\ \A h \in Generations : h # g => job'[h] = job[h]
    BY <1>3, FailedIsNotLive DEF CreatorFails, EnterCatch, Live
  <2>. QED
    BY <1>3, <2>1, QuietStepKnows DEF CreatorFails, quota
<1>4. CASE EndJob(g)
  <2>1. (Live(g)' => Live(g)) /\ \A h \in Generations : h # g => job'[h] = job[h]
    BY <1>4, FailedIsNotLive DEF EndJob
  <2>. QED
    BY <1>4, <2>1, QuietStepKnows DEF EndJob, quota
<1>5. CASE FallBack(g)
  <2>1. CASE GiveBack(g) /\ UNCHANGED <<creator, job>>
    BY <1>5, <2>1, ReleaseKnows DEF FallBack, GiveBack
  <2>2. CASE job' = [job EXCEPT ![g] = IF @ = "live" THEN "credits" ELSE @] /\ UNCHANGED quota
    <3>1. (Live(g)' => Live(g)) /\ \A h \in Generations : h # g => job'[h] = job[h]
      BY <2>2 DEF LocalOK, Live
    <3>. QED
      BY <1>5, <2>2, <3>1, QuietStepKnows DEF FallBack, quota
  <2>. QED
    BY <1>5, <2>1, <2>2 DEF FallBack
<1>6. CASE Catch(g)
  <2>1. CASE GiveBack(g)
    BY <1>6, <2>1, ReleaseKnows DEF Catch, GiveBack
  <2>2. CASE UNCHANGED quota
    BY <1>6, <2>2, QuietStepKnows DEF Catch, quota, Live
  <2>. QED
    BY <1>6, <2>1, <2>2 DEF Catch
<1>7. CASE Close(g)
  BY <1>7, ReleaseKnows DEF Close, GiveBack
<1>. QED
  BY <1>1, <1>2, <1>3, <1>4, <1>5, <1>6, <1>7 DEF CreatorStep

\* A worker that stops between two calls, or with its job failed.
LEMMA StopKnows ==
    ASSUME LocalOK, KnownInv, NEW g \in Generations, Stop(g), UNCHANGED <<rows, calls>>,
           \/ UNCHANGED job /\ worker[g].pc \notin {"record", "settle"}
           \/ FailJob(g)
    PROVE  KnownInv'
<1>1. worker'[g].pc = "idle" /\ \A h \in Generations : h # g => worker'[h] = worker[h]
  BY StoppedIsIdle
<1>2. (Live(g)' => Live(g) /\ worker[g].pc \notin {"record", "settle"})
      /\ \A h \in Generations : h # g => job'[h] = job[h]
  BY FailedIsNotLive DEF Live
<1>3. Known(g)' = Known(g)
  BY SameKnown
<1>4. KnownOK(g)'
  BY <1>1, <1>2, <1>3
  DEF KnownInv, KnownOK, Covered, CallOK, HoldOK, Tried, HasRows, Holds, InCall, Working
<1>5. OthersStay(g)
  BY <1>1, <1>2 DEF OthersStay
<1>. QED
  BY <1>4, <1>5, OthersKnow

LEMMA AdoptKnows ==
    ASSUME LocalOK, KnownInv, NEW g \in Generations, Adopt(g)
    PROVE  KnownInv'
<1>1. PICK label \in {"run", "unreserve"} :
          Goto(g, label) /\ (label = "run" => \A s \in Scopes : Holds(g, s))
  BY DEF Adopt
<1>2. worker'[g].pc = label /\ \A h \in Generations : h # g => worker'[h] = worker[h]
  BY <1>1, GotoMoves
<1>3. worker[g].pc = "idle" /\ UNCHANGED <<rows, calls, job>>
  BY DEF Adopt, quota
<1>4. Known(g)' = Known(g)
  BY <1>3, SameKnown
<1>5. KnownOK(g)'
  BY <1>1, <1>2, <1>3, <1>4
  DEF KnownInv, KnownOK, Covered, CallOK, HoldOK, Tried, HasRows, Holds, InCall, Working, Live
<1>6. OthersStay(g)
  BY <1>2, <1>3 DEF OthersStay
<1>. QED
  BY <1>5, <1>6, OthersKnow

LEMMA UnreserveKnows ==
    ASSUME QuotaOK, LocalOK, KnownInv, NEW g \in Generations, Unreserve(g)
    PROVE  KnownInv'
<1>1. CASE GiveBack(g) /\ UNCHANGED <<job, worker>>
  BY <1>1, ReleaseKnows DEF Unreserve, GiveBack
<1>2. CASE FailJob(g) /\ Stop(g) /\ UNCHANGED quota
  BY <1>2, StopKnows DEF Unreserve, quota
<1>. QED
  BY <1>1, <1>2 DEF Unreserve

LEMMA StartCallKnows ==
    ASSUME LocalOK, KnownInv, NEW g \in Generations, StartCall(g)
    PROVE  KnownInv'
<1>1. PICK c \in Calls :
          /\ calls[g][c].status = "none"
          /\ calls' = [calls EXCEPT ![g][c].status = "RUNNING"]
          /\ worker' = [worker EXCEPT ![g].pc = "preauth", ![g].call = {c}]
  BY DEF StartCall
<1>2. worker[g].pc = "run" /\ UNCHANGED <<rows, job>>
  BY DEF StartCall, quota
<1>3. /\ worker'[g].pc = "preauth" /\ worker'[g].call = {c}
      /\ \A h \in Generations : h # g => worker'[h] = worker[h] /\ calls'[h] = calls[h]
  BY <1>1 DEF LocalOK, WorkerType
<1>4. /\ calls'[g][c].status = "RUNNING"
      /\ \A b \in Calls : calls'[g][b].reserved = calls[g][b].reserved
      /\ \A b \in Calls : b # c => calls'[g][b] = calls[g][b]
  BY <1>1 DEF LocalOK, CallType
<1>5. Known(g)' = Known(g)
  BY <1>4, SameKnown
<1>6. CallOK(g)'
  <2>1. \A b \in Calls : calls[g][b].status = "none" => calls[g][b].reserved = 0
    BY DEF KnownInv, KnownOK, CallOK
  <2>2. calls'[g][c].reserved = 0
    BY <1>1, <1>4, <2>1
  <2>3. \A b \in Calls : calls'[g][b].status = "none" => calls'[g][b].reserved = 0
    BY <1>4, <2>1
  <2>. QED
    BY <1>3, <1>4, <2>2, <2>3 DEF CallOK
<1>7. HoldOK(g)' /\ Covered(g)' /\ HasRows(g)'
  BY <1>2, <1>3, <1>5 DEF KnownInv, KnownOK, Covered, HoldOK, HasRows, Working, Holds, Live
<1>8. OthersStay(g)
  BY <1>2, <1>3 DEF OthersStay
<1>. QED
  BY <1>6, <1>7, <1>8, OthersKnow DEF KnownOK

\* A raise of the hold keeps what a chat has of rows, for a live job.
LEMMA RaiseRows ==
    ASSUME QuotaOK, KnownInv, NEW g \in Generations, NEW n \in Nat,
           IF n = 0 THEN UNCHANGED quota ELSE CanIncrease(g, n) /\ Increase(g, n)
    PROVE  /\ OtherRowsStay(g) /\ Covered(g)' /\ HasRows(g)' = HasRows(g)
           /\ \A s \in Scopes : /\ Holds(g, s)' = Holds(g, s)
                                /\ rows'[g][s].units = rows[g][s].units + n
<1>1. \A s \in Scopes : rows[g][s].units \in Nat /\ rows[g][s].charged \in Nat
  BY DEF QuotaOK, RowType
<1>2. /\ OtherRowsStay(g)
      /\ \A s \in Scopes : /\ rows'[g][s].status = rows[g][s].status
                           /\ rows'[g][s].units = rows[g][s].units + n
                           /\ rows'[g][s].charged = rows[g][s].charged
  <2>1. CASE n = 0
    <3>1. rows' = rows
      BY <2>1 DEF quota
    <3>. QED
      BY <1>1, <2>1, <3>1 DEF OtherRowsStay
  <2>2. CASE n # 0
    BY <2>2, IncreasedRows
  <2>. QED
    BY <2>1, <2>2
<1>3. Covered(g)'
  BY <1>1, <1>2 DEF KnownInv, KnownOK, Covered
<1>. QED
  BY <1>2, <1>3 DEF HasRows, Holds

\* An abandoned call keeps its share of the hold; its job is no longer live.
LEMMA AbandonKnows ==
    ASSUME QuotaOK, LocalOK, KnownInv, NEW g \in Generations, AbandonCall(g),
           OtherRowsStay(g), Covered(g)', HasRows(g) => HasRows(g)', worker[g].pc \in Working
    PROVE  KnownInv'
<1>1. /\ worker'[g].pc = "idle" /\ ~Live(g)'
      /\ \A h \in Generations : h # g => worker'[h] = worker[h] /\ job'[h] = job[h]
  BY StoppedIsIdle, FailedIsNotLive DEF AbandonCall
<1>2. /\ \A h \in Generations : h # g => calls'[h] = calls[h]
      /\ \A c \in Calls : calls'[g][c] = IF c \in worker[g].call /\ calls[g][c].status = "RUNNING"
                                         THEN [calls[g][c] EXCEPT !.status = "FAILED"] ELSE calls[g][c]
  BY DEF AbandonCall, LocalOK
<1>3. ASSUME NEW c \in Calls, calls'[g][c].status = "none"
      PROVE  calls'[g][c].reserved = 0
  <2>1. calls[g][c] \in CallType
    BY DEF LocalOK
  <2>2. [calls[g][c] EXCEPT !.status = "FAILED"].status = "FAILED"
    BY <2>1 DEF CallType
  <2>3. calls'[g][c] = calls[g][c]
    BY <1>2, <1>3, <2>2
  <2>. QED
    BY <1>3, <2>3 DEF KnownInv, KnownOK, CallOK
<1>4. HasRows(g)
  BY DEF KnownInv, KnownOK
<1>5. KnownOK(g)'
  BY <1>1, <1>3, <1>4 DEF KnownOK, CallOK, HoldOK, InCall
<1>6. OthersStay(g)
  BY <1>1, <1>2 DEF OthersStay, OtherRowsStay
<1>. QED
  BY <1>5, <1>6, OthersKnow

LEMMA PreauthorizeKnows ==
    ASSUME QuotaOK, LocalOK, KnownInv, NEW g \in Generations, Preauthorize(g)
    PROVE  KnownInv'
<1>1. PICK n \in 0..MaxUsage :
          /\ IF n = 0 THEN UNCHANGED quota ELSE CanIncrease(g, n) /\ Increase(g, n)
          /\ \/ worker' = [worker EXCEPT ![g].pc = "record", ![g].units = n] /\ UNCHANGED <<calls, job>>
             \/ AbandonCall(g)
  BY DEF Preauthorize
<1>2. n \in Nat
  BY UnitAssumption
<1>3. /\ OtherRowsStay(g) /\ Covered(g)' /\ HasRows(g)' = HasRows(g)
      /\ \A s \in Scopes : /\ Holds(g, s)' = Holds(g, s)
                           /\ rows'[g][s].units = rows[g][s].units + n
  BY <1>1, <1>2, RaiseRows
<1>4. worker[g].pc = "preauth" /\ Live(g)
  BY DEF Preauthorize
<1>5. CASE AbandonCall(g)
  BY <1>3, <1>4, <1>5, AbandonKnows DEF Working
<1>6. CASE worker' = [worker EXCEPT ![g].pc = "record", ![g].units = n] /\ UNCHANGED <<calls, job>>
  <2>1. /\ worker'[g].pc = "record" /\ worker'[g].units = n /\ worker'[g].call = worker[g].call
        /\ \A h \in Generations : h # g => worker'[h] = worker[h]
    BY <1>6 DEF LocalOK, WorkerType
  <2>2. Known(g)' = Known(g)
    BY <1>6, SameKnown
  <2>3. CallOK(g)'
    BY <1>4, <1>6, <2>1 DEF KnownInv, KnownOK, CallOK, InCall
  <2>4. HoldOK(g)'
    <3>1. ASSUME NEW s \in Scopes, Holds(g, s) PROVE rows[g][s].units = Known(g)
      BY <1>4, <3>1 DEF KnownInv, KnownOK, HoldOK
    <3>2. \A s \in Scopes : Holds(g, s)' => rows'[g][s].units = Known(g)' + worker'[g].units
      BY <1>3, <2>1, <2>2, <3>1
    <3>. QED
      BY <2>1, <3>2 DEF HoldOK
  <2>5. HasRows(g)'
    BY <1>3, <1>4 DEF KnownInv, KnownOK, Working
  <2>6. OthersStay(g)
    BY <1>3, <1>6, <2>1 DEF OthersStay, OtherRowsStay
  <2>. QED
    BY <1>3, <2>3, <2>4, <2>5, <2>6, OthersKnow DEF KnownOK
<1>. QED
  BY <1>1, <1>5, <1>6

LEMMA CallAbandonedKnows ==
    ASSUME QuotaOK, LocalOK, KnownInv, NEW g \in Generations, CallAbandoned(g)
    PROVE  KnownInv'
<1>1. UNCHANGED rows /\ AbandonCall(g) /\ worker[g].pc \in Working
  BY DEF CallAbandoned, quota, Working
<1>2. OtherRowsStay(g) /\ Covered(g)' /\ HasRows(g)' = HasRows(g)
  BY <1>1 DEF OtherRowsStay, KnownInv, KnownOK, Covered, HasRows
<1>. QED
  BY <1>1, <1>2, AbandonKnows

\* The call that is recorded had no share before.
LEMMA RecordKnows ==
    ASSUME LocalOK, KnownInv, NEW g \in Generations, Record(g)
    PROVE  KnownInv'
<1>1. /\ worker[g].pc = "record" /\ Live(g) /\ UNCHANGED <<rows, job>> /\ Goto(g, "call")
      /\ calls' = [calls EXCEPT ![g] = [c \in Calls |->
             IF c \in worker[g].call THEN [@[c] EXCEPT !.reserved = worker[g].units] ELSE @[c]]]
  BY DEF Record, quota
<1>2. PICK c \in Calls : /\ worker[g].call = {c}
                         /\ calls[g][c].status = "RUNNING" /\ calls[g][c].reserved = 0
  BY <1>1 DEF KnownInv, KnownOK, CallOK, InCall
<1>3. /\ worker'[g].pc = "call" /\ worker'[g].units = worker[g].units /\ worker'[g].call = worker[g].call
      /\ \A h \in Generations : h # g => worker'[h] = worker[h]
  BY <1>1, GotoMoves
<1>4. worker[g].units \in Nat
  BY DEF LocalOK, WorkerType
<1>5. /\ \A h \in Generations : h # g => calls'[h] = calls[h]
      /\ \A b \in Calls : b # c => calls'[g][b] = calls[g][b]
      /\ calls'[g][c] = [calls[g][c] EXCEPT !.reserved = worker[g].units]
  BY <1>1, <1>2 DEF LocalOK
<1>6. calls'[g][c].status = "RUNNING" /\ calls'[g][c].reserved = worker[g].units
  <2>1. calls[g][c] \in CallType
    BY DEF LocalOK
  <2>. QED
    BY <1>2, <1>5, <2>1 DEF CallType
<1>7. Known(g)' = Known(g) + worker[g].units
  <2>. DEFINE f == [b \in Calls |-> calls[g][b].reserved]
              e == [b \in Calls |-> calls'[g][b].reserved]
  <2>1. f \in [Calls -> Nat]
    BY KnownType
  <2>2. e[c] = worker[g].units /\ f[c] = 0 /\ \A b \in Calls : b # c => e[b] = f[b]
    BY <1>2, <1>5, <1>6
  <2>3. e \in [Calls -> Nat]
    <3>1. \A b \in Calls : e[b] \in Nat
      <4>. HIDE DEF e, f
      <4>. QED BY <1>4, <2>1, <2>2
    <3>. QED BY <3>1
  <2>4. Known(g) = Units + Total(f, Calls) /\ Known(g)' = Units + Total(e, Calls)
    BY DEF Known
  <2>. HIDE DEF f, e
  <2>5. Total(f, Calls) \in Nat /\ Total(e, Calls) \in Nat
    BY <2>1, <2>3, TotalIsNumber, TableAssumption
  <2>6. Total(e, Calls) + f[c] = Total(f, Calls) + e[c]
    BY <2>1, <2>2, <2>3, TotalChanges, TableAssumption
  <2>. QED
    BY <1>4, <2>2, <2>4, <2>5, <2>6, UnitAssumption
<1>8. CallOK(g)'
  <2>1. \A b \in Calls : calls[g][b].status = "none" => calls[g][b].reserved = 0
    BY DEF KnownInv, KnownOK, CallOK
  <2>2. ASSUME NEW b \in Calls, calls'[g][b].status = "none" PROVE calls'[g][b].reserved = 0
    <3>1. b # c
      BY <1>6, <2>2
    <3>2. calls'[g][b] = calls[g][b]
      BY <1>5, <3>1
    <3>. QED
      BY <2>1, <2>2, <3>2
  <2>. QED
    BY <1>2, <1>3, <1>6, <2>2 DEF CallOK
<1>9. HoldOK(g)'
  <2>1. \A s \in Scopes : Holds(g, s) => rows[g][s].units = Known(g) + worker[g].units
    BY <1>1 DEF KnownInv, KnownOK, HoldOK
  <2>. QED
    BY <1>1, <1>3, <1>7, <2>1 DEF HoldOK, Holds
<1>10. Covered(g)' /\ HasRows(g)'
  BY <1>1 DEF KnownInv, KnownOK, Covered, HasRows, Working
<1>11. OthersStay(g)
  BY <1>1, <1>3, <1>5 DEF OthersStay
<1>. QED
  BY <1>8, <1>9, <1>10, <1>11, OthersKnow DEF KnownOK

LEMMA CallEndsKnows ==
    ASSUME LocalOK, KnownInv, NEW g \in Generations, CallEnds(g)
    PROVE  KnownInv'
<1>1. worker[g].pc = "call" /\ Live(g) /\ UNCHANGED <<rows, job>>
  BY DEF CallEnds, quota
<1>2. PICK outcome : /\ outcome.status # "none" /\ outcome.reserved = worker[g].units
                     /\ calls' = [calls EXCEPT ![g] = [c \in Calls |->
                                     IF c \in worker[g].call THEN outcome ELSE @[c]]]
  BY DEF CallEnds
<1>3. /\ worker'[g].pc = "run"
      /\ \A h \in Generations : h # g => worker'[h] = worker[h]
  BY DEF CallEnds, LocalOK, NoWorker
<1>4. PICK c \in Calls : worker[g].call = {c} /\ calls[g][c].reserved = worker[g].units
  BY <1>1 DEF KnownInv, KnownOK, CallOK, InCall
<1>5. /\ \A h \in Generations : h # g => calls'[h] = calls[h]
      /\ \A b \in Calls : b # c => calls'[g][b] = calls[g][b]
      /\ calls'[g][c] = outcome
  BY <1>2, <1>4 DEF LocalOK
<1>6. Known(g)' = Known(g)
  <2>1. \A b \in Calls : calls'[g][b].reserved = calls[g][b].reserved
    BY <1>2, <1>4, <1>5
  <2>. QED
    BY <2>1, SameKnown
<1>7. CallOK(g)'
  BY <1>2, <1>3, <1>5 DEF KnownInv, KnownOK, CallOK, InCall
<1>8. HoldOK(g)' /\ Covered(g)' /\ HasRows(g)'
  BY <1>1, <1>3, <1>6 DEF KnownInv, KnownOK, HoldOK, Covered, HasRows, Holds, Live, Working
<1>9. OthersStay(g)
  BY <1>1, <1>3, <1>5 DEF OthersStay
<1>. QED
  BY <1>7, <1>8, <1>9, OthersKnow DEF KnownOK

LEMMA AnswerKnows ==
    ASSUME LocalOK, KnownInv, NEW g \in Generations, Answer(g)
    PROVE  KnownInv'
<1>1. worker[g].pc = "run" /\ UNCHANGED <<rows, calls>>
  BY DEF Answer, quota
<1>2. CASE FailJob(g) /\ Stop(g)
  BY <1>1, <1>2, StopKnows
<1>3. CASE \E total \in 0..MaxSafe :
              worker' = [worker EXCEPT ![g].pc = "extend", ![g].total = total] /\ UNCHANGED job
  <2>1. /\ worker'[g].pc = "extend" /\ UNCHANGED job
        /\ \A h \in Generations : h # g => worker'[h] = worker[h]
    BY <1>3 DEF LocalOK, WorkerType
  <2>2. Known(g)' = Known(g)
    BY <1>1, SameKnown
  <2>3. KnownOK(g)'
    BY <1>1, <2>1, <2>2
    DEF KnownInv, KnownOK, Covered, CallOK, HoldOK, Tried, HasRows, Holds, InCall, Working, Live
  <2>4. OthersStay(g)
    BY <1>1, <2>1 DEF OthersStay
  <2>. QED
    BY <2>3, <2>4, OthersKnow
<1>. QED
  BY <1>2, <1>3 DEF Answer

\* Past Extend the hold covers the answer.
LEMMA ExtendKnows ==
    ASSUME QuotaOK, LocalOK, KnownInv, NEW g \in Generations, Extend(g)
    PROVE  KnownInv'
<1>1. worker[g].pc = "extend" /\ Live(g) /\ UNCHANGED calls
  BY DEF Extend
<1>2. PICK more \in 0..MaxSafe :
          /\ more = IF worker[g].total > Known(g) THEN worker[g].total - Known(g) ELSE 0
          /\ IF more = 0 THEN UNCHANGED quota ELSE CanIncrease(g, more) /\ Increase(g, more)
  BY DEF Extend
<1>3. more \in Nat /\ Known(g) \in Nat /\ worker[g].total \in Nat
  BY KnownType, UnitAssumption DEF LocalOK, WorkerType
<1>4. /\ OtherRowsStay(g) /\ Covered(g)' /\ HasRows(g)' = HasRows(g)
      /\ \A s \in Scopes : /\ Holds(g, s)' = Holds(g, s)
                           /\ rows'[g][s].units = rows[g][s].units + more
  BY <1>2, <1>3, RaiseRows
<1>5. HasRows(g)'
  BY <1>1, <1>4 DEF KnownInv, KnownOK, Working
<1>6. worker[g].total <= Known(g) + more
  BY <1>2, <1>3
<1>7. CASE Goto(g, "settle") /\ UNCHANGED job
  <2>1. /\ worker'[g].pc = "settle" /\ worker'[g].total = worker[g].total
        /\ \A h \in Generations : h # g => worker'[h] = worker[h]
    BY <1>7, GotoMoves
  <2>2. HoldOK(g)'
    <3>1. \A s \in Scopes : Holds(g, s) => rows[g][s].units = Known(g)
      BY <1>1 DEF KnownInv, KnownOK, HoldOK
    <3>2. \A s \in Scopes : Holds(g, s)' => worker'[g].total <= rows'[g][s].units
      BY <1>4, <1>6, <2>1, <3>1
    <3>. QED
      BY <2>1, <3>2 DEF HoldOK
  <2>3. CallOK(g)'
    BY <1>1, <2>1 DEF KnownInv, KnownOK, CallOK, InCall
  <2>4. OthersStay(g)
    BY <1>1, <1>4, <1>7, <2>1 DEF OthersStay, OtherRowsStay
  <2>. QED
    BY <1>4, <1>5, <2>2, <2>3, <2>4, OthersKnow DEF KnownOK
<1>8. CASE FailJob(g) /\ Stop(g)
  <2>1. /\ worker'[g].pc = "idle" /\ ~Live(g)'
        /\ \A h \in Generations : h # g => worker'[h] = worker[h] /\ job'[h] = job[h]
    BY <1>8, StoppedIsIdle, FailedIsNotLive
  <2>2. CallOK(g)' /\ HoldOK(g)'
    BY <1>1, <2>1 DEF KnownInv, KnownOK, CallOK, InCall, HoldOK
  <2>3. OthersStay(g)
    BY <1>1, <1>4, <2>1 DEF OthersStay, OtherRowsStay
  <2>. QED
    BY <1>4, <1>5, <2>2, <2>3, OthersKnow DEF KnownOK
<1>. QED
  BY <1>7, <1>8 DEF Extend

LEMMA SettleKnows ==
    ASSUME QuotaOK, LocalOK, KnownInv, NEW g \in Generations, Settle(g)
    PROVE  KnownInv'
<1>. DEFINE n == worker[g].total
<1>1. /\ worker[g].pc = "settle" /\ CanSettle(g, n) /\ SettleRows(g, n)
      /\ job' = [job EXCEPT ![g] = "settled"] /\ Stop(g) /\ UNCHANGED calls
  BY DEF Settle
<1>2. n \in Nat
  BY DEF LocalOK, WorkerType
<1>3. \A s \in Scopes : n <= rows[g][s].units
  BY <1>1 DEF KnownInv, KnownOK, HoldOK, CanSettle
<1>. HIDE DEF n
<1>4. /\ OtherRowsStay(g)
      /\ \A s \in Scopes : /\ rows'[g][s].status = "SETTLED"
                           /\ rows'[g][s].units = rows[g][s].units
                           /\ rows'[g][s].charged = n
  BY <1>1, <1>2, SettledRows
<1>5. Covered(g)' /\ HasRows(g)'
  BY <1>3, <1>4 DEF Covered, HasRows
<1>6. worker'[g].pc = "idle" /\ \A h \in Generations : h # g => worker'[h] = worker[h]
  BY <1>1, StoppedIsIdle
<1>7. ~Live(g)' /\ \A h \in Generations : h # g => job'[h] = job[h]
  BY <1>1 DEF LocalOK, Live
<1>8. CallOK(g)' /\ HoldOK(g)'
  BY <1>1, <1>6, <1>7 DEF KnownInv, KnownOK, CallOK, InCall, HoldOK
<1>9. OthersStay(g)
  BY <1>1, <1>4, <1>6, <1>7 DEF OthersStay, OtherRowsStay
<1>. QED
  BY <1>5, <1>8, <1>9, OthersKnow DEF KnownOK

\* A worker that dies in a call leaves it RUNNING, so its job is given up.
LEMMA CrashKnows ==
    ASSUME LocalOK, KnownInv, NEW g \in Generations, Crash(g)
    PROVE  KnownInv'
<1>1. UNCHANGED <<rows, calls>> /\ Stop(g)
  BY DEF Crash, quota
<1>2. CASE FailJob(g)
  BY <1>1, <1>2, StopKnows
<1>3. CASE ~FailJob(g)
  <2>1. /\ worker[g].pc # "settle" /\ UNCHANGED job
        /\ \A c \in Calls : calls[g][c].status # "RUNNING"
    BY <1>3 DEF Crash
  <2>2. worker[g].pc # "record"
    BY <2>1 DEF KnownInv, KnownOK, CallOK, InCall
  <2>. QED
    BY <1>1, <2>1, <2>2, StopKnows
<1>. QED
  BY <1>2, <1>3

LEMMA StepKnows ==
    ASSUME QuotaOK, LocalOK, ScopeInvariant, ChargesOK, KnownInv, NEW g \in Generations,
           CreatorStep(g) \/ WorkerStep(g) \/ EndJob(g) \/ Close(g)
    PROVE  KnownInv'
<1>1. CASE CreatorStep(g) \/ EndJob(g) \/ Close(g)
  BY <1>1, CreatorKnows
<1>2. CASE Adopt(g) \/ Unreserve(g) \/ StartCall(g) \/ Preauthorize(g) \/ CallAbandoned(g) \/ Record(g)
  BY <1>2, AdoptKnows, UnreserveKnows, StartCallKnows, PreauthorizeKnows, CallAbandonedKnows, RecordKnows
<1>3. CASE CallEnds(g) \/ Answer(g) \/ Extend(g) \/ Settle(g) \/ Crash(g)
  BY <1>3, CallEndsKnows, AnswerKnows, ExtendKnows, SettleKnows, CrashKnows
<1>4. CASE Reconcile(g) \/ RetryLater(g)
  BY <1>4, StopKnows DEF Reconcile, RetryLater, quota
<1>. QED
  BY <1>1, <1>2, <1>3, <1>4 DEF WorkerStep

LEMMA InitKnows ==
    ASSUME Init
    PROVE  KnownInv
BY UnitAssumption
DEF Init, KnownInv, KnownOK, Covered, CallOK, HoldOK, Tried, HasRows, Holds, NoRow, NoCall, NoWorker,
    InCall, Working

LEMMA SumsInit == Init => Inv /\ ChargesOK /\ CountersAddUp /\ KnownInv
BY InitInv, InitAddsUp, InitKnows

LEMMA SumsNext ==
    ASSUME Inv, ChargesOK, CountersAddUp, KnownInv, [Next]_vars
    PROVE  ChargesOK' /\ CountersAddUp' /\ KnownInv'
<1>1. CASE Next
  <2>1. PICK g \in Generations : CreatorStep(g) \/ WorkerStep(g) \/ EndJob(g) \/ Close(g)
    BY <1>1 DEF Next
  <2>2. QuotaOK'
    BY <2>1, StepKeepsQuota DEF Inv
  <2>. QED
    BY <2>1, <2>2, StepAddsUp, StepKnows DEF Inv
<1>2. CASE UNCHANGED vars
  <2>1. ChargesOK' /\ CountersAddUp'
    BY <1>2, IdleAddsUp DEF vars, quota
  <2>2. KnownInv'
    <3>1. ASSUME NEW g \in Generations PROVE KnownOK(g)'
      <4>1. Known(g)' = Known(g)
        BY <1>2, SameKnown DEF vars
      <4>. QED
        BY <1>2, <4>1
        DEF vars, KnownInv, KnownOK, Covered, CallOK, HoldOK, Tried, HasRows, Holds, Live
    <3>. QED
      BY <3>1 DEF KnownInv
  <2>. QED
    BY <2>1, <2>2
<1>. QED
  BY <1>1, <1>2

\* With the invariant of the first part: the counters of a quota row are the
\* sums of its reservations, and what a runner knows of its hold is true.
THEOREM SumsInvariant == Spec => [](ChargesOK /\ CountersAddUp /\ KnownInv)
<1>1. Inv /\ (ChargesOK /\ CountersAddUp /\ KnownInv) /\ [Next]_vars
          => (ChargesOK /\ CountersAddUp /\ KnownInv)'
  BY SumsNext
<1>2. Init => ChargesOK /\ CountersAddUp /\ KnownInv
  BY SumsInit
<1>. QED
  BY <1>1, <1>2, QuotaInvariant, PTL DEF Spec

\* Whatever chats reserve, raise, settle and give back at once, and whoever
\* dies in between, usedUnits and reservedUnits of a quota row are the sums
\* over its reservations: no unit is lost or given back twice.
THEOREM CountersAreSums == Spec => []CountersAddUp
BY SumsInvariant, PTL

\* When the answer is there, the units the chat runner reads from the metadata
\* of its attempts are the units of its reservation, and no reservation is
\* ever charged above its hold.
THEOREM HoldIsWhatIsKnown == Spec => []HoldIsKnown
<1>1. QuotaOK /\ ChargesOK /\ KnownInv => HoldIsKnown
  BY DEF KnownInv, KnownOK, HoldOK, Covered, HoldIsKnown
<1>2. Inv => QuotaOK
  BY DEF Inv
<1>. QED
  BY <1>1, <1>2, SumsInvariant, QuotaInvariant, PTL
=============================================================================
