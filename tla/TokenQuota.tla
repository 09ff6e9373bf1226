----------------------------- MODULE TokenQuota -----------------------------
(***************************************************************************)
(* The token quota of one user: the monthly and the daily row of           *)
(* UserTokenQuota, shared by every chat the user has under way, with the   *)
(* protocol by which a chat holds units before a Provider is called,       *)
(* raises the hold for each auxiliary call and for what the answer really  *)
(* used, settles it, or gives it back: token-quota.service.ts with its     *)
(* callers in create(), the worker, the chat runner and the terminal       *)
(* reconciliation.                                                         *)
(*                                                                         *)
(* Every method of the service is one serializable transaction, so one     *)
(* step here, which may also commit without the caller learning of it.     *)
(* Between two of them anything may happen: the request that creates the   *)
(* job, the worker and whoever closes a failed job are separate processes. *)
(* Leases are the matter of GenerationJob: here a worker that lost its     *)
(* lease is one that crashed.                                              *)
(***************************************************************************)
EXTENDS Integers, FiniteSets, Totals

CONSTANTS
    Generations,  \* chats of the user, paid by the quota
    Calls,        \* auxiliary Provider calls a chat may make
    NScopes,      \* scopes in the order they are reserved: 1 monthly, 2 daily
    Granted,      \* Granted[s] units of the plan in scope s
    Units,        \* units a chat reserves when it is created
    Overage,      \* whether the plan lets a chat fall back to credits
    MaxSafe,      \* Number.MAX_SAFE_INTEGER, the largest total that is settled
    MaxUsage      \* bound: units one Provider call is estimated at or uses

Scopes == 1..NScopes

ASSUME ScopeAssumption == NScopes \in Nat \ {0} /\ Granted \in [Scopes -> Nat]
ASSUME UnitAssumption  == /\ Units \in Nat \ {0}
                          /\ {MaxSafe, MaxUsage} \subseteq Nat
                          /\ Overage \in BOOLEAN
ASSUME TableAssumption == IsFiniteSet(Generations) /\ IsFiniteSet(Calls)

VARIABLES
    used,      \* usedUnits of the quota row of each scope
    reserved,  \* reservedUnits of the quota row of each scope
    rows,      \* rows[g][s]: the TokenQuotaReservation of chat g in scope s
    calls,     \* calls[g][c]: the auxiliary ProviderAttempt c of chat g
    job,       \* what the GenerationJob row of each chat lets the service do
    creator,   \* the request that creates each chat
    worker     \* the delivery that runs each chat

vars == <<used, reserved, rows, calls, job, creator, worker>>
quota == <<used, reserved, rows>>

NoRow    == [status |-> "none", units |-> 0, charged |-> 0]
NoCall   == [status |-> "none", reserved |-> 0, charged |-> 0]
NoWorker == [pc |-> "idle", call |-> {}, units |-> 0, total |-> 0]

Live(g) == job[g] = "live"
Available(s) == Granted[s] - used[s] - reserved[s]
Holds(g, s)  == rows[g][s].status = "RESERVED"

GotoCreator(g, label) == creator' = [creator EXCEPT ![g].pc = label]
Goto(g, label) == worker' = [worker EXCEPT ![g].pc = label]
Stop(g)        == worker' = [worker EXCEPT ![g] = NoWorker]
FailJob(g)     == job' = [job EXCEPT ![g] = IF @ = "settled" THEN @ ELSE "failed"]

Init ==
    /\ used = [s \in Scopes |-> 0]
    /\ reserved = [s \in Scopes |-> 0]
    /\ rows = [g \in Generations |-> [s \in Scopes |-> NoRow]]
    /\ calls = [g \in Generations |-> [c \in Calls |-> NoCall]]
    /\ job = [g \in Generations |-> "live"]
    /\ creator = [g \in Generations |-> [pc |-> "reserve", next |-> 1]]
    /\ worker = [g \in Generations |-> NoWorker]

(***************************************************************************)
(* The transactions of the service.                                        *)
(***************************************************************************)

\* Mutant of CanIncrease: the limit is looked up in the monthly row only.
CanIncreaseMonthly(g, units) == (\A s \in Scopes : Holds(g, s)) /\ Available(1) >= units

CanIncrease(g, units) == \A s \in Scopes : Holds(g, s) /\ Available(s) >= units

\* Mutant of Increase: only the monthly hold of the chat grows.
IncreaseMonthly(g, units) ==
    /\ reserved' = [reserved EXCEPT ![1] = @ + units]
    /\ rows' = [rows EXCEPT ![g][1].units = @ + units]
    /\ UNCHANGED used

\* increase: all scopes or none, and nothing at all for zero units.
Increase(g, units) ==
    /\ reserved' = [s \in Scopes |-> reserved[s] + units]
    /\ rows' = [rows EXCEPT ![g] = [s \in Scopes |-> [rows[g][s] EXCEPT !.units = @ + units]]]
    /\ UNCHANGED used

\* Mutant of Release: a hold that was already given back is given back again.
ReleaseAgain(g, s) ==
    /\ reserved' = [reserved EXCEPT ![s] = @ - rows[g][s].units]
    /\ rows' = [rows EXCEPT ![g][s].status = IF @ = "none" THEN @ ELSE "RELEASED"]
    /\ UNCHANGED used

\* release: no effect on a hold that is gone, settled or missing, and none if
\* the counter does not cover the hold.
Release(g, s) ==
    /\ IF Holds(g, s) /\ reserved[s] >= rows[g][s].units
       THEN /\ reserved' = [reserved EXCEPT ![s] = @ - rows[g][s].units]
            /\ rows' = [rows EXCEPT ![g][s].status = "RELEASED"]
       ELSE UNCHANGED <<reserved, rows>>
    /\ UNCHANGED used

\* A caller releases the rows that it listed as held a moment ago: by now
\* another process may have released them, or the settlement charged them.
GiveBack(g) == \E s \in Scopes : rows[g][s].status # "none" /\ Release(g, s)

HoldsAny(g) == \E s \in Scopes : Holds(g, s)
IsCharged(g) == \E s \in Scopes : rows[g][s].status = "SETTLED"

Excess(g, s, charge) == IF charge > rows[g][s].units THEN charge - rows[g][s].units ELSE 0

\* settleGeneration: the whole hold of a running job, charged alike in every scope.
CanSettle(g, charge) ==
    /\ Live(g)
    /\ \A s \in Scopes : /\ Holds(g, s)
                         /\ reserved[s] >= rows[g][s].units
                         /\ Excess(g, s, charge) <= Available(s)

SettleRows(g, charge) ==
    /\ reserved' = [s \in Scopes |-> reserved[s] - rows[g][s].units]
    /\ used' = [s \in Scopes |-> used[s] + charge]
    /\ rows' = [rows EXCEPT ![g] = [s \in Scopes |->
                   [rows[g][s] EXCEPT !.status = "SETTLED", !.charged = charge]]]

(***************************************************************************)
(* create(): the holds one scope after the other, then the queue; a failed *)
(* request gives back whatever hold the table shows, even of a job that    *)
(* another process already runs.                                           *)
(***************************************************************************)
NextScope(g) ==
    IF creator[g].next = NScopes
    THEN GotoCreator(g, "enqueue")
    ELSE creator' = [creator EXCEPT ![g].next = @ + 1]

\* The catch block fails the job only while it is QUEUED.
EnterCatch(g) ==
    /\ GotoCreator(g, "catch")
    /\ IF worker[g].pc = "idle" THEN FailJob(g) ELSE UNCHANGED job

Reserve(g) ==
    /\ creator[g].pc = "reserve"
    /\ LET s == creator[g].next IN
       /\ Available(s) >= Units
       /\ reserved' = [reserved EXCEPT ![s] = @ + Units]
       /\ rows' = [rows EXCEPT ![g][s] = [status |-> "RESERVED", units |-> Units, charged |-> 0]]
    /\ \/ NextScope(g) /\ UNCHANGED job
       \/ EnterCatch(g)  \* committed, but the request saw an error
    /\ UNCHANGED <<used, calls, worker>>

ReserveRefused(g) ==
    /\ creator[g].pc = "reserve"
    /\ Overage
    /\ Available(creator[g].next) < Units
    /\ GotoCreator(g, "fallback")
    /\ UNCHANGED <<quota, calls, job, worker>>

\* The scopes already held are released, then the chat is paid by credits.
FallBack(g) ==
    /\ creator[g].pc = "fallback"
    /\ \/ GiveBack(g) /\ UNCHANGED <<creator, job>>
       \/ /\ ~HoldsAny(g)
          /\ GotoCreator(g, "over")
          /\ job' = [job EXCEPT ![g] = IF @ = "live" THEN "credits" ELSE @]
          /\ UNCHANGED quota
    /\ UNCHANGED <<calls, worker>>

Enqueue(g) ==
    /\ creator[g].pc = "enqueue"
    /\ GotoCreator(g, "over")
    /\ UNCHANGED <<quota, calls, job, worker>>

\* Any statement of the request fails, an exhausted quota without overage included.
CreatorFails(g) ==
    /\ creator[g].pc \in {"reserve", "fallback", "enqueue"}
    /\ EnterCatch(g)
    /\ UNCHANGED <<quota, calls, worker>>

Catch(g) ==
    /\ creator[g].pc = "catch"
    /\ \/ GiveBack(g) /\ UNCHANGED creator
       \/ /\ ~HoldsAny(g) \/ IsCharged(g)
          /\ GotoCreator(g, "over")
          /\ UNCHANGED quota
    /\ UNCHANGED <<calls, job, worker>>

CreatorDies(g) ==
    /\ creator[g].pc # "over"
    /\ GotoCreator(g, "over")
    /\ UNCHANGED <<quota, calls, job, worker>>

(***************************************************************************)
(* The worker adopts the holds only if the table shows all of them.        *)
(***************************************************************************)
Adopt(g) ==
    /\ worker[g].pc = "idle"
    /\ Live(g)
    /\ Goto(g, IF \A s \in Scopes : Holds(g, s) /\ rows[g][s].units >= Units
               THEN "run" ELSE "unreserve")
    /\ UNCHANGED <<quota, calls, job, creator>>

Unreserve(g) ==
    /\ worker[g].pc = "unreserve"
    /\ \/ GiveBack(g) /\ UNCHANGED <<job, worker>>
       \/ ~HoldsAny(g) /\ FailJob(g) /\ Stop(g) /\ UNCHANGED quota
    /\ UNCHANGED <<calls, creator>>

(***************************************************************************)
(* An auxiliary call: the attempt row, the raised hold, the record of it   *)
(* in the row's metadata, the call, and its outcome.                       *)
(***************************************************************************)
StartCall(g) ==
    /\ worker[g].pc = "run"
    /\ Live(g)
    /\ \E c \in Calls :
          /\ calls[g][c].status = "none"
          /\ calls' = [calls EXCEPT ![g][c].status = "RUNNING"]
          /\ worker' = [worker EXCEPT ![g].pc = "preauth", ![g].call = {c}]
    /\ UNCHANGED <<quota, job, creator>>

\* A call that cannot be audited or paid for is failed, and the job with it.
AbandonCall(g) ==
    /\ calls' = [calls EXCEPT ![g] = [c \in Calls |->
                    IF c \in worker[g].call /\ @[c].status = "RUNNING" THEN [@[c] EXCEPT !.status = "FAILED"] ELSE @[c]]]
    /\ FailJob(g)
    /\ Stop(g)

Preauthorize(g) ==
    /\ worker[g].pc = "preauth"
    /\ Live(g)
    /\ \E units \in 0..MaxUsage :
          /\ IF units = 0 THEN UNCHANGED quota ELSE CanIncrease(g, units) /\ Increase(g, units)
          /\ \/ /\ worker' = [worker EXCEPT ![g].pc = "record", ![g].units = units]
                /\ UNCHANGED <<calls, job>>
             \/ AbandonCall(g)  \* committed, but the runner saw an error
    /\ UNCHANGED creator

CallAbandoned(g) ==
    /\ worker[g].pc \in {"preauth", "record", "call"}
    /\ Live(g)
    /\ AbandonCall(g)
    /\ UNCHANGED <<quota, creator>>

Record(g) ==
    /\ worker[g].pc = "record"
    /\ Live(g)
    /\ calls' = [calls EXCEPT ![g] = [c \in Calls |->
                    IF c \in worker[g].call THEN [@[c] EXCEPT !.reserved = worker[g].units] ELSE @[c]]]
    /\ Goto(g, "call")
    /\ UNCHANGED <<quota, job, creator>>

\* A failed call keeps its share of the hold and is not charged.
CallEnds(g) ==
    /\ worker[g].pc = "call"
    /\ Live(g)
    /\ \E outcome \in [status : {"SUCCEEDED"}, reserved : {worker[g].units}, charged : 0..MaxUsage]
                 \cup [status : {"FAILED"}, reserved : {worker[g].units}, charged : {0}] :
          calls' = [calls EXCEPT ![g] = [c \in Calls |-> IF c \in worker[g].call THEN outcome ELSE @[c]]]
    /\ worker' = [worker EXCEPT ![g] = [NoWorker EXCEPT !.pc = "run"]]
    /\ UNCHANGED <<quota, job, creator>>

(***************************************************************************)
(* The answer: every successful call of every delivery is charged, the     *)
(* hold is raised if the use exceeds what is known to be held, then all is *)
(* settled in one transaction.                                             *)
(***************************************************************************)
Succeeded(g) == {c \in Calls : calls[g][c].status = "SUCCEEDED"}

Charges(g) == Total([c \in Calls |-> calls[g][c].charged], Succeeded(g))

Answer(g) ==
    /\ worker[g].pc = "run"
    /\ Live(g)
    /\ \E usage \in 0..MaxUsage :
          \/ \E total \in 0..MaxSafe :
                /\ total = usage + Charges(g)
                /\ worker' = [worker EXCEPT ![g].pc = "extend", ![g].total = total]
                /\ UNCHANGED job
          \/ usage + Charges(g) > MaxSafe /\ FailJob(g) /\ Stop(g)
    /\ UNCHANGED <<quota, calls, creator>>

\* Mutant of Known: only the calls that succeeded are taken to be held.
KnownSucceeded(g) == Units + Total([c \in Calls |-> calls[g][c].reserved], Succeeded(g))

\* What the runner takes to be held: the first hold and the metadata of its calls.
Known(g) == Units + Total([c \in Calls |-> calls[g][c].reserved], Calls)

Extend(g) ==
    /\ worker[g].pc = "extend"
    /\ Live(g)
    /\ Known(g) - Units <= MaxSafe
    /\ \E more \in 0..MaxSafe :
          /\ more = IF worker[g].total > Known(g) THEN worker[g].total - Known(g) ELSE 0
          /\ IF more = 0 THEN UNCHANGED quota ELSE CanIncrease(g, more) /\ Increase(g, more)
    /\ \/ Goto(g, "settle") /\ UNCHANGED job
       \/ FailJob(g) /\ Stop(g)  \* committed, but the runner saw an error
    /\ UNCHANGED <<calls, creator>>

Settle(g) ==
    /\ worker[g].pc = "settle"
    /\ CanSettle(g, worker[g].total)
    /\ SettleRows(g, worker[g].total)
    /\ job' = [job EXCEPT ![g] = "settled"]
    /\ Stop(g)
    /\ UNCHANGED <<calls, creator>>

\* An answer that cannot be settled is never asked for again: it is absorbed.
Reconcile(g) ==
    /\ worker[g].pc \in {"extend", "settle"}
    /\ FailJob(g)
    /\ Stop(g)
    /\ UNCHANGED <<quota, calls, creator>>

(***************************************************************************)
(* The ends of a delivery, and whoever closes a failed job.                *)
(***************************************************************************)
RetryLater(g) ==
    /\ worker[g].pc = "run"
    /\ Stop(g)
    /\ UNCHANGED <<quota, calls, job, creator>>

\* No attempt left, a terminal error of the Provider, or a cancellation.
EndJob(g) ==
    /\ Live(g) \/ job[g] = "credits"
    /\ FailJob(g)
    /\ UNCHANGED <<quota, calls, creator, worker>>

\* A worker dies, or finds at its next write that the job is no longer its own;
\* the recovery pass gives up a job that may have called a Provider.
Crash(g) ==
    /\ worker[g].pc # "idle"
    /\ IF \/ worker[g].pc \in {"extend", "settle"}
          \/ \E c \in Calls : calls[g][c].status \in {"RUNNING", "SUCCEEDED"}
       THEN FailJob(g) ELSE UNCHANGED job
    /\ Stop(g)
    /\ UNCHANGED <<quota, calls, creator>>

Close(g) ==
    /\ job[g] = "failed"
    /\ ~IsCharged(g)
    /\ GiveBack(g)
    /\ UNCHANGED <<calls, job, creator, worker>>

-----------------------------------------------------------------------------
CreatorStep(g) ==
    \/ Reserve(g) \/ ReserveRefused(g) \/ FallBack(g) \/ Enqueue(g)
    \/ CreatorFails(g) \/ Catch(g) \/ CreatorDies(g)

WorkerStep(g) ==
    \/ Adopt(g) \/ Unreserve(g) \/ StartCall(g) \/ Preauthorize(g) \/ CallAbandoned(g)
    \/ Record(g) \/ CallEnds(g) \/ Answer(g) \/ Extend(g) \/ Settle(g) \/ Reconcile(g)
    \/ RetryLater(g) \/ Crash(g)

Next == \E g \in Generations : CreatorStep(g) \/ WorkerStep(g) \/ EndJob(g) \/ Close(g)

Spec == Init /\ [][Next]_vars

-----------------------------------------------------------------------------
RowType    == [status : {"none", "RESERVED", "RELEASED", "SETTLED"}, units : Nat, charged : Nat]
CallType   == [status : {"none", "RUNNING", "FAILED", "SUCCEEDED"}, reserved : Nat, charged : Nat]
CreatorType == [pc : {"reserve", "fallback", "enqueue", "catch", "over"}, next : Scopes]
WorkerType ==
    [pc : {"idle", "unreserve", "run", "preauth", "record", "call", "extend", "settle"},
     call : SUBSET Calls, units : Nat, total : Nat]

\* The rows and the local variables have the shape of the schema and the code.
TypeOK ==
    /\ used \in [Scopes -> Nat]
    /\ reserved \in [Scopes -> Nat]
    /\ rows \in [Generations -> [Scopes -> RowType]]
    /\ calls \in [Generations -> [Calls -> CallType]]
    /\ job \in [Generations -> {"live", "credits", "failed", "settled"}]
    /\ creator \in [Generations -> CreatorType]
    /\ worker \in [Generations -> WorkerType]

(***************************************************************************)
(* Safety.                                                                 *)
(***************************************************************************)

\* No interleaving of chats uses or holds more than the plan grants
\* (reserve, increase and the excess charge of a settlement).
QuotaNeverOverdrawn == \A s \in Scopes : used[s] + reserved[s] <= Granted[s]

\* What each chat has under way, and has used, in a scope.
HeldUnits(s)    == [g \in Generations |-> IF Holds(g, s) THEN rows[g][s].units ELSE 0]
ChargedUnits(s) == [g \in Generations |-> rows[g][s].charged]

\* The counters of a quota row are the sums of its reservations: no hold is
\* lost, given back twice or charged outside its settlement.
CountersAddUp ==
    \A s \in Scopes : /\ reserved[s] = Total(HeldUnits(s), Generations)
                      /\ used[s] = Total(ChargedUnits(s), Generations)

\* The month and the day tell the same story: equal holds of a chat while it
\* holds both, and equal charges, in every scope or in none.
ScopesAgree ==
    \A g \in Generations, s, r \in Scopes :
        /\ Holds(g, s) /\ Holds(g, r) => rows[g][s].units = rows[g][r].units
        /\ rows[g][s].status = "SETTLED" =>
              rows[g][r].status = "SETTLED" /\ rows[g][r].charged = rows[g][s].charged

\* What the runner reads from the metadata of its attempts is what the table
\* holds, over retries, failed calls and crashes, so that a settlement never
\* meets a charge above its hold.
HoldIsKnown ==
    \A g \in Generations, s \in Scopes :
        /\ worker[g].pc = "extend" /\ Live(g) /\ Holds(g, s) => rows[g][s].units = Known(g)
        /\ rows[g][s].status = "SETTLED" => rows[g][s].charged <= rows[g][s].units

(***************************************************************************)
(* What makes ScopesAgree inductive: nothing but the first hold is there   *)
(* while a scope is missing, and create() reserves every scope once.       *)
(***************************************************************************)
FirstHold ==
    \A g \in Generations, s, r \in Scopes :
        rows[g][s].status = "none" /\ Holds(g, r) => rows[g][r].units = Units

ReservedOnce ==
    \A g \in Generations, s \in Scopes :
        creator[g].pc = "reserve" /\ s >= creator[g].next => rows[g][s].status = "none"

ScopeInvariant == ScopesAgree /\ FirstHold /\ ReservedOnce
=============================================================================
