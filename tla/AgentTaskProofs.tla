-------------------------- MODULE AgentTaskProofs --------------------------
(***************************************************************************)
(* Proofs about AgentTask, for any number of requests, runs, rounds and    *)
(* redeliveries: the type invariant, and, when the worker of a task that   *)
(* waits for an approval ends its job before anything else happens to it,  *)
(* that an external tool runs once under a plan and only when approved.    *)
(*                                                                         *)
(* The argument of the last two is that a run has one bearer at a time:    *)
(* the request that will enqueue a job of it, the job that waits, or the   *)
(* worker that holds the job.  What this worker read of its calls is then  *)
(* still true when it acts on it.                                          *)
(***************************************************************************)
EXTENDS AgentTask, TotalsProofs

TaskStatus == Active \cup Final \cup {"DRAFT"}
RunStatus  == Active \cup Final \cup {"none"}
RunType    == [status : RunStatus, round : Round, node : Nodes \cup {"replan", "done"}]
CallType   == [status : {"none", "PENDING", "RUNNING", "SUCCEEDED", "FAILED", "SKIPPED"},
               approval : {"NOT_REQUIRED", "PENDING", "APPROVED", "REJECTED"}]
JobType    == [state : {"none", "waiting", "active", "stalled", "done"}, stalls : 0..MaxStalls + 1]
Places     == {"none", "claim task", "restore", "prepare", "plan", "tools", "call", "wait", "waited",
               "execute", "record", "checkpoint", "draft", "verify", "replan", "replanned", "deliver"}
WorkerType == [pc : Places, active : BOOLEAN, round : Round, seen : CallType, partial : BOOLEAN]
UserType   == [pc : {"idle", "enqueue", "cancel", "resume", "resume task"}, job : JobIds]

RowsOK ==
    /\ task \in TaskStatus
    /\ runs \in [Runs -> RunType]
    /\ calls \in [Runs -> [Round -> CallType]]
    /\ executed \in [Runs -> [Round -> Nat]]

\* A job that may still be delivered has deliveries left, and another round is
\* begun only when there is one.
ProcessesOK ==
    /\ jobs \in [JobIds -> JobType]
    /\ worker \in [JobIds -> WorkerType]
    /\ user \in [Users -> UserType]
    /\ \A j \in JobIds : /\ (jobs[j].state = "active") = Held(j)
                         /\ jobs[j].state \in {"waiting", "active", "stalled"}
                               => jobs[j].stalls <= MaxStalls
                         /\ At(j, "replan") => worker[j].round + 1 \in Round

TypeInv == RowsOK /\ ProcessesOK

\* Who may go on with a run: a job that waits or stalled, the worker of a job
\* that has not handed the run to its reviewer, a request about to enqueue.
JobBears(j) == \/ jobs[j].state \in {"waiting", "stalled"}
               \/ Held(j) /\ ~At(j, "waited")
UserBears(u) == user[u].pc \in {"enqueue", "resume task"}

OneBearer ==
    /\ \A j \in JobIds, k \in JobIds :
          JobBears(j) /\ JobBears(k) /\ RunOf(j) = RunOf(k) => j = k
    /\ \A u \in Users, v \in Users :
          UserBears(u) /\ UserBears(v) /\ RunOf(user[u].job) = RunOf(user[v].job) => u = v
    /\ \A j \in JobIds, u \in Users :
          ~(JobBears(j) /\ UserBears(u) /\ RunOf(j) = RunOf(user[u].job))

\* A run that was not started or waits for its reviewer has no bearer.
Unborne == {"none", "WAITING_APPROVAL"}

BearerIsNeeded ==
    /\ \A j \in JobIds : JobBears(j) => runs[RunOf(j)].status \notin Unborne
    /\ \A u \in Users : UserBears(u) => runs[RunOf(user[u].job)].status \notin Unborne

Allowed == {"NOT_REQUIRED", "APPROVED"}

\* A tool that was called leaves its call under way or done.
CallsOK ==
    \A r \in Runs, i \in Round :
       /\ executed[r][i] <= 1
       /\ executed[r][i] = 1 => /\ calls[r][i].status \in {"RUNNING", "SUCCEEDED"}
                                /\ calls[r][i].approval \in Allowed

\* What a worker knows of the call it is about to start or to record.
Knows(j) ==
    /\ At(j, "call") => /\ worker[j].seen = Call(j)
                        /\ Call(j).status # "none" /\ Call(j).approval # "PENDING"
    /\ worker[j].pc \in {"execute", "record"} =>
          Call(j).status = "RUNNING" /\ Call(j).approval \in Allowed
    /\ At(j, "execute") => executed[RunOf(j)][worker[j].round] = 0

BearerInv == OneBearer /\ BearerIsNeeded
CallInv   == CallsOK /\ \A j \in JobIds : Knows(j)

-----------------------------------------------------------------------------
(***************************************************************************)
(* What the helpers of the model write.                                    *)
(***************************************************************************)
LEMMA RunOfJob == \A j \in JobIds : RunOf(j) \in Runs
BY DEF JobIds, RunOf

LEMMA FirstRound == 0 \in Round
BY BoundsAssumption DEF Round

LEMMA NoCallType == NoCall \in CallType
BY DEF NoCall, CallType

LEMMA NoWorkerType == NoWorker \in WorkerType /\ NoWorker.pc = "none" /\ NoWorker.round = 0
BY NoCallType, FirstRound DEF NoWorker, WorkerType, Places

LEMMA FirstJobs == \A r \in Runs : <<r, First>> \in JobIds /\ RunOf(<<r, First>>) = r
BY DEF JobIds, RunOf

LEMMA RoundJobs == \A r \in Runs, i \in Round : <<r, i>> \in JobIds /\ RunOf(<<r, i>>) = r
BY DEF JobIds, RunOf

LEMMA IdleType == Idle \in UserType /\ Idle.pc = "idle"
<1>1. 1 \in Runs
  BY BoundsAssumption DEF Runs
<1>2. <<1, First>> \in JobIds
  BY <1>1, FirstJobs
<1>. QED
  BY <1>2 DEF Idle, UserType

\* A step of a worker to another place of the code.
LEMMA GotoEffect ==
    ASSUME ProcessesOK, NEW j \in JobIds, NEW label \in Places, Goto(j, label)
    PROVE  /\ worker' \in [JobIds -> WorkerType]
           /\ \A k \in JobIds : k # j => worker'[k] = worker[k]
           /\ worker'[j].pc = label /\ ~worker'[j].active
           /\ worker'[j].round = worker[j].round /\ worker'[j].seen = worker[j].seen
<1>1. worker \in [JobIds -> WorkerType] /\ worker[j] \in WorkerType
  BY DEF ProcessesOK
<1>2. [worker[j] EXCEPT !.pc = label, !.active = FALSE] \in WorkerType
  BY <1>1 DEF WorkerType
<1>3. worker' = [worker EXCEPT ![j] = [worker[j] EXCEPT !.pc = label, !.active = FALSE]]
  BY <1>1 DEF Goto
<1>. QED
  BY <1>1, <1>2, <1>3 DEF WorkerType

\* The end of a job.
LEMMA ReturnEffect ==
    ASSUME ProcessesOK, NEW j \in JobIds, Return(j)
    PROVE  /\ worker' \in [JobIds -> WorkerType] /\ jobs' \in [JobIds -> JobType]
           /\ \A k \in JobIds : k # j => worker'[k] = worker[k] /\ jobs'[k] = jobs[k]
           /\ worker'[j] = NoWorker /\ jobs'[j].state = "done"
<1>1. jobs \in [JobIds -> JobType] /\ jobs[j] \in JobType /\ worker \in [JobIds -> WorkerType]
  BY DEF ProcessesOK
<1>2. [jobs[j] EXCEPT !.state = "done"] \in JobType
  BY <1>1 DEF JobType
<1>3. jobs' = [jobs EXCEPT ![j] = [jobs[j] EXCEPT !.state = "done"]]
  BY <1>1 DEF Return
<1>. QED
  BY <1>1, <1>2, <1>3, NoWorkerType DEF Return, JobType

\* The status and the node of the run.
LEMMA SetRunEffect ==
    ASSUME RowsOK, NEW j \in JobIds, NEW status \in RunStatus,
           NEW node \in Nodes \cup {"replan", "done"}, SetRun(j, status, node)
    PROVE  /\ runs' \in [Runs -> RunType]
           /\ \A r \in Runs : r # RunOf(j) => runs'[r] = runs[r]
           /\ runs'[RunOf(j)].status = status
<1>1. runs \in [Runs -> RunType] /\ RunOf(j) \in Runs /\ runs[RunOf(j)] \in RunType
  BY RunOfJob DEF RowsOK
<1>2. [runs[RunOf(j)] EXCEPT !.status = status, !.node = node] \in RunType
  BY <1>1 DEF RunType
<1>3. runs' = [runs EXCEPT ![RunOf(j)] = [runs[RunOf(j)] EXCEPT !.status = status, !.node = node]]
  BY <1>1 DEF SetRun
<1>. QED
  BY <1>1, <1>2, <1>3 DEF RunType

LEMMA SetNodeEffect ==
    ASSUME RowsOK, NEW r \in Runs, NEW node \in Nodes \cup {"replan", "done"},
           runs' = [runs EXCEPT ![r].node = node]
    PROVE  /\ runs' \in [Runs -> RunType]
           /\ \A s \in Runs : runs'[s].status = runs[s].status
<1>1. runs \in [Runs -> RunType] /\ runs[r] \in RunType
  BY DEF RowsOK
<1>2. [runs[r] EXCEPT !.node = node] \in RunType
  BY <1>1 DEF RunType
<1>3. runs' = [runs EXCEPT ![r] = [runs[r] EXCEPT !.node = node]]
  BY <1>1
<1>. QED
  BY <1>1, <1>2, <1>3 DEF RunType

\* Only the status of the run.
LEMMA SetStatusEffect ==
    ASSUME RowsOK, NEW r \in Runs, NEW status \in RunStatus,
           runs' = [runs EXCEPT ![r].status = status]
    PROVE  /\ runs' \in [Runs -> RunType]
           /\ \A s \in Runs : s # r => runs'[s] = runs[s]
           /\ runs'[r].status = status
<1>1. runs \in [Runs -> RunType] /\ runs[r] \in RunType
  BY DEF RowsOK
<1>2. [runs[r] EXCEPT !.status = status] \in RunType
  BY <1>1 DEF RunType
<1>3. runs' = [runs EXCEPT ![r] = [runs[r] EXCEPT !.status = status]]
  BY <1>1
<1>. QED
  BY <1>1, <1>2, <1>3 DEF RunType

\* One field of a call, or the whole call.
LEMMA CallEffect ==
    ASSUME RowsOK, NEW r \in Runs, NEW i \in Round, NEW call \in CallType,
           calls' = [calls EXCEPT ![r][i] = call]
    PROVE  /\ calls' \in [Runs -> [Round -> CallType]]
           /\ \A s \in Runs, k \in Round : s # r \/ k # i => calls'[s][k] = calls[s][k]
           /\ calls'[r][i] = call
BY DEF RowsOK

LEMMA ExecutedEffect ==
    ASSUME RowsOK, NEW r \in Runs, NEW i \in Round, NEW n \in Nat,
           executed' = [executed EXCEPT ![r][i] = n]
    PROVE  /\ executed' \in [Runs -> [Round -> Nat]]
           /\ \A s \in Runs, k \in Round : s # r \/ k # i => executed'[s][k] = executed[s][k]
           /\ executed'[r][i] = n
BY DEF RowsOK

CallStatus == {"none", "PENDING", "RUNNING", "SUCCEEDED", "FAILED", "SKIPPED"}

LEMMA CallStatusEffect ==
    ASSUME RowsOK, NEW r \in Runs, NEW i \in Round, NEW status \in CallStatus,
           calls' = [calls EXCEPT ![r][i].status = status]
    PROVE  /\ calls' \in [Runs -> [Round -> CallType]]
           /\ \A s \in Runs, k \in Round : s # r \/ k # i => calls'[s][k] = calls[s][k]
           /\ calls'[r][i].status = status /\ calls'[r][i].approval = calls[r][i].approval
<1>1. calls[r] \in [Round -> CallType] /\ calls[r][i] \in CallType
  BY DEF RowsOK
<1>2. [calls[r][i] EXCEPT !.status = status] \in CallType
  BY <1>1 DEF CallType, CallStatus
<1>3. /\ calls' \in [Runs -> [Round -> CallType]]
      /\ \A s \in Runs, k \in Round : s # r \/ k # i => calls'[s][k] = calls[s][k]
      /\ calls'[r][i] = [calls[r][i] EXCEPT !.status = status]
  BY <1>1, <1>2 DEF RowsOK
<1>. QED
  BY <1>1, <1>3 DEF CallType

\* The decision of the reviewer.
LEMMA ApprovalEffect ==
    ASSUME RowsOK, NEW r \in Runs, NEW i \in Round, NEW decision \in {"APPROVED", "REJECTED"},
           calls' = [calls EXCEPT ![r][i].approval = decision]
    PROVE  /\ calls' \in [Runs -> [Round -> CallType]]
           /\ \A s \in Runs, k \in Round : s # r \/ k # i => calls'[s][k] = calls[s][k]
           /\ calls'[r][i].status = calls[r][i].status /\ calls'[r][i].approval = decision
<1>1. calls[r] \in [Round -> CallType] /\ calls[r][i] \in CallType
  BY DEF RowsOK
<1>2. [calls[r][i] EXCEPT !.approval = decision] \in CallType
  BY <1>1 DEF CallType
<1>3. /\ calls' \in [Runs -> [Round -> CallType]]
      /\ \A s \in Runs, k \in Round : s # r \/ k # i => calls'[s][k] = calls[s][k]
      /\ calls'[r][i] = [calls[r][i] EXCEPT !.approval = decision]
  BY <1>1, <1>2 DEF RowsOK
<1>. QED
  BY <1>1, <1>3 DEF CallType

LEMMA SetCallEffect ==
    ASSUME RowsOK, ProcessesOK, NEW j \in JobIds, NEW status \in CallStatus, SetCall(j, status)
    PROVE  LET r == RunOf(j)  i == worker[j].round IN
           /\ r \in Runs /\ i \in Round
           /\ calls' \in [Runs -> [Round -> CallType]]
           /\ \A s \in Runs, k \in Round : s # r \/ k # i => calls'[s][k] = calls[s][k]
           /\ calls'[r][i].status = status /\ calls'[r][i].approval = calls[r][i].approval
           /\ executed' = executed
<1>1. RunOf(j) \in Runs /\ worker[j].round \in Round
  BY RunOfJob DEF ProcessesOK, WorkerType
<1>2. PICK r \in Runs, i \in Round : r = RunOf(j) /\ i = worker[j].round
  BY <1>1
<1>3. calls' = [calls EXCEPT ![r][i].status = status] /\ executed' = executed
  BY <1>2 DEF SetCall
<1>4. /\ calls' \in [Runs -> [Round -> CallType]]
      /\ \A s \in Runs, k \in Round : s # r \/ k # i => calls'[s][k] = calls[s][k]
      /\ calls'[r][i].status = status /\ calls'[r][i].approval = calls[r][i].approval
  BY <1>3, CallStatusEffect
<1>. QED
  BY <1>1, <1>2, <1>3, <1>4

LEMMA FailCallEffect ==
    ASSUME RowsOK, ProcessesOK, NEW j \in JobIds, FailCall(j)
    PROVE  LET r == RunOf(j)  i == worker[j].round IN
           /\ r \in Runs /\ i \in Round
           /\ calls' \in [Runs -> [Round -> CallType]] /\ executed' \in [Runs -> [Round -> Nat]]
           /\ \A s \in Runs, k \in Round : s # r \/ k # i =>
                 calls'[s][k] = calls[s][k] /\ executed'[s][k] = executed[s][k]
           /\ calls'[r][i].status = "FAILED" /\ executed'[r][i] = 0
<1>1. RunOf(j) \in Runs /\ worker[j].round \in Round
  BY RunOfJob DEF ProcessesOK, WorkerType
<1>2. "FAILED" \in CallStatus /\ 0 \in Nat
  BY DEF CallStatus
<1>3. PICK r \in Runs, i \in Round : r = RunOf(j) /\ i = worker[j].round
  BY <1>1
<1>4. calls' = [calls EXCEPT ![r][i].status = "FAILED"] /\ executed' = [executed EXCEPT ![r][i] = 0]
  BY <1>3 DEF FailCall
<1>5. /\ calls' \in [Runs -> [Round -> CallType]]
      /\ \A s \in Runs, k \in Round : s # r \/ k # i => calls'[s][k] = calls[s][k]
      /\ calls'[r][i].status = "FAILED"
  BY <1>2, <1>4, CallStatusEffect
<1>6. /\ executed' \in [Runs -> [Round -> Nat]]
      /\ \A s \in Runs, k \in Round : s # r \/ k # i => executed'[s][k] = executed[s][k]
      /\ executed'[r][i] = 0
  BY <1>2, <1>4, ExecutedEffect
<1>. QED
  BY <1>1, <1>3, <1>5, <1>6

\* A planned call was never executed; any other call is left as it was, unless
\* it was planned before and the plan drops it.
LEMMA PersistPlanEffect ==
    ASSUME RowsOK, NEW r \in Runs, NEW i \in Round, PersistPlan(r, i)
    PROVE  /\ runs' \in [Runs -> RunType]
           /\ \A s \in Runs : runs'[s].status = runs[s].status
           /\ calls' \in [Runs -> [Round -> CallType]] /\ executed' \in [Runs -> [Round -> Nat]]
           /\ \A s \in Runs, k \in Round : s # r \/ k # i =>
                 calls'[s][k] = calls[s][k] /\ executed'[s][k] = executed[s][k]
           /\ \/ executed'[r][i] = 0
              \/ calls[r][i].status = "PENDING" /\ executed'[r][i] = executed[r][i]
              \/ calls'[r][i] = calls[r][i] /\ executed'[r][i] = executed[r][i]
<1>1. PICK call \in [status : {"PENDING"}, approval : {"NOT_REQUIRED", "PENDING"}]
                       \cup {IF calls[r][i].status = "PENDING" THEN NoCall ELSE calls[r][i]} :
         /\ calls' = [calls EXCEPT ![r][i] = call]
         /\ executed' = IF call.status = "PENDING" THEN [executed EXCEPT ![r][i] = 0] ELSE executed
  BY DEF PersistPlan
<1>2. calls[r][i] \in CallType /\ executed \in [Runs -> [Round -> Nat]]
  BY DEF RowsOK
<1>3. call \in CallType
  BY <1>1, <1>2, NoCallType DEF CallType
<1>4. /\ calls' \in [Runs -> [Round -> CallType]]
      /\ \A s \in Runs, k \in Round : s # r \/ k # i => calls'[s][k] = calls[s][k]
      /\ calls'[r][i] = call
  BY <1>1, <1>3, CallEffect
<1>5. runs' \in [Runs -> RunType] /\ \A s \in Runs : runs'[s].status = runs[s].status
  <2>1. "tools" \in Nodes \cup {"replan", "done"} /\ runs' = [runs EXCEPT ![r].node = "tools"]
    BY DEF PersistPlan, Nodes
  <2>. QED
    BY <2>1, SetNodeEffect
<1>6. CASE call.status = "PENDING"
  <2>1. executed' = [executed EXCEPT ![r][i] = 0] /\ 0 \in Nat
    BY <1>1, <1>6
  <2>2. /\ executed' \in [Runs -> [Round -> Nat]]
        /\ \A s \in Runs, k \in Round : s # r \/ k # i => executed'[s][k] = executed[s][k]
        /\ executed'[r][i] = 0
    BY <2>1, ExecutedEffect
  <2>. QED
    BY <1>4, <1>5, <2>2
<1>7. CASE call.status # "PENDING"
  <2>1. executed' = executed
    BY <1>1, <1>7
  <2>2. call \notin [status : {"PENDING"}, approval : {"NOT_REQUIRED", "PENDING"}]
    BY <1>7
  <2>3. call = IF calls[r][i].status = "PENDING" THEN NoCall ELSE calls[r][i]
    BY <1>1, <2>2
  <2>4. calls[r][i].status = "PENDING" \/ calls'[r][i] = calls[r][i]
    BY <2>3, <1>4
  <2>. QED
    BY <1>2, <1>4, <1>5, <2>1, <2>4
<1>. QED
  BY <1>6, <1>7

\* The requests of the user.
LEMMA GotoUserEffect ==
    ASSUME ProcessesOK, NEW u \in Users, NEW label \in {"cancel", "resume task", "enqueue"},
           GotoUser(u, label)
    PROVE  /\ user' \in [Users -> UserType]
           /\ \A v \in Users : v # u => user'[v] = user[v]
           /\ user'[u].pc = label /\ user'[u].job = user[u].job
<1>1. user \in [Users -> UserType] /\ user[u] \in UserType
  BY DEF ProcessesOK
<1>2. [user[u] EXCEPT !.pc = label] \in UserType
  BY <1>1 DEF UserType
<1>3. user' = [user EXCEPT ![u] = [user[u] EXCEPT !.pc = label]]
  BY <1>1 DEF GotoUser
<1>. QED
  BY <1>1, <1>2, <1>3 DEF UserType

LEMMA RespondEffect ==
    ASSUME ProcessesOK, NEW u \in Users, Respond(u)
    PROVE  /\ user' \in [Users -> UserType]
           /\ \A v \in Users : v # u => user'[v] = user[v]
           /\ user'[u].pc = "idle"
BY IdleType DEF ProcessesOK, Respond

\* The run that run() takes: the first that was never used.
LEMMA FirstUnused ==
    ASSUME Unused # {}
    PROVE  (CHOOSE r \in Unused : \A other \in Unused : r <= other) \in Unused
<1>1. Unused \subseteq Nat
  BY BoundsAssumption DEF Unused, Runs
<1>. QED
  BY <1>1, LeastExists

-----------------------------------------------------------------------------
(***************************************************************************)
(* Types.                                                                  *)
(***************************************************************************)
LEMMA WorkerGoesOn ==
    ASSUME ProcessesOK, NEW j \in JobIds, Held(j), UNCHANGED <<jobs, user>>,
           worker' \in [JobIds -> WorkerType],
           \A k \in JobIds : k # j => worker'[k] = worker[k],
           worker'[j].pc # "none",
           worker'[j].pc = "replan" => worker'[j].round + 1 \in Round
    PROVE  ProcessesOK'
BY DEF ProcessesOK, Held, At

LEMMA WorkerReturns ==
    ASSUME ProcessesOK, NEW j \in JobIds, Return(j), UNCHANGED user
    PROVE  ProcessesOK'
BY ReturnEffect, NoWorkerType DEF ProcessesOK, Held, At

LEMMA WorkerGoes ==
    ASSUME ProcessesOK, NEW j \in JobIds, Held(j), UNCHANGED <<jobs, user>>,
           NEW label \in Places \ {"none", "replan"}, Goto(j, label)
    PROVE  ProcessesOK'
<1>1. label \in Places
  OBVIOUS
<1>2. /\ worker' \in [JobIds -> WorkerType]
      /\ \A k \in JobIds : k # j => worker'[k] = worker[k]
      /\ worker'[j].pc = label
  BY <1>1, GotoEffect
<1>. QED
  BY <1>2, WorkerGoesOn

LEMMA UserGoesOn ==
    ASSUME ProcessesOK, UNCHANGED <<jobs, worker>>, user' \in [Users -> UserType]
    PROVE  ProcessesOK'
BY DEF ProcessesOK, Held, At

LEMMA InitType == Init => TypeInv
<1>. SUFFICES ASSUME Init PROVE TypeInv
  OBVIOUS
<1>1. RowsOK
  BY FirstRound, NoCallType DEF Init, RowsOK, TaskStatus, RunType, RunStatus, Active, Final, Nodes
<1>2. jobs \in [JobIds -> JobType]
  BY BoundsAssumption DEF Init, JobType
<1>3. worker \in [JobIds -> WorkerType] /\ user \in [Users -> UserType]
  BY NoWorkerType, IdleType DEF Init
<1>. QED
  BY <1>1, <1>2, <1>3, NoWorkerType DEF TypeInv, ProcessesOK, Init, Held, At

LEMMA UserStepType ==
    ASSUME TypeInv, NEW u \in Users, UserStep(u)
    PROVE  TypeInv'
<1>. USE DEF TypeInv
<1>u. user[u] \in UserType /\ user[u].job \in JobIds /\ RunOf(user[u].job) \in Runs
  BY RunOfJob DEF ProcessesOK, UserType
<1>1. CASE Run(u)
  <2>. DEFINE r == CHOOSE r \in Unused : \A other \in Unused : r <= other
  <2>1. r \in Runs
    BY <1>1, FirstUnused DEF Run, Unused
  <2>. HIDE DEF r
  <2>2. /\ runs' = [runs EXCEPT ![r].status = "QUEUED"] /\ task' = "QUEUED"
        /\ user' = [user EXCEPT ![u] = [pc |-> "enqueue", job |-> <<r, First>>]]
        /\ UNCHANGED <<callVars, jobs, worker>>
    BY <1>1 DEF Run, r
  <2>3. "QUEUED" \in RunStatus /\ "QUEUED" \in TaskStatus
    BY DEF RunStatus, TaskStatus, Active
  <2>4. RowsOK'
    BY <2>1, <2>2, <2>3, SetStatusEffect DEF RowsOK, callVars
  <2>5. user' \in [Users -> UserType]
    BY <2>1, <2>2, FirstJobs DEF ProcessesOK, UserType
  <2>. QED
    BY <2>2, <2>4, <2>5, UserGoesOn
<1>2. CASE Enqueue(u)
  <2>1. RowsOK'
    BY <1>2 DEF Enqueue, RowsOK, taskVars, callVars
  <2>2. user' \in [Users -> UserType] /\ worker' = worker
    BY <1>2, RespondEffect DEF Enqueue
  <2>3. CASE jobs[user[u].job].state = "none"
    <3>1. jobs' = [jobs EXCEPT ![user[u].job] = [state |-> "waiting", stalls |-> 0]]
      BY <1>2, <2>3 DEF Enqueue
    <3>2. [state |-> "waiting", stalls |-> 0] \in JobType
      BY BoundsAssumption DEF JobType
    <3>3. ~Held(user[u].job)
      BY <2>3, <1>u DEF ProcessesOK
    <3>. QED
      BY <1>u, <2>1, <2>2, <3>1, <3>2, <3>3, BoundsAssumption DEF ProcessesOK, Held, At
  <2>4. CASE jobs[user[u].job].state # "none"
    <3>1. jobs' = jobs
      BY <1>2, <2>4 DEF Enqueue
    <3>. QED
      BY <2>1, <2>2, <3>1, UserGoesOn
  <2>. QED
    BY <2>3, <2>4
<1>3. CASE EnqueueFails(u)
  <2>1. "FAILED" \in RunStatus /\ "FAILED" \in TaskStatus
    BY DEF RunStatus, TaskStatus, Final
  <2>2. runs' = runs \/ runs' = [runs EXCEPT ![RunOf(user[u].job)].status = "FAILED"]
    BY <1>3 DEF EnqueueFails
  <2>3. runs' \in [Runs -> RunType]
    BY <1>u, <2>1, <2>2, SetStatusEffect DEF RowsOK
  <2>4. RowsOK'
    BY <1>3, <2>1, <2>3 DEF EnqueueFails, RowsOK, callVars
  <2>. QED
    BY <1>3, <2>4, RespondEffect, UserGoesOn DEF EnqueueFails
<1>4. CASE RemoveJobs(u)
  <2>1. RowsOK'
    BY <1>4 DEF RemoveJobs, RowsOK, taskVars, callVars
  <2>2. user' \in [Users -> UserType] /\ worker' = worker
    BY <1>4, GotoUserEffect DEF RemoveJobs
  <2>3. \A j \in JobIds : jobs'[j] = IF jobs[j].state = "waiting"
                                     THEN [jobs[j] EXCEPT !.state = "none"] ELSE jobs[j]
    BY <1>4 DEF RemoveJobs
  <2>4. \A j \in JobIds : /\ jobs'[j] \in JobType
                          /\ \/ jobs'[j] = jobs[j]
                             \/ jobs[j].state = "waiting" /\ jobs'[j].state = "none"
    <3>1. TAKE j \in JobIds
    <3>2. jobs[j] \in JobType
      BY DEF ProcessesOK
    <3>3. /\ [jobs[j] EXCEPT !.state = "none"] \in JobType
          /\ [jobs[j] EXCEPT !.state = "none"].state = "none"
      BY <3>2 DEF JobType
    <3>4. \/ jobs'[j] = jobs[j]
          \/ jobs[j].state = "waiting" /\ jobs'[j] = [jobs[j] EXCEPT !.state = "none"]
      BY <2>3
    <3>. QED
      BY <3>2, <3>3, <3>4
  <2>5. jobs' \in [JobIds -> JobType]
    BY <1>4, <2>4 DEF RemoveJobs
  <2>. QED
    BY <2>1, <2>2, <2>4, <2>5 DEF ProcessesOK, Held, At
<1>5. CASE Cancel(u)
  <2>1. \A r \in Runs : runs'[r] = IF runs[r].status \in Active
                                   THEN [runs[r] EXCEPT !.status = "CANCELLED"] ELSE runs[r]
    BY <1>5 DEF Cancel
  <2>2. \A r \in Runs : runs'[r] \in RunType
    BY <2>1 DEF RowsOK, RunType, RunStatus, Final
  <2>3. runs' \in [Runs -> RunType]
    BY <1>5, <2>2 DEF Cancel
  <2>4. RowsOK'
    BY <1>5, <2>3 DEF Cancel, RowsOK, TaskStatus, Final, callVars
  <2>. QED
    BY <1>5, <2>4, RespondEffect, UserGoesOn DEF Cancel
<1>6. CASE Review(u)
  <2>1. PICK r \in Runs, i \in Round, decision \in {"APPROVED", "REJECTED"} :
           /\ calls' = [calls EXCEPT ![r][i].approval = decision]
           /\ user' = [user EXCEPT ![u] = [pc |-> "resume", job |-> <<r, i>>]]
    BY <1>6 DEF Review
  <2>2. calls' \in [Runs -> [Round -> CallType]]
    BY <2>1, ApprovalEffect
  <2>3. RowsOK'
    BY <1>6, <2>2 DEF Review, RowsOK, taskVars
  <2>4. user' \in [Users -> UserType]
    BY <2>1, RoundJobs DEF ProcessesOK, UserType
  <2>. QED
    BY <1>6, <2>3, <2>4, UserGoesOn DEF Review
<1>7. CASE ResumeRun(u)
  <2>1. user' \in [Users -> UserType]
    BY <1>7, GotoUserEffect, RespondEffect DEF ResumeRun
  <2>2. runs' \in [Runs -> RunType]
    <3>. DEFINE r == RunOf(user[u].job)
    <3>1. runs' = runs \/ runs' = [runs EXCEPT ![r] = [runs[r] EXCEPT !.status = "QUEUED", !.node = "tools"]]
      BY <1>7, <1>u DEF ResumeRun, RowsOK
    <3>2. runs \in [Runs -> RunType] /\ r \in Runs /\ runs[r] \in RunType
      BY <1>u DEF RowsOK
    <3>3. [runs[r] EXCEPT !.status = "QUEUED", !.node = "tools"] \in RunType
      BY <3>2 DEF RunType, RunStatus, Active, Nodes
    <3>. QED
      BY <3>1, <3>2, <3>3
  <2>3. RowsOK'
    BY <1>7, <2>2 DEF ResumeRun, RowsOK, callVars
  <2>. QED
    BY <1>7, <2>1, <2>3, UserGoesOn DEF ResumeRun
<1>8. CASE ResumeTask(u)
  <2>1. RowsOK'
    BY <1>8 DEF ResumeTask, RowsOK, TaskStatus, Active, callVars
  <2>. QED
    BY <1>8, <2>1, GotoUserEffect, UserGoesOn DEF ResumeTask
<1>9. CASE UserDies(u)
  <2>1. RowsOK'
    BY <1>9 DEF UserDies, RowsOK, taskVars, callVars
  <2>. QED
    BY <1>9, <2>1, RespondEffect, UserGoesOn DEF UserDies
<1>. QED
  BY <1>1, <1>2, <1>3, <1>4, <1>5, <1>6, <1>7, <1>8, <1>9 DEF UserStep

LEMMA WorkerStepType ==
    ASSUME TypeInv, NEW j \in JobIds, WorkerStep(j)
    PROVE  TypeInv'
<1>. USE DEF TypeInv
<1>j. /\ RunOf(j) \in Runs /\ runs[RunOf(j)] \in RunType /\ worker[j] \in WorkerType
      /\ worker[j].round \in Round /\ jobs[j] \in JobType
  BY RunOfJob DEF RowsOK, ProcessesOK, WorkerType
<1>n. Nodes \subseteq Nodes \cup {"replan", "done"} /\ "replan" \in Nodes \cup {"replan", "done"}
  OBVIOUS
<1>1. CASE ClaimRun(j)
  <2>1. "RUNNING" \in RunStatus
    BY DEF RunStatus, Active
  <2>2. runs' \in [Runs -> RunType]
    <3>1. runs' = runs \/ runs' = [runs EXCEPT ![RunOf(j)].status = "RUNNING"]
      BY <1>1 DEF ClaimRun
    <3>. QED
      BY <3>1, <2>1, <1>j, SetStatusEffect DEF RowsOK
  <2>3. RowsOK'
    BY <1>1, <2>2 DEF ClaimRun, RowsOK, callVars
  <2>4. jobs[j].state = "waiting" /\ UNCHANGED user /\ ~Held(j)
    BY <1>1 DEF ClaimRun, ProcessesOK
  <2>5. CASE Claimable(RunOf(j))
    <3>1. /\ jobs' = [jobs EXCEPT ![j].state = "active"]
          /\ worker' = [worker EXCEPT ![j].pc = "claim task"]
      BY <1>1, <2>5 DEF ClaimRun
    <3>2. /\ [jobs[j] EXCEPT !.state = "active"] \in JobType
          /\ [jobs[j] EXCEPT !.state = "active"].state = "active"
          /\ [jobs[j] EXCEPT !.state = "active"].stalls = jobs[j].stalls
      BY <1>j DEF JobType
    <3>3. /\ [worker[j] EXCEPT !.pc = "claim task"] \in WorkerType
          /\ [worker[j] EXCEPT !.pc = "claim task"].pc = "claim task"
      BY <1>j DEF WorkerType, Places
    <3>4. /\ jobs' = [jobs EXCEPT ![j] = [jobs[j] EXCEPT !.state = "active"]]
          /\ worker' = [worker EXCEPT ![j] = [worker[j] EXCEPT !.pc = "claim task"]]
      BY <3>1 DEF ProcessesOK
    <3>5. /\ jobs' \in [JobIds -> JobType] /\ worker' \in [JobIds -> WorkerType]
          /\ \A k \in JobIds : k # j => jobs'[k] = jobs[k] /\ worker'[k] = worker[k]
          /\ jobs'[j].state = "active" /\ jobs'[j].stalls = jobs[j].stalls
          /\ worker'[j].pc = "claim task"
      BY <3>2, <3>3, <3>4 DEF ProcessesOK
    <3>. QED
      BY <2>3, <2>4, <3>5 DEF ProcessesOK, Held, At
  <2>6. CASE ~Claimable(RunOf(j))
    <3>1. jobs' = [jobs EXCEPT ![j].state = "done"] /\ worker' = worker
      BY <1>1, <2>6 DEF ClaimRun
    <3>2. jobs' \in [JobIds -> JobType] /\ jobs'[j].state = "done"
          /\ \A k \in JobIds : k # j => jobs'[k] = jobs[k]
      BY <3>1, <1>j DEF ProcessesOK, JobType
    <3>. QED
      BY <2>3, <2>4, <3>1, <3>2 DEF ProcessesOK, Held, At
  <2>. QED
    BY <2>5, <2>6
<1>2. CASE ClaimTask(j)
  <2>1. RowsOK'
    BY <1>2 DEF ClaimTask, RowsOK, TaskStatus, Active, callVars
  <2>. QED
    BY <1>2, <2>1, WorkerGoes DEF ClaimTask, Places, At, Held
<1>3. CASE Restore(j)
  <2>1. RowsOK'
    BY <1>3 DEF Restore, RowsOK, taskVars, callVars
  <2>. DEFINE run == runs[RunOf(j)]
              pc  == IF run.node \in {"tools", "draft"} THEN run.node ELSE "prepare"
              w   == [NoWorker EXCEPT !.round = run.round, !.pc = pc]
  <2>2. worker' = [worker EXCEPT ![j] = w]
    BY <1>3 DEF Restore
  <2>3. w \in WorkerType /\ w.pc \in {"tools", "draft", "prepare"}
    BY <1>j, NoWorkerType DEF RunType, WorkerType, Places
  <2>. HIDE DEF w
  <2>4. /\ worker' \in [JobIds -> WorkerType] /\ worker'[j].pc \in {"tools", "draft", "prepare"}
        /\ \A k \in JobIds : k # j => worker'[k] = worker[k]
    BY <2>2, <2>3 DEF ProcessesOK
  <2>5. Held(j) /\ UNCHANGED <<jobs, user>>
    BY <1>3 DEF Restore, Held, At
  <2>. QED
    BY <2>1, <2>4, <2>5, WorkerGoesOn
<1>4. CASE AssertActive(j)
  <2>1. RowsOK'
    BY <1>4 DEF AssertActive, RowsOK, taskVars, callVars
  <2>2. CASE Return(j)
    BY <1>4, <2>1, <2>2, WorkerReturns DEF AssertActive
  <2>3. CASE worker' = [worker EXCEPT ![j].active = TRUE] /\ UNCHANGED jobs
    <3>1. /\ [worker[j] EXCEPT !.active = TRUE] \in WorkerType
          /\ [worker[j] EXCEPT !.active = TRUE].pc = worker[j].pc
      BY <1>j DEF WorkerType
    <3>2. worker' = [worker EXCEPT ![j] = [worker[j] EXCEPT !.active = TRUE]]
      BY <2>3 DEF ProcessesOK
    <3>3. /\ worker' \in [JobIds -> WorkerType] /\ worker'[j].pc = worker[j].pc
          /\ \A k \in JobIds : k # j => worker'[k] = worker[k]
      BY <3>1, <3>2 DEF ProcessesOK
    <3>4. Held(j) /\ worker[j].pc # "replan" /\ UNCHANGED user
      BY <1>4 DEF AssertActive, Guarded, Held, At
    <3>. QED
      BY <2>1, <2>3, <3>3, <3>4, WorkerGoesOn DEF Held, At
  <2>. QED
    BY <1>4, <2>2, <2>3 DEF AssertActive
<1>5. CASE Stop(j)
  <2>1. RowsOK'
    BY <1>5 DEF Stop, RowsOK, taskVars, callVars
  <2>. QED
    BY <1>5, <2>1, WorkerReturns DEF Stop
<1>6. CASE Prepare(j)
  <2>1. runs' \in [Runs -> RunType]
    BY <1>6, <1>j, <1>n, SetNodeEffect DEF Prepare, SetNode, Nodes
  <2>2. RowsOK'
    BY <1>6, <2>1 DEF Prepare, RowsOK, callVars
  <2>. QED
    BY <1>6, <2>2, WorkerGoes DEF Prepare, Places, In, At, Held
<1>7. CASE Plan(j)
  <2>1. RowsOK'
    BY <1>7, <1>j, PersistPlanEffect DEF Plan, RowsOK
  <2>. QED
    BY <1>7, <2>1, WorkerGoes DEF Plan, Places, In, At, Held
<1>8. CASE ReadCalls(j)
  <2>1. RowsOK'
    BY <1>8 DEF ReadCalls, RowsOK, taskVars, callVars
  <2>. DEFINE pc == IF Waits(j) THEN "wait" ELSE IF Call(j).status = "none" THEN "checkpoint" ELSE "call"
              w  == [worker[j] EXCEPT !.active = FALSE, !.seen = Call(j), !.pc = pc]
  <2>2. worker' = [worker EXCEPT ![j] = w]
    BY <1>8 DEF ReadCalls, ProcessesOK
  <2>3. Call(j) \in CallType /\ pc \in {"wait", "checkpoint", "call"}
    BY <1>j DEF Call, RowsOK
  <2>. HIDE DEF pc
  <2>4. w \in WorkerType /\ w.pc = pc
    BY <1>j, <2>3 DEF WorkerType, Places
  <2>. HIDE DEF w
  <2>5. /\ worker' \in [JobIds -> WorkerType] /\ worker'[j].pc = pc
        /\ \A k \in JobIds : k # j => worker'[k] = worker[k]
    BY <2>2, <2>4 DEF ProcessesOK
  <2>6. Held(j) /\ UNCHANGED <<jobs, user>>
    BY <1>8 DEF ReadCalls, In, Held, At
  <2>. QED
    BY <2>1, <2>3, <2>5, <2>6, WorkerGoesOn
<1>9. CASE AwaitApproval(j)
  <2>1. runs' \in [Runs -> RunType]
    BY <1>9, <1>n, SetRunEffect DEF AwaitApproval, RunStatus, Active, Nodes
  <2>2. RowsOK'
    BY <1>9, <2>1 DEF AwaitApproval, RowsOK, TaskStatus, Active, callVars
  <2>. QED
    BY <1>9, <2>2, WorkerGoes DEF AwaitApproval, Places, At, Held
<1>10. CASE EndWait(j)
  <2>1. RowsOK'
    BY <1>10 DEF EndWait, RowsOK, taskVars, callVars
  <2>. QED
    BY <1>10, <2>1, WorkerReturns DEF EndWait
<1>. DEFINE called == [worker[j] EXCEPT !.pc = "checkpoint", !.active = FALSE, !.seen = NoCall]
<1>c. ASSUME Called(j), Held(j), UNCHANGED <<jobs, user>>
      PROVE  ProcessesOK'
  <2>1. worker' = [worker EXCEPT ![j] = called]
    BY <1>c DEF Called, ProcessesOK
  <2>2. called \in WorkerType /\ called.pc = "checkpoint"
    BY <1>j, NoCallType DEF WorkerType, Places
  <2>. HIDE DEF called
  <2>3. /\ worker' \in [JobIds -> WorkerType] /\ worker'[j].pc = "checkpoint"
        /\ \A k \in JobIds : k # j => worker'[k] = worker[k]
    BY <2>1, <2>2 DEF ProcessesOK
  <2>. QED
    BY <1>c, <2>3, WorkerGoesOn
<1>11. CASE SkipCall(j)
  <2>1. calls' \in [Runs -> [Round -> CallType]] /\ executed' \in [Runs -> [Round -> Nat]]
    <3>1. "SKIPPED" \in CallStatus
      BY DEF CallStatus
    <3>2. \/ SetCall(j, "SKIPPED")
          \/ UNCHANGED <<calls, executed>>
          \/ FailCall(j)
      BY <1>11 DEF SkipCall
    <3>. QED
      BY <3>1, <3>2, SetCallEffect, FailCallEffect DEF RowsOK
  <2>2. RowsOK'
    BY <1>11, <2>1 DEF SkipCall, RowsOK, taskVars
  <2>3. Called(j) /\ Held(j) /\ UNCHANGED <<jobs, user>>
    BY <1>11 DEF SkipCall, In, At, Held
  <2>. QED
    BY <2>2, <2>3, <1>c
<1>12. CASE StartCall(j)
  <2>1. calls' \in [Runs -> [Round -> CallType]] /\ executed' = executed
    BY <1>12, SetCallEffect DEF StartCall, CallStatus
  <2>2. RowsOK'
    BY <1>12, <2>1 DEF StartCall, RowsOK, taskVars
  <2>. QED
    BY <1>12, <2>2, WorkerGoes DEF StartCall, Places, In, At, Held
<1>13. CASE Execute(j)
  <2>1. PICK r \in Runs, i \in Round : r = RunOf(j) /\ i = worker[j].round
    BY <1>j
  <2>2. executed' = [executed EXCEPT ![r][i] = executed[r][i] + 1] /\ executed[r][i] + 1 \in Nat
    BY <1>13, <2>1 DEF Execute, RowsOK
  <2>3. executed' \in [Runs -> [Round -> Nat]]
    BY <2>2, ExecutedEffect
  <2>4. RowsOK'
    BY <1>13, <2>3 DEF Execute, RowsOK, taskVars
  <2>. QED
    BY <1>13, <2>4, WorkerGoes DEF Execute, Places, At, Held
<1>14. CASE RecordCall(j)
  <2>1. calls' \in [Runs -> [Round -> CallType]] /\ executed' \in [Runs -> [Round -> Nat]]
    <3>1. "SUCCEEDED" \in CallStatus
      BY DEF CallStatus
    <3>2. SetCall(j, "SUCCEEDED") \/ FailCall(j)
      BY <1>14 DEF RecordCall
    <3>. QED
      BY <3>1, <3>2, SetCallEffect, FailCallEffect DEF RowsOK
  <2>2. RowsOK'
    BY <1>14, <2>1 DEF RecordCall, RowsOK, taskVars
  <2>3. Called(j) /\ Held(j) /\ UNCHANGED <<jobs, user>>
    BY <1>14 DEF RecordCall, At, Held
  <2>. QED
    BY <2>2, <2>3, <1>c
<1>15. CASE Abort(j)
  <2>1. RowsOK'
    BY <1>15 DEF Abort, RowsOK, taskVars, callVars
  <2>. QED
    BY <1>15, <2>1, WorkerReturns DEF Abort
<1>16. CASE Checkpoint(j)
  <2>1. runs' \in [Runs -> RunType]
    BY <1>16, <1>j, <1>n, SetNodeEffect DEF Checkpoint, SetNode, Nodes
  <2>2. RowsOK'
    BY <1>16, <2>1 DEF Checkpoint, RowsOK, callVars
  <2>. QED
    BY <1>16, <2>2, WorkerGoes DEF Checkpoint, Places, At, Held
<1>17. CASE Draft(j)
  <2>1. runs' \in [Runs -> RunType]
    BY <1>17, <1>j, <1>n, SetNodeEffect DEF Draft, SetNode, Nodes
  <2>2. RowsOK'
    BY <1>17, <2>1 DEF Draft, RowsOK, callVars
  <2>. QED
    BY <1>17, <2>2, WorkerGoes DEF Draft, Places, In, At, Held
<1>18. CASE Verify(j)
  <2>0. Held(j) /\ UNCHANGED <<jobs, user>> /\ UNCHANGED <<task, callVars>>
    BY <1>18 DEF Verify, In, At, Held
  <2>1. runs' \in [Runs -> RunType]
    BY <1>18, <1>j, <1>n, SetNodeEffect DEF Verify, SetNode, Nodes
  <2>2. RowsOK'
    BY <2>0, <2>1 DEF RowsOK, callVars
  <2>3. CASE Goto(j, "deliver")
    BY <2>0, <2>2, <2>3, WorkerGoes DEF Places
  <2>4. CASE ~Exhausted(j) /\ Goto(j, "replan")
    <3>1. /\ worker' \in [JobIds -> WorkerType] /\ worker'[j].pc = "replan"
          /\ worker'[j].round = worker[j].round
          /\ \A k \in JobIds : k # j => worker'[k] = worker[k]
      BY <2>4, GotoEffect DEF Places
    <3>2. worker'[j].round + 1 \in Round
      BY <1>j, <2>4, <3>1, BoundsAssumption DEF Exhausted, Round
    <3>. QED
      BY <2>0, <2>2, <3>1, <3>2, WorkerGoesOn
  <2>5. CASE worker' = [worker EXCEPT ![j] = [@ EXCEPT !.pc = "deliver", !.active = FALSE,
                                                       !.partial = TRUE]]
    <3>. DEFINE w == [worker[j] EXCEPT !.pc = "deliver", !.active = FALSE, !.partial = TRUE]
    <3>1. worker' = [worker EXCEPT ![j] = w]
      BY <2>5 DEF ProcessesOK
    <3>2. w \in WorkerType /\ w.pc = "deliver"
      BY <1>j DEF WorkerType, Places
    <3>. HIDE DEF w
    <3>3. /\ worker' \in [JobIds -> WorkerType] /\ worker'[j].pc = "deliver"
          /\ \A k \in JobIds : k # j => worker'[k] = worker[k]
      BY <3>1, <3>2 DEF ProcessesOK
    <3>. QED
      BY <2>0, <2>2, <3>3, WorkerGoesOn
  <2>. QED
    BY <1>18, <2>3, <2>4, <2>5 DEF Verify
<1>19. CASE NextRound(j)
  <2>1. worker[j].round + 1 \in Round /\ Held(j) /\ UNCHANGED <<jobs, user>>
    BY <1>19 DEF NextRound, ProcessesOK, At, Held
  <2>2. runs' \in [Runs -> RunType]
    <3>1. [runs[RunOf(j)] EXCEPT !.round = worker[j].round + 1, !.node = "plan"] \in RunType
      BY <1>j, <2>1 DEF RunType, Nodes
    <3>2. runs' = [runs EXCEPT ![RunOf(j)] =
                      [runs[RunOf(j)] EXCEPT !.round = worker[j].round + 1, !.node = "plan"]]
      BY <1>19, <1>j DEF NextRound, RowsOK
    <3>. QED
      BY <3>1, <3>2 DEF RowsOK
  <2>3. RowsOK'
    BY <1>19, <2>2 DEF NextRound, RowsOK, callVars
  <2>. DEFINE w == [worker[j] EXCEPT !.pc = "replanned", !.round = worker[j].round + 1]
  <2>4. worker' = [worker EXCEPT ![j] = w]
    BY <1>19 DEF NextRound, ProcessesOK
  <2>5. w \in WorkerType /\ w.pc = "replanned"
    BY <1>j, <2>1 DEF WorkerType, Places
  <2>. HIDE DEF w
  <2>6. /\ worker' \in [JobIds -> WorkerType] /\ worker'[j].pc = "replanned"
        /\ \A k \in JobIds : k # j => worker'[k] = worker[k]
    BY <2>4, <2>5 DEF ProcessesOK
  <2>. QED
    BY <2>1, <2>3, <2>6, WorkerGoesOn
<1>20. CASE Replan(j)
  <2>1. RowsOK'
    BY <1>20, <1>j, PersistPlanEffect DEF Replan, RowsOK
  <2>. QED
    BY <1>20, <2>1, WorkerGoes DEF Replan, Places, At, Held
<1>21. CASE Deliver(j)
  <2>1. PICK status \in {"PARTIAL", "SUCCEEDED"} : task' = status /\ SetRun(j, status, "done")
    BY <1>21 DEF Deliver
  <2>2. status \in RunStatus /\ status \in TaskStatus
    BY DEF RunStatus, TaskStatus, Final
  <2>3. runs' \in [Runs -> RunType]
    BY <2>1, <2>2, SetRunEffect
  <2>4. RowsOK'
    BY <1>21, <2>1, <2>2, <2>3 DEF Deliver, RowsOK, callVars
  <2>. QED
    BY <1>21, <2>4, WorkerReturns DEF Deliver
<1>22. CASE Fails(j)
  <2>1. "FAILED" \in RunStatus /\ "FAILED" \in TaskStatus
    BY DEF RunStatus, TaskStatus, Final
  <2>2. runs' = runs \/ runs' = [runs EXCEPT ![RunOf(j)].status = "FAILED"]
    BY <1>22 DEF Fails
  <2>3. runs' \in [Runs -> RunType]
    BY <1>j, <2>1, <2>2, SetStatusEffect DEF RowsOK
  <2>4. RowsOK'
    BY <1>22, <2>1, <2>3 DEF Fails, RowsOK, callVars
  <2>. QED
    BY <1>22, <2>4, WorkerReturns DEF Fails
<1>23. CASE Redeliver(j)
  <2>1. RowsOK'
    BY <1>23 DEF Redeliver, RowsOK, taskVars, callVars
  <2>2. /\ [jobs[j] EXCEPT !.state = "waiting"] \in JobType
        /\ [jobs[j] EXCEPT !.state = "waiting"].state = "waiting"
        /\ [jobs[j] EXCEPT !.state = "waiting"].stalls = jobs[j].stalls
    BY <1>j DEF JobType
  <2>3. jobs' = [jobs EXCEPT ![j] = [jobs[j] EXCEPT !.state = "waiting"]]
    BY <1>23 DEF Redeliver, ProcessesOK
  <2>4. /\ jobs' \in [JobIds -> JobType] /\ jobs'[j].state = "waiting"
        /\ jobs'[j].stalls = jobs[j].stalls
        /\ \A k \in JobIds : k # j => jobs'[k] = jobs[k]
    BY <2>2, <2>3 DEF ProcessesOK
  <2>. QED
    BY <1>23, <2>1, <2>4 DEF Redeliver, ProcessesOK, Held, At
<1>. QED
  BY <1>1, <1>2, <1>3, <1>4, <1>5, <1>6, <1>7, <1>8, <1>9, <1>10, <1>11, <1>12, <1>13, <1>14,
     <1>15, <1>16, <1>17, <1>18, <1>19, <1>20, <1>21, <1>22, <1>23 DEF WorkerStep

LEMMA DiesType ==
    ASSUME TypeInv, NEW j \in JobIds, Dies(j)
    PROVE  TypeInv'
<1>1. RowsOK'
  BY DEF Dies, TypeInv, RowsOK, taskVars, callVars
<1>2. jobs[j] \in JobType /\ jobs \in [JobIds -> JobType] /\ worker \in [JobIds -> WorkerType]
  BY DEF TypeInv, ProcessesOK
<1>3. jobs[j].state = "active" /\ jobs[j].stalls <= MaxStalls
  BY DEF Dies, TypeInv, ProcessesOK
<1>n. jobs[j].stalls \in Nat
  BY <1>2, BoundsAssumption DEF JobType
<1>. DEFINE row == [state |-> IF jobs[j].stalls < MaxStalls THEN "stalled" ELSE "done",
                    stalls |-> jobs[j].stalls + 1]
<1>4. row \in JobType /\ row.state # "active" /\ (row.state = "stalled" => row.stalls <= MaxStalls)
      /\ row.state \in {"stalled", "done"}
  BY <1>3, <1>n, BoundsAssumption DEF JobType
<1>5. jobs' = [jobs EXCEPT ![j] = row] /\ worker' = [worker EXCEPT ![j] = NoWorker] /\ user' = user
  BY <1>2 DEF Dies
<1>. HIDE DEF row
<1>6. ProcessesOK'
  BY <1>2, <1>4, <1>5, NoWorkerType DEF TypeInv, ProcessesOK, Held, At
<1>. QED
  BY <1>1, <1>6 DEF TypeInv

LEMMA NextType == TypeInv /\ [Next]_vars => TypeInv'
<1>. SUFFICES ASSUME TypeInv, [Next]_vars PROVE TypeInv'
  OBVIOUS
<1>1. CASE Next
  BY <1>1, UserStepType, WorkerStepType, DiesType DEF Next
<1>2. CASE UNCHANGED vars
  BY <1>2 DEF TypeInv, RowsOK, ProcessesOK, Held, At, vars
<1>. QED
  BY <1>1, <1>2

\* Every row and every local variable of the task, its runs, its calls, its
\* jobs and its workers keeps the shape of its schema, and a run is in a round
\* it may have planned.
THEOREM TypeCorrect == Spec => []TypeOK
<1>1. TypeInv => TypeOK
  BY DEF TypeInv, RowsOK, ProcessesOK, TypeOK, TaskStatus, RunType, RunStatus, CallType, JobType,
         WorkerType, UserType
<1>. QED
  BY <1>1, InitType, NextType, PTL DEF Spec

-----------------------------------------------------------------------------
(***************************************************************************)
(* A run has one bearer.                                                   *)
(***************************************************************************)
\* A step that makes nobody a bearer.
LEMMA NobodyNew ==
    ASSUME TypeInv, BearerInv,
           \A k \in JobIds : JobBears(k)' => JobBears(k),
           \A v \in Users : UserBears(v)' => UserBears(v) /\ user'[v].job = user[v].job,
           \A r \in Runs : runs[r].status \notin Unborne => runs'[r].status \notin Unborne
    PROVE  BearerInv'
<1>1. OneBearer'
  BY DEF BearerInv, OneBearer
<1>2. BearerIsNeeded'
  <2>1. ASSUME NEW k \in JobIds, JobBears(k)' PROVE runs'[RunOf(k)].status \notin Unborne
    BY <2>1, RunOfJob DEF BearerInv, BearerIsNeeded
  <2>2. ASSUME NEW v \in Users, UserBears(v)' PROVE runs'[RunOf(user'[v].job)].status \notin Unborne
    <3>1. UserBears(v) /\ user'[v].job = user[v].job
      BY <2>2
    <3>2. runs[RunOf(user[v].job)].status \notin Unborne
      BY <3>1 DEF BearerInv, BearerIsNeeded
    <3>3. RunOf(user[v].job) \in Runs
      BY RunOfJob DEF TypeInv, ProcessesOK, UserType
    <3>. QED
      BY <3>1, <3>2, <3>3
  <2>. QED
    BY <2>1, <2>2 DEF BearerIsNeeded
<1>. QED
  BY <1>1, <1>2 DEF BearerInv

\* A request takes a run that has no bearer.
LEMMA NewBearer ==
    ASSUME TypeInv, BearerInv, NEW u \in Users, NEW r \in Runs,
           UNCHANGED <<jobs, worker>>,
           \A v \in Users : v # u => user'[v] = user[v],
           ~UserBears(u), RunOf(user'[u].job) = r,
           runs[r].status \in Unborne, runs'[r].status \notin Unborne,
           \A s \in Runs : s # r => runs'[s] = runs[s]
    PROVE  BearerInv'
<1>1. \A k \in JobIds : JobBears(k)' = JobBears(k)
  BY DEF JobBears, Held, At
<1>2. \A v \in Users : v # u => UserBears(v)' = UserBears(v)
  BY DEF UserBears
<1>3. \A k \in JobIds : JobBears(k) => RunOf(k) # r
  BY DEF BearerInv, BearerIsNeeded
<1>4. \A v \in Users : UserBears(v) => RunOf(user[v].job) # r
  BY DEF BearerInv, BearerIsNeeded
<1>5. OneBearer'
  BY <1>1, <1>2, <1>3, <1>4 DEF BearerInv, OneBearer
<1>6. \A v \in Users : user[v].job \in JobIds
  BY DEF TypeInv, ProcessesOK, UserType
<1>7. BearerIsNeeded'
  BY <1>1, <1>2, <1>3, <1>4, <1>6, RunOfJob DEF BearerInv, BearerIsNeeded
<1>. QED
  BY <1>5, <1>7 DEF BearerInv

LEMMA InitBearer == Init => BearerInv
<1>. SUFFICES ASSUME Init PROVE BearerInv
  OBVIOUS
<1>1. \A j \in JobIds : ~JobBears(j)
  BY NoWorkerType DEF Init, JobBears, Held, At
<1>2. \A u \in Users : ~UserBears(u)
  BY IdleType DEF Init, UserBears
<1>. QED
  BY <1>1, <1>2 DEF BearerInv, OneBearer, BearerIsNeeded

LEMMA UserBearer ==
    ASSUME TypeInv, BearerInv, NEW u \in Users, UserStep(u)
    PROVE  BearerInv'
<1>u. user[u].job \in JobIds /\ RunOf(user[u].job) \in Runs
  BY RunOfJob DEF TypeInv, ProcessesOK, UserType
<1>t. ProcessesOK /\ RowsOK
  BY DEF TypeInv
<1>1. CASE Run(u)
  <2>. DEFINE r == CHOOSE r \in Unused : \A other \in Unused : r <= other
  <2>1. r \in Runs /\ runs[r].status = "none"
    BY <1>1, FirstUnused DEF Run, Unused
  <2>. HIDE DEF r
  <2>2. /\ runs' = [runs EXCEPT ![r].status = "QUEUED"]
        /\ user' = [user EXCEPT ![u] = [pc |-> "enqueue", job |-> <<r, First>>]]
        /\ UNCHANGED <<jobs, worker>>
    BY <1>1 DEF Run, r
  <2>3. runs'[r].status = "QUEUED" /\ \A s \in Runs : s # r => runs'[s] = runs[s]
    BY <2>1, <2>2, <1>t, SetStatusEffect DEF RunStatus, Active
  <2>4. /\ \A v \in Users : v # u => user'[v] = user[v]
        /\ RunOf(user'[u].job) = r
    BY <2>1, <2>2, <1>t, FirstJobs DEF ProcessesOK
  <2>5. ~UserBears(u)
    BY <1>1 DEF Run, UserBears
  <2>6. runs[r].status \in Unborne /\ runs'[r].status \notin Unborne
    BY <2>1, <2>3 DEF Unborne
  <2>. QED
    BY <2>1, <2>2, <2>3, <2>4, <2>5, <2>6, NewBearer
<1>2. CASE Enqueue(u)
  <2>. DEFINE j == user[u].job
  <2>1. UserBears(u) /\ worker' = worker /\ runs' = runs
    BY <1>2 DEF Enqueue, UserBears, taskVars
  <2>2. /\ ~UserBears(u)' /\ \A v \in Users : v # u => user'[v] = user[v]
    BY <1>2, <1>t, RespondEffect DEF Enqueue, UserBears
  <2>3. \A v \in Users : UserBears(v)' => v # u /\ UserBears(v) /\ user'[v].job = user[v].job
    BY <2>2 DEF UserBears
  <2>4. \A k \in JobIds : k # j => jobs'[k] = jobs[k]
    BY <1>2, <1>t DEF Enqueue, ProcessesOK
  <2>5. \A k \in JobIds : k # j /\ JobBears(k)' => JobBears(k)
    BY <2>1, <2>4 DEF JobBears, Held, At
  <2>6. OneBearer'
    BY <2>1, <2>3, <2>5, <1>u DEF BearerInv, OneBearer
  <2>7. BearerIsNeeded'
    BY <2>1, <2>3, <2>5 DEF BearerInv, BearerIsNeeded
  <2>. QED
    BY <2>6, <2>7 DEF BearerInv
<1>3. CASE EnqueueFails(u)
  <2>1. \A r \in Runs : runs[r].status \notin Unborne => runs'[r].status \notin Unborne
    <3>1. runs' = runs \/ runs' = [runs EXCEPT ![RunOf(user[u].job)].status = "FAILED"]
      BY <1>3 DEF EnqueueFails
    <3>. QED
      BY <3>1, <1>u, <1>t, SetStatusEffect DEF RunStatus, Final, Unborne
  <2>. QED
    BY <1>3, <1>t, <2>1, RespondEffect, NobodyNew
    DEF EnqueueFails, UserBears, JobBears, Held, At
<1>4. CASE RemoveJobs(u)
  <2>1. \A k \in JobIds : JobBears(k)' => JobBears(k)
    BY <1>4 DEF RemoveJobs, JobBears, Held, At
  <2>2. \A v \in Users : UserBears(v)' => UserBears(v) /\ user'[v].job = user[v].job
    BY <1>4, <1>t, GotoUserEffect DEF RemoveJobs, UserBears
  <2>3. runs' = runs
    BY <1>4 DEF RemoveJobs, taskVars
  <2>. QED
    BY <2>1, <2>2, <2>3, NobodyNew
<1>5. CASE Cancel(u)
  <2>1. \A r \in Runs : runs'[r] = IF runs[r].status \in Active
                                   THEN [runs[r] EXCEPT !.status = "CANCELLED"] ELSE runs[r]
    BY <1>5 DEF Cancel
  <2>2. \A r \in Runs : runs[r].status \notin Unborne => runs'[r].status \notin Unborne
    BY <2>1, <1>t DEF RowsOK, RunType, Unborne
  <2>3. \A v \in Users : UserBears(v)' => UserBears(v) /\ user'[v].job = user[v].job
    BY <1>5, <1>t, RespondEffect DEF Cancel, UserBears
  <2>4. \A k \in JobIds : JobBears(k)' => JobBears(k)
    BY <1>5 DEF Cancel, JobBears, Held, At
  <2>. QED
    BY <2>2, <2>3, <2>4, NobodyNew
<1>6. CASE Review(u)
  <2>1. user'[u].pc = "resume" /\ \A v \in Users : v # u => user'[v] = user[v]
    BY <1>6, <1>t DEF Review, ProcessesOK
  <2>2. \A v \in Users : UserBears(v)' => UserBears(v) /\ user'[v].job = user[v].job
    BY <2>1 DEF UserBears
  <2>3. \A k \in JobIds : JobBears(k)' => JobBears(k)
    BY <1>6 DEF Review, JobBears, Held, At
  <2>4. runs' = runs
    BY <1>6 DEF Review, taskVars
  <2>. QED
    BY <2>2, <2>3, <2>4, NobodyNew
<1>7. CASE ResumeRun(u)
  <2>. DEFINE r == RunOf(user[u].job)
  <2>0. ~UserBears(u) /\ UNCHANGED <<jobs, worker>>
    BY <1>7 DEF ResumeRun, UserBears
  <2>1. CASE runs[r].status = "WAITING_APPROVAL"
    <3>1. /\ runs' = [runs EXCEPT ![r] = [@ EXCEPT !.status = "QUEUED", !.node = "tools"]]
          /\ GotoUser(u, "resume task")
      BY <1>7, <2>1 DEF ResumeRun
    <3>2. /\ runs'[r].status = "QUEUED"
          /\ \A s \in Runs : s # r => runs'[s] = runs[s]
      BY <3>1, <1>t, <1>u DEF RowsOK, RunType
    <3>3. /\ \A v \in Users : v # u => user'[v] = user[v]
          /\ RunOf(user'[u].job) = r
      BY <3>1, <1>t, GotoUserEffect
    <3>4. runs[r].status \in Unborne /\ runs'[r].status \notin Unborne
      BY <2>1, <3>2 DEF Unborne
    <3>. QED
      BY <2>0, <3>2, <3>3, <3>4, <1>u, NewBearer
  <2>2. CASE runs[r].status # "WAITING_APPROVAL"
    <3>1. runs' = runs /\ Respond(u)
      BY <1>7, <2>2 DEF ResumeRun
    <3>. QED
      BY <2>0, <3>1, <1>t, RespondEffect, NobodyNew DEF UserBears, JobBears, Held, At
  <2>. QED
    BY <2>1, <2>2
<1>8. CASE ResumeTask(u)
  <2>1. \A v \in Users : UserBears(v)' => UserBears(v) /\ user'[v].job = user[v].job
    BY <1>8, <1>t, GotoUserEffect DEF ResumeTask, UserBears
  <2>. QED
    BY <1>8, <2>1, NobodyNew DEF ResumeTask, JobBears, Held, At
<1>9. CASE UserDies(u)
  <2>1. \A v \in Users : UserBears(v)' => UserBears(v) /\ user'[v].job = user[v].job
    BY <1>9, <1>t, RespondEffect DEF UserDies, UserBears
  <2>. QED
    BY <1>9, <2>1, NobodyNew DEF UserDies, JobBears, Held, At, taskVars
<1>. QED
  BY <1>1, <1>2, <1>3, <1>4, <1>5, <1>6, <1>7, <1>8, <1>9 DEF UserStep

\* What a step of the worker of a job leaves alone: the requests, the other
\* jobs and their workers.
Alone(j) ==
    /\ user' = user
    /\ \A k \in JobIds : k # j => jobs'[k] = jobs[k] /\ worker'[k] = worker[k]

LEMMA WorkerIsAlone ==
    ASSUME TypeInv, NEW j \in JobIds, WorkerStep(j) \/ Dies(j)
    PROVE  Alone(j)
<1>t. ProcessesOK /\ jobs \in [JobIds -> JobType] /\ worker \in [JobIds -> WorkerType]
  BY DEF TypeInv, ProcessesOK
<1>0. user' = user
  BY DEF WorkerStep, Dies, ClaimRun, ClaimTask, Restore, AssertActive, Stop, Prepare, Plan, ReadCalls,
         AwaitApproval, EndWait, SkipCall, StartCall, Execute, RecordCall, Abort, Checkpoint, Draft,
         Verify, NextRound, Replan, Deliver, Fails, Redeliver
<1>1. CASE ClaimTask(j) \/ Prepare(j) \/ Plan(j) \/ AwaitApproval(j) \/ StartCall(j) \/ Execute(j)
           \/ Checkpoint(j) \/ Draft(j) \/ Replan(j)
  BY <1>0, <1>1, <1>t DEF Alone, Goto, ClaimTask, Prepare, Plan, AwaitApproval, StartCall, Execute,
     Checkpoint, Draft, Replan
<1>2. CASE Restore(j) \/ AssertActive(j) \/ ReadCalls(j) \/ Verify(j) \/ NextRound(j)
  BY <1>0, <1>2, <1>t DEF Alone, Goto, Return, Restore, AssertActive, ReadCalls, Verify, NextRound
<1>3. CASE SkipCall(j) \/ RecordCall(j)
  BY <1>0, <1>3, <1>t DEF Alone, Called, SkipCall, RecordCall
<1>4. CASE Stop(j) \/ EndWait(j) \/ Abort(j) \/ Deliver(j) \/ Fails(j)
  BY <1>0, <1>4, <1>t DEF Alone, Return, Stop, EndWait, Abort, Deliver, Fails
<1>5. CASE ClaimRun(j) \/ Redeliver(j) \/ Dies(j)
  BY <1>0, <1>5, <1>t DEF Alone, ClaimRun, Redeliver, Dies
<1>. QED
  BY <1>1, <1>2, <1>3, <1>4, <1>5 DEF WorkerStep

\* A job that takes a step bears its run, but for the one that just ends.
LEMMA WorkerBears ==
    ASSUME TypeInv, NEW j \in JobIds, (WorkerStep(j) /\ ~EndWait(j)) \/ (Dies(j) /\ ~LateDeath)
    PROVE  JobBears(j)
<1>1. CASE ClaimRun(j) \/ Redeliver(j)
  BY <1>1 DEF ClaimRun, Redeliver, JobBears
<1>2. CASE ClaimTask(j) \/ Restore(j) \/ AwaitApproval(j) \/ Execute(j) \/ RecordCall(j) \/ Abort(j)
           \/ Checkpoint(j) \/ NextRound(j) \/ Replan(j)
  BY <1>2 DEF ClaimTask, Restore, AwaitApproval, Execute, RecordCall, Abort, Checkpoint, NextRound,
     Replan, JobBears, At, Held
<1>3. CASE AssertActive(j) \/ Stop(j)
  BY <1>3 DEF AssertActive, Stop, Nodes, Guarded, JobBears, At, Held
<1>4. CASE Prepare(j) \/ Plan(j) \/ ReadCalls(j) \/ SkipCall(j) \/ StartCall(j) \/ Draft(j)
           \/ Verify(j) \/ Deliver(j)
  BY <1>4 DEF Prepare, Plan, ReadCalls, SkipCall, StartCall, Draft, Verify, Deliver, In, JobBears, At, Held
<1>5. CASE Fails(j)
  BY <1>5 DEF Fails, Fallible, In, JobBears, At, Held
<1>6. CASE Dies(j) /\ ~LateDeath
  BY <1>6 DEF Dies, JobBears
<1>. QED
  BY <1>1, <1>2, <1>3, <1>4, <1>5, <1>6 DEF WorkerStep

\* Only AwaitApproval gives a run up to its reviewer.
LEMMA RunsStayBorne ==
    ASSUME TypeInv, NEW j \in JobIds, (WorkerStep(j) /\ ~AwaitApproval(j)) \/ Dies(j)
    PROVE  \A r \in Runs : runs[r].status \notin Unborne => runs'[r].status \notin Unborne
<1>t. RowsOK /\ RunOf(j) \in Runs
  BY RunOfJob DEF TypeInv
<1>1. CASE UNCHANGED runs
  BY <1>1
<1>2. CASE ClaimTask(j) \/ Restore(j) \/ AssertActive(j) \/ Stop(j) \/ ReadCalls(j) \/ EndWait(j)
           \/ SkipCall(j) \/ StartCall(j) \/ Execute(j) \/ RecordCall(j) \/ Abort(j) \/ Redeliver(j)
           \/ Dies(j)
  <2>1. UNCHANGED runs
    BY <1>2 DEF ClaimTask, Restore, AssertActive, Stop, ReadCalls, EndWait, SkipCall, StartCall,
                Execute, RecordCall, Abort, Redeliver, Dies, taskVars
  <2>. QED
    BY <2>1
<1>3. CASE ClaimRun(j)
  <2>1. runs' = runs \/ runs' = [runs EXCEPT ![RunOf(j)].status = "RUNNING"]
    BY <1>3 DEF ClaimRun
  <2>. QED
    BY <2>1, <1>t, SetStatusEffect DEF RunStatus, Active, Unborne
<1>4. CASE Prepare(j) \/ Checkpoint(j) \/ Draft(j) \/ Verify(j)
  <2>1. PICK node \in Nodes \cup {"replan", "done"} : runs' = [runs EXCEPT ![RunOf(j)].node = node]
    BY <1>4 DEF Prepare, Checkpoint, Draft, Verify, SetNode, Nodes
  <2>. QED
    BY <2>1, <1>t, SetNodeEffect
<1>5. CASE Plan(j) \/ Replan(j)
  <2>1. PersistPlan(RunOf(j), worker[j].round) /\ worker[j].round \in Round
    BY <1>5 DEF Plan, Replan, TypeInv, ProcessesOK, WorkerType
  <2>. QED
    BY <2>1, <1>t, PersistPlanEffect
<1>6. CASE NextRound(j)
  <2>1. runs' = [runs EXCEPT ![RunOf(j)] =
                    [runs[RunOf(j)] EXCEPT !.round = worker[j].round + 1, !.node = "plan"]]
    BY <1>6, <1>t DEF NextRound, RowsOK
  <2>. QED
    BY <2>1, <1>t DEF RowsOK, RunType
<1>7. CASE Deliver(j)
  <2>1. PICK status \in {"PARTIAL", "SUCCEEDED"} : SetRun(j, status, "done")
    BY <1>7 DEF Deliver
  <2>. QED
    BY <2>1, <1>t, SetRunEffect DEF RunStatus, Final, Unborne
<1>8. CASE Fails(j)
  <2>1. runs' = runs \/ runs' = [runs EXCEPT ![RunOf(j)].status = "FAILED"]
    BY <1>8 DEF Fails
  <2>. QED
    BY <2>1, <1>t, SetStatusEffect DEF RunStatus, Final, Unborne
<1>. QED
  BY <1>2, <1>3, <1>4, <1>5, <1>6, <1>7, <1>8 DEF WorkerStep

LEMMA WorkerBearer ==
    ASSUME TypeInv, BearerInv, NEW j \in JobIds, WorkerStep(j) \/ (Dies(j) /\ ~LateDeath)
    PROVE  BearerInv'
<1>1. user' = user /\ \A k \in JobIds : k # j => jobs'[k] = jobs[k] /\ worker'[k] = worker[k]
  BY WorkerIsAlone DEF Alone
<1>2. \A v \in Users : UserBears(v)' => UserBears(v) /\ user'[v].job = user[v].job
  BY <1>1 DEF UserBears
<1>3. \A k \in JobIds : k # j => JobBears(k)' = JobBears(k)
  BY <1>1 DEF JobBears, Held, At
<1>4. JobBears(j)' => JobBears(j)
  <2>1. CASE EndWait(j)
    <3>1. worker'[j] = NoWorker /\ jobs'[j].state = "done"
      BY <2>1, ReturnEffect DEF EndWait, TypeInv
    <3>. QED
      BY <3>1, NoWorkerType DEF JobBears, Held
  <2>2. CASE ~EndWait(j)
    BY <2>2, WorkerBears
  <2>. QED
    BY <2>1, <2>2
<1>5. CASE ~AwaitApproval(j)
  BY <1>2, <1>3, <1>4, <1>5, RunsStayBorne, NobodyNew
<1>6. CASE AwaitApproval(j)
  <2>1. JobBears(j)
    BY <1>6 DEF AwaitApproval, JobBears, At, Held
  <2>2. jobs'[j].state = "active" /\ worker'[j].pc = "waited"
    BY <1>6, GotoEffect DEF AwaitApproval, TypeInv, ProcessesOK, Places, At, Held
  <2>3. ~JobBears(j)'
    BY <2>2 DEF JobBears, At, Held
  <2>4. \A s \in Runs : s # RunOf(j) => runs'[s] = runs[s]
    BY <1>6, SetRunEffect DEF AwaitApproval, TypeInv, RunStatus, Active, Nodes
  <2>5. \A k \in JobIds : JobBears(k)' => JobBears(k) /\ RunOf(k) # RunOf(j)
    BY <1>3, <2>1, <2>3 DEF BearerInv, OneBearer
  <2>6. \A v \in Users : UserBears(v)' => UserBears(v) /\ RunOf(user[v].job) # RunOf(j)
    BY <1>2, <2>1 DEF BearerInv, OneBearer
  <2>7. OneBearer'
    BY <1>1, <2>5, <2>6 DEF BearerInv, OneBearer
  <2>8. \A v \in Users : RunOf(user[v].job) \in Runs
    BY RunOfJob DEF TypeInv, ProcessesOK, UserType
  <2>9. BearerIsNeeded'
    BY <1>1, <2>4, <2>5, <2>6, <2>8, RunOfJob DEF BearerInv, BearerIsNeeded
  <2>. QED
    BY <2>7, <2>9 DEF BearerInv
<1>. QED
  BY <1>5, <1>6

-----------------------------------------------------------------------------
(***************************************************************************)
(* What a worker read of its calls stays true.                             *)
(***************************************************************************)
LEMMA InitCall == Init => CallInv
<1>. SUFFICES ASSUME Init PROVE CallInv
  OBVIOUS
<1>1. CallsOK
  BY DEF Init, CallsOK
<1>2. \A j \in JobIds : Knows(j)
  BY NoWorkerType DEF Init, Knows, At
<1>. QED
  BY <1>1, <1>2 DEF CallInv

LEMMA UserCall ==
    ASSUME TypeInv, CallInv, NEW u \in Users, UserStep(u)
    PROVE  CallInv'
<1>1. worker' = worker /\ executed' = executed
  BY DEF UserStep, Run, Enqueue, EnqueueFails, RemoveJobs, Cancel, Review, ResumeRun, ResumeTask,
         UserDies, callVars
<1>2. CASE Review(u)
  <2>1. PICK r \in Runs, i \in Round, decision \in {"APPROVED", "REJECTED"} :
           /\ calls[r][i].approval = "PENDING"
           /\ calls' = [calls EXCEPT ![r][i].approval = decision]
    BY <1>2 DEF Review
  <2>2. /\ \A s \in Runs, k \in Round : s # r \/ k # i => calls'[s][k] = calls[s][k]
        /\ calls'[r][i].status = calls[r][i].status /\ calls'[r][i].approval = decision
    BY <2>1, ApprovalEffect DEF TypeInv
  <2>3. CallsOK'
    BY <1>1, <2>1, <2>2 DEF CallInv, CallsOK, Allowed
  <2>4. ASSUME NEW j \in JobIds PROVE Knows(j)'
    <3>1. RunOf(j) \in Runs /\ worker[j].round \in Round
      BY RunOfJob DEF TypeInv, ProcessesOK, WorkerType
    <3>2. CASE worker[j].pc \in {"call", "execute", "record"}
      <4>1. Call(j).approval # "PENDING"
        BY <3>2 DEF CallInv, Knows, At, Allowed
      <4>2. RunOf(j) # r \/ worker[j].round # i
        BY <2>1, <4>1 DEF Call
      <4>3. Call(j)' = Call(j)
        BY <1>1, <2>2, <3>1, <4>2 DEF Call
      <4>. QED
        BY <1>1, <4>3 DEF CallInv, Knows, At
    <3>3. CASE worker[j].pc \notin {"call", "execute", "record"}
      BY <1>1, <3>3 DEF Knows, At
    <3>. QED
      BY <3>2, <3>3
  <2>. QED
    BY <2>3, <2>4 DEF CallInv
<1>3. CASE ~Review(u)
  <2>1. calls' = calls
    BY <1>3 DEF UserStep, Run, Enqueue, EnqueueFails, RemoveJobs, Cancel, ResumeRun, ResumeTask,
                UserDies, callVars
  <2>. QED
    BY <1>1, <2>1 DEF CallInv, CallsOK, Knows, At, Call
<1>. QED
  BY <1>2, <1>3

\* A worker writes the calls of its own run.
LEMMA WorkerCalls ==
    ASSUME TypeInv, NEW j \in JobIds, WorkerStep(j) \/ Dies(j)
    PROVE  \A s \in Runs, i \in Round : s # RunOf(j) =>
              calls'[s][i] = calls[s][i] /\ executed'[s][i] = executed[s][i]
<1>t. RowsOK /\ ProcessesOK /\ RunOf(j) \in Runs /\ worker[j].round \in Round
  BY RunOfJob DEF TypeInv, ProcessesOK, WorkerType
<1>1. CASE ClaimRun(j) \/ ClaimTask(j) \/ Restore(j) \/ AssertActive(j) \/ Stop(j) \/ Prepare(j)
           \/ ReadCalls(j) \/ AwaitApproval(j) \/ EndWait(j) \/ Abort(j) \/ Checkpoint(j) \/ Draft(j)
           \/ Verify(j) \/ NextRound(j) \/ Deliver(j) \/ Fails(j) \/ Redeliver(j) \/ Dies(j)
  BY <1>1 DEF ClaimRun, ClaimTask, Restore, AssertActive, Stop, Prepare, ReadCalls, AwaitApproval,
     EndWait, Abort, Checkpoint, Draft, Verify, NextRound, Deliver, Fails, Redeliver, Dies, callVars
<1>2. CASE Plan(j) \/ Replan(j)
  <2>1. PersistPlan(RunOf(j), worker[j].round)
    BY <1>2 DEF Plan, Replan
  <2>. QED
    BY <2>1, <1>t, PersistPlanEffect
<1>3. CASE SkipCall(j) \/ StartCall(j) \/ RecordCall(j)
  <2>1. \/ \E status \in CallStatus : SetCall(j, status)
        \/ UNCHANGED <<calls, executed>>
        \/ FailCall(j)
    BY <1>3 DEF SkipCall, StartCall, RecordCall, CallStatus
  <2>. QED
    BY <2>1, <1>t, SetCallEffect, FailCallEffect
<1>4. CASE Execute(j)
  <2>1. PICK r \in Runs, i \in Round : r = RunOf(j) /\ i = worker[j].round
    BY <1>t
  <2>2. executed' = [executed EXCEPT ![r][i] = executed[r][i] + 1] /\ executed[r][i] + 1 \in Nat
    BY <1>4, <2>1, <1>t DEF Execute, RowsOK
  <2>3. calls' = calls
    BY <1>4 DEF Execute
  <2>. QED
    BY <2>1, <2>2, <2>3, <1>t, ExecutedEffect
<1>. QED
  BY <1>1, <1>2, <1>3, <1>4 DEF WorkerStep

\* A worker that holds another job still knows its call.
LEMMA OthersKnow ==
    ASSUME TypeInv, BearerInv, CallInv, NEW j \in JobIds,
           WorkerStep(j) \/ (Dies(j) /\ ~LateDeath),
           NEW k \in JobIds, k # j
    PROVE  Knows(k)'
<1>1. worker'[k] = worker[k]
  BY WorkerIsAlone DEF Alone
<1>2. RunOf(k) \in Runs /\ worker[k].round \in Round
  BY RunOfJob DEF TypeInv, ProcessesOK, WorkerType
<1>3. CASE worker[k].pc \notin {"call", "execute", "record"}
  BY <1>1, <1>3 DEF Knows, At
<1>4. CASE worker[k].pc \in {"call", "execute", "record"}
  <2>1. JobBears(k)
    BY <1>4 DEF JobBears, Held, At
  <2>2. Call(k)' = Call(k) /\ executed'[RunOf(k)][worker[k].round] = executed[RunOf(k)][worker[k].round]
    <3>1. CASE EndWait(j)
      BY <3>1, <1>1 DEF EndWait, callVars, Call
    <3>2. CASE ~EndWait(j)
      <4>1. JobBears(j)
        BY <3>2, WorkerBears
      <4>2. RunOf(k) # RunOf(j)
        BY <2>1, <4>1 DEF BearerInv, OneBearer
      <4>. QED
        BY <1>1, <1>2, <4>2, WorkerCalls DEF Call
    <3>. QED
      BY <3>1, <3>2
  <2>. QED
    BY <1>1, <2>2 DEF CallInv, Knows, At
<1>. QED
  BY <1>3, <1>4

\* A step that writes no call and does not come to one.
LEMMA CallsKept ==
    ASSUME CallInv, NEW j \in JobIds, UNCHANGED callVars,
           \A k \in JobIds : k # j => Knows(k)',
           worker'[j].pc \notin {"call", "execute", "record"}
    PROVE  CallInv'
<1>1. CallsOK'
  BY DEF CallInv, CallsOK, callVars
<1>2. Knows(j)'
  BY DEF Knows, At
<1>. QED
  BY <1>1, <1>2 DEF CallInv

LEMMA WorkerCall ==
    ASSUME TypeInv, BearerInv, CallInv, NEW j \in JobIds,
           WorkerStep(j) \/ (Dies(j) /\ ~LateDeath)
    PROVE  CallInv'
<1>t. /\ RowsOK /\ ProcessesOK /\ RunOf(j) \in Runs /\ worker[j].round \in Round
      /\ worker \in [JobIds -> WorkerType] /\ worker[j] \in WorkerType
  BY RunOfJob DEF TypeInv, ProcessesOK, WorkerType
<1>o. \A k \in JobIds : k # j => Knows(k)'
  BY OthersKnow
<1>k. CallsOK /\ Knows(j)
  BY DEF CallInv
<1>. DEFINE r == RunOf(j)
            i == worker[j].round
<1>1. CASE ClaimRun(j)
  <2>1. (worker'[j].pc = "claim task" \/ worker' = worker) /\ UNCHANGED callVars
    BY <1>1, <1>t DEF ClaimRun, WorkerType
  <2>2. worker[j].pc = "none"
    BY <1>1 DEF ClaimRun, TypeInv, ProcessesOK, Held, At
  <2>. QED
    BY <2>1, <2>2, <1>o, CallsKept
<1>2. CASE ClaimTask(j) \/ AwaitApproval(j) \/ Prepare(j) \/ Checkpoint(j) \/ Draft(j)
  <2>1. PICK label \in {"restore", "waited", "plan", "draft", "verify"} : Goto(j, label)
    BY <1>2 DEF ClaimTask, AwaitApproval, Prepare, Checkpoint, Draft
  <2>2. worker'[j].pc = label
    BY <2>1, <1>t, GotoEffect DEF Places
  <2>3. UNCHANGED callVars
    BY <1>2 DEF ClaimTask, AwaitApproval, Prepare, Checkpoint, Draft
  <2>. QED
    BY <2>2, <2>3, <1>o, CallsKept
<1>3. CASE Restore(j)
  <2>. DEFINE pc == IF runs[r].node \in {"tools", "draft"} THEN runs[r].node ELSE "prepare"
  <2>1. worker' = [worker EXCEPT ![j] = [NoWorker EXCEPT !.round = runs[r].round, !.pc = pc]]
    BY <1>3 DEF Restore
  <2>2. pc \in {"tools", "draft", "prepare"}
    OBVIOUS
  <2>. HIDE DEF pc
  <2>3. worker'[j].pc = pc
    BY <2>1, <1>t, NoWorkerType DEF WorkerType
  <2>4. UNCHANGED callVars
    BY <1>3 DEF Restore
  <2>. QED
    BY <2>2, <2>3, <2>4, <1>o, CallsKept
<1>4. CASE AssertActive(j)
  <2>1. UNCHANGED callVars
    BY <1>4 DEF AssertActive
  <2>2. CASE Return(j)
    BY <2>1, <2>2, <1>t, <1>o, ReturnEffect, NoWorkerType, CallsKept
  <2>3. CASE worker' = [worker EXCEPT ![j].active = TRUE]
    <3>1. /\ worker'[j].pc = worker[j].pc /\ worker'[j].round = worker[j].round
          /\ worker'[j].seen = worker[j].seen
      BY <2>3, <1>t DEF WorkerType
    <3>2. Knows(j)'
      BY <1>k, <2>1, <3>1 DEF Knows, At, Call, callVars
    <3>3. CallsOK'
      BY <1>k, <2>1 DEF CallsOK, callVars
    <3>. QED
      BY <3>2, <3>3, <1>o DEF CallInv
  <2>. QED
    BY <1>4, <2>2, <2>3 DEF AssertActive
<1>5. CASE Stop(j) \/ EndWait(j) \/ Abort(j) \/ Deliver(j) \/ Fails(j)
  <2>1. Return(j) /\ UNCHANGED callVars
    BY <1>5 DEF Stop, EndWait, Abort, Deliver, Fails
  <2>. QED
    BY <2>1, <1>t, <1>o, ReturnEffect, NoWorkerType, CallsKept
<1>6. CASE Plan(j) \/ Replan(j)
  <2>1. PersistPlan(r, i) /\ Goto(j, "tools")
    BY <1>6 DEF Plan, Replan
  <2>2. worker'[j].pc = "tools"
    BY <2>1, <1>t, GotoEffect DEF Places
  <2>3. Knows(j)'
    BY <2>2 DEF Knows, At
  <2>4. /\ \A s \in Runs, k \in Round : s # r \/ k # i =>
              calls'[s][k] = calls[s][k] /\ executed'[s][k] = executed[s][k]
        /\ \/ executed'[r][i] = 0
           \/ calls[r][i].status = "PENDING" /\ executed'[r][i] = executed[r][i]
           \/ calls'[r][i] = calls[r][i] /\ executed'[r][i] = executed[r][i]
    BY <2>1, <1>t, PersistPlanEffect
  <2>5. CallsOK'
    BY <1>k, <1>t, <2>4 DEF CallsOK
  <2>. QED
    BY <2>3, <2>5, <1>o DEF CallInv
<1>7. CASE ReadCalls(j)
  <2>. DEFINE pc == IF Waits(j) THEN "wait" ELSE IF Call(j).status = "none" THEN "checkpoint" ELSE "call"
  <2>1. worker' = [worker EXCEPT ![j] = [worker[j] EXCEPT !.active = FALSE, !.seen = Call(j), !.pc = pc]]
    BY <1>7, <1>t DEF ReadCalls
  <2>2. pc = "call" => Call(j).status # "none" /\ Call(j).approval # "PENDING"
    BY DEF Waits
  <2>3. pc \in {"wait", "checkpoint", "call"}
    OBVIOUS
  <2>. HIDE DEF pc
  <2>4. worker'[j].pc = pc /\ worker'[j].seen = Call(j) /\ worker'[j].round = worker[j].round
    BY <2>1, <1>t DEF WorkerType
  <2>5. UNCHANGED callVars
    BY <1>7 DEF ReadCalls
  <2>6. Call(j)' = Call(j)
    BY <2>4, <2>5 DEF Call, callVars
  <2>7. Knows(j)'
    BY <2>2, <2>3, <2>4, <2>6 DEF Knows, At
  <2>8. CallsOK'
    BY <1>k, <2>5 DEF CallsOK, callVars
  <2>. QED
    BY <2>7, <2>8, <1>o DEF CallInv
<1>c. ASSUME Called(j) PROVE Knows(j)'
  <2>1. worker'[j].pc = "checkpoint"
    BY <1>c, <1>t DEF Called, WorkerType
  <2>. QED
    BY <2>1 DEF Knows, At
<1>8. CASE SkipCall(j)
  <2>1. Knows(j)'
    BY <1>8, <1>c DEF SkipCall
  <2>2. worker[j].seen = calls[r][i]
    BY <1>8, <1>k DEF SkipCall, In, At, Guarded, Knows, Call
  <2>3. CallsOK'
    <3>1. CASE Rejected(j) /\ SetCall(j, "SKIPPED")
      <4>1. /\ \A s \in Runs, k \in Round : s # r \/ k # i => calls'[s][k] = calls[s][k]
            /\ executed' = executed
        BY <3>1, <1>t, SetCallEffect DEF CallStatus
      <4>2. executed[r][i] # 1
        BY <1>k, <1>t, <2>2, <3>1 DEF CallsOK, Rejected, Allowed
      <4>. QED
        BY <1>k, <4>1, <4>2 DEF CallsOK
    <3>2. CASE UNCHANGED <<calls, executed>>
      BY <1>k, <3>2 DEF CallsOK
    <3>3. CASE FailCall(j)
      <4>1. /\ \A s \in Runs, k \in Round : s # r \/ k # i =>
                  calls'[s][k] = calls[s][k] /\ executed'[s][k] = executed[s][k]
            /\ executed'[r][i] = 0
        BY <3>3, <1>t, FailCallEffect
      <4>. QED
        BY <1>k, <4>1 DEF CallsOK
    <3>4. CASE ~Done(j) /\ ~Interrupted(j) /\ SetCall(j, "SKIPPED")
      <4>1. /\ \A s \in Runs, k \in Round : s # r \/ k # i => calls'[s][k] = calls[s][k]
            /\ executed' = executed
        BY <3>4, <1>t, SetCallEffect DEF CallStatus
      <4>2. executed[r][i] # 1
        BY <1>k, <1>t, <2>2, <3>4 DEF CallsOK, Done, Interrupted
      <4>. QED
        BY <1>k, <4>1, <4>2 DEF CallsOK
    <3>. QED
      BY <1>8, <3>1, <3>2, <3>3, <3>4 DEF SkipCall
  <2>. QED
    BY <2>1, <2>3, <1>o DEF CallInv
<1>9. CASE StartCall(j)
  <2>1. worker[j].seen = calls[r][i] /\ calls[r][i].approval # "PENDING"
    BY <1>9, <1>k DEF StartCall, In, At, Guarded, Knows, Call
  <2>2. executed[r][i] = 0
    <3>1. executed[r][i] # 1
      BY <1>9, <1>k, <1>t, <2>1 DEF StartCall, CallsOK, Done, Interrupted
    <3>2. executed[r][i] \in Nat
      BY <1>t DEF RowsOK
    <3>3. executed[r][i] <= 1
      BY <1>k, <1>t DEF CallsOK
    <3>. QED
      BY <3>1, <3>2, <3>3
  <2>3. calls[r][i].approval \in Allowed
    BY <1>9, <1>t, <2>1 DEF StartCall, Rejected, RowsOK, CallType, Allowed
  <2>4. /\ \A s \in Runs, k \in Round : s # r \/ k # i => calls'[s][k] = calls[s][k]
        /\ calls'[r][i].status = "RUNNING" /\ calls'[r][i].approval = calls[r][i].approval
        /\ executed' = executed
    BY <1>9, <1>t, SetCallEffect DEF StartCall, CallStatus
  <2>5. worker'[j].pc = "execute" /\ worker'[j].round = i
    BY <1>9, <1>t, GotoEffect DEF StartCall, Places
  <2>6. Knows(j)'
    BY <2>2, <2>3, <2>4, <2>5 DEF Knows, At, Call
  <2>7. CallsOK'
    BY <1>k, <2>2, <2>4 DEF CallsOK
  <2>. QED
    BY <2>6, <2>7, <1>o DEF CallInv
<1>10. CASE Execute(j)
  <2>1. /\ calls[r][i].status = "RUNNING" /\ calls[r][i].approval \in Allowed
        /\ executed[r][i] = 0
    BY <1>10, <1>k DEF Execute, Knows, At, Call
  <2>2. PICK s \in Runs, k \in Round : s = r /\ k = i
    BY <1>t
  <2>3. executed' = [executed EXCEPT ![s][k] = 1] /\ calls' = calls
    BY <1>10, <1>t, <2>1, <2>2 DEF Execute, RowsOK
  <2>4. /\ \A t \in Runs, n \in Round : t # s \/ n # k => executed'[t][n] = executed[t][n]
        /\ executed'[s][k] = 1
    BY <2>3, <1>t, ExecutedEffect
  <2>5. CallsOK'
    BY <1>k, <2>1, <2>2, <2>3, <2>4 DEF CallsOK
  <2>6. worker'[j].pc = "record" /\ worker'[j].round = i
    BY <1>10, <1>t, GotoEffect DEF Execute, Places
  <2>7. Knows(j)'
    BY <2>1, <2>3, <2>6 DEF Knows, At, Call
  <2>. QED
    BY <2>5, <2>7, <1>o DEF CallInv
<1>11. CASE RecordCall(j)
  <2>1. Knows(j)'
    BY <1>11, <1>c DEF RecordCall
  <2>2. CASE SetCall(j, "SUCCEEDED")
    <3>1. /\ \A s \in Runs, k \in Round : s # r \/ k # i => calls'[s][k] = calls[s][k]
          /\ calls'[r][i].status = "SUCCEEDED" /\ calls'[r][i].approval = calls[r][i].approval
          /\ executed' = executed
      BY <2>2, <1>t, SetCallEffect DEF CallStatus
    <3>2. CallsOK'
      BY <1>k, <3>1 DEF CallsOK
    <3>. QED
      BY <2>1, <3>2, <1>o DEF CallInv
  <2>3. CASE FailCall(j)
    <3>1. /\ \A s \in Runs, k \in Round : s # r \/ k # i =>
                calls'[s][k] = calls[s][k] /\ executed'[s][k] = executed[s][k]
          /\ executed'[r][i] = 0
      BY <2>3, <1>t, FailCallEffect
    <3>2. CallsOK'
      BY <1>k, <3>1 DEF CallsOK
    <3>. QED
      BY <2>1, <3>2, <1>o DEF CallInv
  <2>. QED
    BY <1>11, <2>2, <2>3 DEF RecordCall
<1>12. CASE Verify(j)
  <2>1. worker'[j].pc \in {"deliver", "replan"}
    BY <1>12, <1>t DEF Verify, Goto, WorkerType
  <2>2. UNCHANGED callVars
    BY <1>12 DEF Verify
  <2>. QED
    BY <2>1, <2>2, <1>o, CallsKept
<1>13. CASE NextRound(j)
  <2>1. worker'[j].pc = "replanned"
    BY <1>13, <1>t DEF NextRound, WorkerType
  <2>2. UNCHANGED callVars
    BY <1>13 DEF NextRound
  <2>. QED
    BY <2>1, <2>2, <1>o, CallsKept
<1>14. CASE Redeliver(j)
  <2>1. worker[j].pc = "none" /\ worker' = worker /\ UNCHANGED callVars
    BY <1>14 DEF Redeliver, TypeInv, ProcessesOK, Held, At
  <2>. QED
    BY <2>1, <1>o, CallsKept
<1>15. CASE Dies(j)
  <2>1. worker'[j].pc = "none" /\ UNCHANGED callVars
    BY <1>15, <1>t, NoWorkerType DEF Dies
  <2>. QED
    BY <2>1, <1>o, CallsKept
<1>. QED
  BY <1>1, <1>2, <1>3, <1>4, <1>5, <1>6, <1>7, <1>8, <1>9, <1>10, <1>11, <1>12, <1>13, <1>14, <1>15
  DEF WorkerStep

\* Only Execute raises the count of a call.
LEMMA RisenByExecute ==
    ASSUME RowsOK, ProcessesOK, NEW j \in JobIds, WorkerStep(j) \/ Dies(j),
           NEW r \in Runs, NEW i \in Round, executed'[r][i] > executed[r][i]
    PROVE  Execute(j) /\ RunOf(j) = r /\ worker[j].round = i
<1>t. /\ TypeInv /\ RunOf(j) \in Runs /\ worker[j].round \in Round
      /\ executed[r][i] \in Nat
  BY RunOfJob DEF TypeInv, RowsOK, ProcessesOK, WorkerType
<1>1. executed' # executed
  BY <1>t
<1>2. CASE Plan(j) \/ Replan(j)
  <2>1. PersistPlan(RunOf(j), worker[j].round)
    BY <1>2 DEF Plan, Replan
  <2>2. executed'[r][i] = executed[r][i] \/ executed'[r][i] = 0
    BY <2>1, <1>t, PersistPlanEffect
  <2>. QED
    BY <2>2, <1>t
<1>3. CASE SkipCall(j) \/ StartCall(j) \/ RecordCall(j)
  <2>1. FailCall(j)
    BY <1>3, <1>1 DEF SkipCall, StartCall, RecordCall, SetCall
  <2>2. executed'[r][i] = executed[r][i] \/ executed'[r][i] = 0
    BY <2>1, <1>t, FailCallEffect
  <2>. QED
    BY <2>2, <1>t
<1>4. CASE Execute(j)
  <2>1. PICK s \in Runs, k \in Round : s = RunOf(j) /\ k = worker[j].round
    BY <1>t
  <2>2. executed' = [executed EXCEPT ![s][k] = executed[s][k] + 1] /\ executed[s][k] + 1 \in Nat
    BY <1>4, <2>1 DEF Execute, RowsOK
  <2>3. s # r \/ k # i => executed'[r][i] = executed[r][i]
    BY <2>2, ExecutedEffect
  <2>. QED
    BY <1>4, <1>t, <2>1, <2>3
<1>5. CASE ClaimRun(j) \/ ClaimTask(j) \/ Restore(j) \/ AssertActive(j) \/ Stop(j) \/ Prepare(j)
           \/ ReadCalls(j) \/ AwaitApproval(j) \/ EndWait(j) \/ Abort(j) \/ Checkpoint(j) \/ Draft(j)
           \/ Verify(j) \/ NextRound(j) \/ Deliver(j) \/ Fails(j) \/ Redeliver(j) \/ Dies(j)
  BY <1>1, <1>5 DEF ClaimRun, ClaimTask, Restore, AssertActive, Stop, Prepare, ReadCalls, AwaitApproval,
     EndWait, Abort, Checkpoint, Draft, Verify, NextRound, Deliver, Fails, Redeliver, Dies, callVars
<1>. QED
  BY <1>2, <1>3, <1>4, <1>5 DEF WorkerStep

Inv == TypeInv /\ BearerInv /\ CallInv

LEMMA InitInv == Init => Inv
BY InitType, InitBearer, InitCall DEF Inv

LEMMA NextInv ==
    ASSUME ~LateDeath
    PROVE  Inv /\ [Next]_vars => Inv'
<1>. SUFFICES ASSUME Inv, [Next]_vars PROVE Inv'
  OBVIOUS
<1>1. TypeInv'
  BY NextType DEF Inv
<1>2. BearerInv' /\ CallInv'
  <2>1. CASE Next
    BY <2>1, UserBearer, UserCall, WorkerBearer, WorkerCall DEF Inv, Next
  <2>2. CASE UNCHANGED vars
    <3>1. BearerInv'
      BY <2>2 DEF Inv, BearerInv, OneBearer, BearerIsNeeded, JobBears, UserBears, Held, At, vars
    <3>2. CallInv'
      BY <2>2 DEF Inv, CallInv, CallsOK, Knows, At, Call, vars
    <3>. QED
      BY <3>1, <3>2
  <2>. QED
    BY <2>1, <2>2
<1>. QED
  BY <1>1, <1>2 DEF Inv

\* When a worker that wrote WAITING_APPROVAL ends its job before anything else
\* happens to it, an external tool is called at most once under a plan: the
\* worker that takes the run over finds the call RUNNING or SUCCEEDED and does
\* not repeat it, whatever died, was cancelled or was delivered again before.
THEOREM ToolRunsOnceCorrect ==
    ASSUME ~LateDeath
    PROVE  Spec => []ToolRunsOnce
<1>1. Inv => ToolRunsOnce
  BY DEF Inv, CallInv, CallsOK, ToolRunsOnce
<1>. QED
  BY <1>1, InitInv, NextInv, PTL DEF Spec

\* Under the same assumption every call of an external tool finds, in the row
\* of the call, the approval its plan asked for: no review, plan or takeover
\* between the check and the call can take it back.
THEOREM ToolIsApprovedCorrect ==
    ASSUME ~LateDeath
    PROVE  Spec => ToolIsApproved
<1>. DEFINE Approved == \A r \in Runs, i \in Round : executed'[r][i] > executed[r][i] =>
                           calls[r][i].approval \in {"NOT_REQUIRED", "APPROVED"}
<1>1. Inv /\ [Next]_vars => [Approved]_vars
  <2>. SUFFICES ASSUME Inv, Next PROVE Approved
    OBVIOUS
  <2>. SUFFICES ASSUME NEW r \in Runs, NEW i \in Round, executed'[r][i] > executed[r][i]
                PROVE  calls[r][i].approval \in {"NOT_REQUIRED", "APPROVED"}
    OBVIOUS
  <2>t. executed[r][i] \in Nat /\ RowsOK /\ ProcessesOK
    BY DEF Inv, TypeInv, RowsOK
  <2>1. CASE \E u \in Users : UserStep(u)
    <3>1. executed' = executed
      BY <2>1 DEF UserStep, Run, Enqueue, EnqueueFails, RemoveJobs, Cancel, Review, ResumeRun,
                  ResumeTask, UserDies, callVars
    <3>. QED
      BY <2>t, <3>1
  <2>2. ASSUME NEW j \in JobIds, WorkerStep(j) \/ Dies(j)
        PROVE  calls[r][i].approval \in {"NOT_REQUIRED", "APPROVED"}
    <3>1. Execute(j) /\ RunOf(j) = r /\ worker[j].round = i
      BY <2>2, <2>t, RisenByExecute
    <3>2. Knows(j)
      BY DEF Inv, CallInv
    <3>. QED
      BY <3>1, <3>2 DEF Knows, Execute, At, Call, Allowed
  <2>. QED
    BY <2>1, <2>2 DEF Next
<1>. QED
  BY <1>1, InitInv, NextInv, PTL DEF Spec, ToolIsApproved

=============================================================================
