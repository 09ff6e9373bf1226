----------------------------- MODULE AgentTask -----------------------------
(***************************************************************************)
(* One task of the office agent: its runs, their queue jobs, the worker    *)
(* that walks the graph prepare - planning - tools - draft - verify -      *)
(* deliver, the approvals of external tools, cancellation, and a worker    *)
(* that dies and has its job delivered again (agent-tasks.processor.ts,    *)
(* agent-tasks.service.ts).                                                *)
(*                                                                         *)
(* Each round of a run plans at most one tool call, of an external tool.   *)
(* BullMQ is external: it ignores an id it knows, gives a waiting job to   *)
(* one worker, and delivers the job of a dead worker again MaxStalls       *)
(* times.                                                                  *)
(***************************************************************************)
EXTENDS Integers, FiniteSets

CONSTANTS
    Users,      \* requests of the user running at once
    MaxRuns,    \* bound: runs of the task
    Rounds,     \* maxIterations of a run
    MaxStalls,  \* deliveries of a job after the first
    LateDeath   \* a worker may die after it wrote WAITING_APPROVAL and before
                \* its job ended

ASSUME BoundsAssumption ==
    {MaxRuns, Rounds} \subseteq Nat \ {0} /\ MaxStalls \in Nat /\ LateDeath \in BOOLEAN

VARIABLES
    task,      \* status of AgentTask
    runs,      \* AgentRun: status, currentNode, iteration
    calls,     \* AgentToolCall of each run and round
    executed,  \* times the tool was called since the call was planned or failed
    jobs,      \* the queue: state of each job id, and its deliveries
    worker,    \* the process that holds the job
    user

vars == <<task, runs, calls, executed, jobs, worker, user>>

Runs   == 1..MaxRuns
Round  == 0..Rounds - 1
First  == -1                        \* the job of run(), not of a resumption
JobIds == Runs \X (Round \cup {First})
RunOf(j) == j[1]

Active  == {"QUEUED", "RUNNING", "WAITING_APPROVAL"}
Pending == {"QUEUED", "RUNNING"}
Final   == {"SUCCEEDED", "PARTIAL", "FAILED", "CANCELLED"}
Nodes   == {"prepare", "plan", "tools", "draft", "verify", "deliver"}

NoCall   == [status |-> "none", approval |-> "NOT_REQUIRED"]
Idle     == [pc |-> "idle", job |-> <<1, First>>]
NoWorker == [pc |-> "none", active |-> FALSE, round |-> 0, seen |-> NoCall, partial |-> FALSE]

Init ==
    /\ task = "DRAFT"
    /\ runs = [r \in Runs |-> [status |-> "none", node |-> "prepare", round |-> 0]]
    /\ calls = [r \in Runs |-> [i \in Round |-> NoCall]]
    /\ executed = [r \in Runs |-> [i \in Round |-> 0]]
    /\ jobs = [j \in JobIds |-> [state |-> "none", stalls |-> 0]]
    /\ worker = [j \in JobIds |-> NoWorker]
    /\ user = [u \in Users |-> Idle]

taskVars == <<task, runs>>
callVars == <<calls, executed>>

(***************************************************************************)
(* run(): one guarded transaction, then the job.                           *)
(***************************************************************************)
GotoUser(u, label) == user' = [user EXCEPT ![u].pc = label]
Respond(u)         == user' = [user EXCEPT ![u] = Idle]
Unused == {r \in Runs : runs[r].status = "none"}

Startable == task \notin Active

Run(u) ==
    /\ user[u].pc = "idle"
    /\ Startable
    /\ Unused # {}
    /\ LET r == CHOOSE r \in Unused : \A other \in Unused : r <= other IN
          /\ runs' = [runs EXCEPT ![r].status = "QUEUED"]
          /\ user' = [user EXCEPT ![u] = [pc |-> "enqueue", job |-> <<r, First>>]]
    /\ task' = "QUEUED"
    /\ UNCHANGED <<callVars, jobs, worker>>

\* An id the queue has seen is ignored.
Enqueue(u) ==
    /\ user[u].pc = "enqueue"
    /\ jobs' = IF jobs[user[u].job].state = "none"
               THEN [jobs EXCEPT ![user[u].job] = [state |-> "waiting", stalls |-> 0]]
               ELSE jobs
    /\ Respond(u)
    /\ UNCHANGED <<taskVars, callVars, worker>>

\* failEnqueue.
EnqueueFails(u) ==
    /\ user[u].pc = "enqueue"
    /\ LET r == RunOf(user[u].job) IN
          /\ task' = IF task \in {"QUEUED", "WAITING_APPROVAL"} THEN "FAILED" ELSE task
          /\ runs' = IF runs[r].status \in {"QUEUED", "WAITING_APPROVAL"}
                     THEN [runs EXCEPT ![r].status = "FAILED"] ELSE runs
    /\ Respond(u)
    /\ UNCHANGED <<callVars, jobs, worker>>

(***************************************************************************)
(* cancel(): the waiting jobs are removed, then everything active ends.    *)
(***************************************************************************)
RemoveJobs(u) ==
    /\ user[u].pc = "idle" /\ task \in Active
    /\ jobs' = [j \in JobIds |-> IF jobs[j].state = "waiting"
                                 THEN [jobs[j] EXCEPT !.state = "none"] ELSE jobs[j]]
    /\ GotoUser(u, "cancel")
    /\ UNCHANGED <<taskVars, callVars, worker>>

Cancel(u) ==
    /\ user[u].pc = "cancel"
    /\ task' = IF task \in Active THEN "CANCELLED" ELSE task
    /\ runs' = [r \in Runs |-> IF runs[r].status \in Active
                               THEN [runs[r] EXCEPT !.status = "CANCELLED"] ELSE runs[r]]
    /\ Respond(u)
    /\ UNCHANGED <<callVars, jobs, worker>>

(***************************************************************************)
(* reviewToolCall(): the decision, then the run, the task and the job.     *)
(***************************************************************************)
Review(u) ==
    /\ user[u].pc = "idle" /\ task = "WAITING_APPROVAL"
    /\ \E r \in Runs, i \in Round, decision \in {"APPROVED", "REJECTED"} :
          /\ calls[r][i].status # "none" /\ calls[r][i].approval = "PENDING"
          /\ calls' = [calls EXCEPT ![r][i].approval = decision]
          /\ user' = [user EXCEPT ![u] = [pc |-> "resume", job |-> <<r, i>>]]
    /\ UNCHANGED <<taskVars, executed, jobs, worker>>

ResumeRun(u) ==
    /\ user[u].pc = "resume"
    /\ LET r == RunOf(user[u].job) IN
       IF runs[r].status = "WAITING_APPROVAL"
       THEN /\ runs' = [runs EXCEPT ![r] = [@ EXCEPT !.status = "QUEUED", !.node = "tools"]]
            /\ GotoUser(u, "resume task")
       ELSE UNCHANGED runs /\ Respond(u)
    /\ UNCHANGED <<task, callVars, jobs, worker>>

ResumeTask(u) ==
    /\ user[u].pc = "resume task"
    /\ task' = IF task = "WAITING_APPROVAL" THEN "QUEUED" ELSE task
    /\ GotoUser(u, "enqueue")
    /\ UNCHANGED <<runs, callVars, jobs, worker>>

UserDies(u) ==
    /\ user[u].pc # "idle"
    /\ Respond(u)
    /\ UNCHANGED <<taskVars, callVars, jobs, worker>>

UserStep(u) ==
    \/ Run(u) \/ Enqueue(u) \/ EnqueueFails(u) \/ RemoveJobs(u) \/ Cancel(u)
    \/ Review(u) \/ ResumeRun(u) \/ ResumeTask(u) \/ UserDies(u)

(***************************************************************************)
(* process(): claim, restore, and the graph.                               *)
(***************************************************************************)
At(j, label)   == worker[j].pc = label
Held(j)        == worker[j].pc # "none"
Goto(j, label) == worker' = [worker EXCEPT ![j] = [@ EXCEPT !.pc = label, !.active = FALSE]]
SetRun(j, status, node) ==
    runs' = [runs EXCEPT ![RunOf(j)] = [@ EXCEPT !.status = status, !.node = node]]
SetNode(j, node) == runs' = [runs EXCEPT ![RunOf(j)].node = node]
SetCall(j, status) ==
    calls' = [calls EXCEPT ![RunOf(j)][worker[j].round].status = status] /\ UNCHANGED executed
FailCall(j) ==
    /\ calls' = [calls EXCEPT ![RunOf(j)][worker[j].round].status = "FAILED"]
    /\ executed' = [executed EXCEPT ![RunOf(j)][worker[j].round] = 0]
Return(j) ==
    /\ worker' = [worker EXCEPT ![j] = NoWorker]
    /\ jobs' = [jobs EXCEPT ![j].state = "done"]

\* Mutant of Claimable: a job delivered again does not take its run over.
ClaimableQueued(r) == runs[r].status = "QUEUED"

Claimable(r) == runs[r].status \in Pending

ClaimRun(j) ==
    /\ jobs[j].state = "waiting"
    /\ IF Claimable(RunOf(j))
       THEN /\ runs' = [runs EXCEPT ![RunOf(j)].status = "RUNNING"]
            /\ jobs' = [jobs EXCEPT ![j].state = "active"]
            /\ worker' = [worker EXCEPT ![j].pc = "claim task"]
       ELSE /\ jobs' = [jobs EXCEPT ![j].state = "done"]
            /\ UNCHANGED <<runs, worker>>
    /\ UNCHANGED <<task, callVars, user>>

ClaimTask(j) ==
    /\ At(j, "claim task")
    /\ task' = IF task \in Pending THEN "RUNNING" ELSE task
    /\ Goto(j, "restore")
    /\ UNCHANGED <<runs, callVars, jobs, user>>

Restore(j) ==
    /\ At(j, "restore")
    /\ LET run == runs[RunOf(j)] IN
       worker' = [worker EXCEPT ![j] = [NoWorker EXCEPT !.round = run.round,
                     !.pc = IF run.node \in {"tools", "draft"} THEN run.node ELSE "prepare"]]
    /\ UNCHANGED <<taskVars, callVars, jobs, user>>

\* assertActive, at the start of every node but replan, and before a tool. It is
\* a step of its own where the node then writes more than its own name.
Guarded == {"plan", "tools", "call", "deliver"}

AssertActive(j) ==
    /\ worker[j].pc \in Guarded /\ ~worker[j].active
    /\ IF task = "CANCELLED" THEN Return(j)
       ELSE worker' = [worker EXCEPT ![j].active = TRUE] /\ UNCHANGED jobs
    /\ UNCHANGED <<taskVars, callVars, user>>

Stop(j) ==
    /\ worker[j].pc \in Nodes \ Guarded /\ task = "CANCELLED"
    /\ Return(j)
    /\ UNCHANGED <<taskVars, callVars, user>>

In(j, node) ==
    At(j, node) /\ IF node \in Guarded THEN worker[j].active ELSE task # "CANCELLED"

Prepare(j) ==
    /\ In(j, "prepare")
    /\ SetNode(j, "plan")
    /\ Goto(j, "plan")
    /\ UNCHANGED <<task, callVars, jobs, user>>

\* persistPlan: a call of the round that is not PENDING stays unless planned anew.
PersistPlan(r, i) ==
    /\ \E call \in [status : {"PENDING"}, approval : {"NOT_REQUIRED", "PENDING"}]
                      \cup {IF calls[r][i].status = "PENDING" THEN NoCall ELSE calls[r][i]} :
          /\ calls' = [calls EXCEPT ![r][i] = call]
          /\ executed' = IF call.status = "PENDING" THEN [executed EXCEPT ![r][i] = 0] ELSE executed
    /\ runs' = [runs EXCEPT ![r].node = "tools"]

Plan(j) ==
    /\ In(j, "plan")
    /\ PersistPlan(RunOf(j), worker[j].round)
    /\ Goto(j, "tools")
    /\ UNCHANGED <<task, jobs, user>>

Call(j) == calls[RunOf(j)][worker[j].round]

\* Mutant of Waits: only the first plan of a run asks for approvals.
WaitsFirst(j) == worker[j].round = 0 /\ Call(j).status # "none" /\ Call(j).approval = "PENDING"

Waits(j) == Call(j).status # "none" /\ Call(j).approval = "PENDING"

ReadCalls(j) ==
    /\ In(j, "tools")
    /\ worker' = [worker EXCEPT ![j] = [@ EXCEPT !.active = FALSE, !.seen = Call(j),
                     !.pc = IF Waits(j) THEN "wait"
                            ELSE IF Call(j).status = "none" THEN "checkpoint" ELSE "call"]]
    /\ UNCHANGED <<taskVars, callVars, jobs, user>>

\* Task and run are written by their ids, whatever they have become. The job
\* ends after that: with LateDeath its worker may die in between.
AwaitApproval(j) ==
    /\ At(j, "wait")
    /\ task' = "WAITING_APPROVAL"
    /\ SetRun(j, "WAITING_APPROVAL", "tools")
    /\ Goto(j, "waited")
    /\ UNCHANGED <<callVars, jobs, user>>

EndWait(j) ==
    /\ At(j, "waited")
    /\ Return(j)
    /\ UNCHANGED <<taskVars, callVars, user>>

\* What was read before the loop decides; the row is not read again.
Rejected(j)    == worker[j].seen.approval = "REJECTED"
Done(j)        == worker[j].seen.status = "SUCCEEDED"

\* Mutant of Interrupted: a call that was under way is started again.
InterruptedNever(j) == FALSE

Interrupted(j) == worker[j].seen.status = "RUNNING"

\* The loop over the calls of the round ends.
Called(j) ==
    worker' = [worker EXCEPT ![j] = [@ EXCEPT !.pc = "checkpoint", !.active = FALSE, !.seen = NoCall]]

SkipCall(j) ==
    /\ In(j, "call")
    /\ \/ Rejected(j) /\ SetCall(j, "SKIPPED")
       \/ ~Rejected(j) /\ Done(j) /\ UNCHANGED <<calls, executed>>
       \* the tool is gone, or the call was under way
       \/ ~Rejected(j) /\ ~Done(j) /\ FailCall(j)
       \* the budget of the run is used up
       \/ ~Rejected(j) /\ ~Done(j) /\ ~Interrupted(j) /\ SetCall(j, "SKIPPED")
    /\ Called(j)
    /\ UNCHANGED <<taskVars, jobs, user>>

StartCall(j) ==
    /\ In(j, "call")
    /\ ~Rejected(j) /\ ~Done(j) /\ ~Interrupted(j)
    /\ SetCall(j, "RUNNING")
    /\ Goto(j, "execute")
    /\ UNCHANGED <<taskVars, jobs, user>>

Execute(j) ==
    /\ At(j, "execute")
    /\ executed' = [executed EXCEPT ![RunOf(j)][worker[j].round] = @ + 1]
    /\ Goto(j, "record")
    /\ UNCHANGED <<taskVars, calls, jobs, user>>

RecordCall(j) ==
    /\ At(j, "record")
    /\ SetCall(j, "SUCCEEDED") \/ FailCall(j)
    /\ Called(j)
    /\ UNCHANGED <<taskVars, jobs, user>>

\* The signal of a cancelled task interrupts the call; nothing is recorded.
Abort(j) ==
    /\ At(j, "record") /\ runs[RunOf(j)].status = "CANCELLED"
    /\ Return(j)
    /\ UNCHANGED <<taskVars, callVars, user>>

Checkpoint(j) ==
    /\ At(j, "checkpoint")
    /\ SetNode(j, "draft")
    /\ Goto(j, "draft")
    /\ UNCHANGED <<task, callVars, jobs, user>>

Draft(j) ==
    /\ In(j, "draft")
    /\ SetNode(j, "verify")
    /\ Goto(j, "verify")
    /\ UNCHANGED <<task, callVars, jobs, user>>

\* Mutant of Exhausted: one round too many.
ExhaustedLate(j) == worker[j].round >= Rounds

Exhausted(j) == worker[j].round + 1 >= Rounds

Verify(j) ==
    /\ In(j, "verify")
    /\ \/ /\ SetNode(j, "deliver")
          /\ Goto(j, "deliver")
       \/ /\ ~Exhausted(j)
          /\ SetNode(j, "replan")
          /\ Goto(j, "replan")
       \/ /\ Exhausted(j)
          /\ SetNode(j, "deliver")
          /\ worker' = [worker EXCEPT ![j] = [@ EXCEPT !.pc = "deliver", !.active = FALSE,
                                                       !.partial = TRUE]]
    /\ UNCHANGED <<task, callVars, jobs, user>>

NextRound(j) ==
    /\ At(j, "replan")
    /\ runs' = [runs EXCEPT ![RunOf(j)] = [@ EXCEPT !.round = worker[j].round + 1, !.node = "plan"]]
    /\ worker' = [worker EXCEPT ![j] = [@ EXCEPT !.pc = "replanned", !.round = worker[j].round + 1]]
    /\ UNCHANGED <<task, callVars, jobs, user>>

Replan(j) ==
    /\ At(j, "replanned")
    /\ PersistPlan(RunOf(j), worker[j].round)
    /\ Goto(j, "tools")
    /\ UNCHANGED <<task, jobs, user>>

\* The message and the files are stored, then the final status without a guard.
Deliver(j) ==
    /\ In(j, "deliver")
    /\ \E partial \in {worker[j].partial, TRUE} :
          LET status == IF partial THEN "PARTIAL" ELSE "SUCCEEDED" IN
          task' = status /\ SetRun(j, status, "done")
    /\ Return(j)
    /\ UNCHANGED <<callVars, user>>

\* The deadline, the budget or the model ends the graph. The catch: nothing if
\* the task is cancelled, else FAILED for what is pending.
Fallible(j) ==
    \/ At(j, "replan") \/ At(j, "replanned")
    \/ \E node \in {"plan", "tools", "draft", "verify"} : In(j, node)

Fails(j) ==
    /\ Fallible(j)
    /\ LET r == RunOf(j) IN
          /\ runs' = IF task # "CANCELLED" /\ runs[r].status \in Pending
                     THEN [runs EXCEPT ![r].status = "FAILED"] ELSE runs
          /\ task' = IF task \in Pending THEN "FAILED" ELSE task
    /\ Return(j)
    /\ UNCHANGED <<callVars, user>>

\* BullMQ finds the job stalled and gives it to a worker again, or fails it.
Dies(j) ==
    /\ Held(j) /\ (LateDeath \/ ~At(j, "waited"))
    /\ worker' = [worker EXCEPT ![j] = NoWorker]
    /\ jobs' = [jobs EXCEPT ![j] = [state |-> IF @.stalls < MaxStalls THEN "stalled" ELSE "done",
                                    stalls |-> @.stalls + 1]]
    /\ UNCHANGED <<taskVars, callVars, user>>

Redeliver(j) ==
    /\ jobs[j].state = "stalled"
    /\ jobs' = [jobs EXCEPT ![j].state = "waiting"]
    /\ UNCHANGED <<taskVars, callVars, worker, user>>

WorkerStep(j) ==
    \/ ClaimRun(j) \/ ClaimTask(j) \/ Restore(j) \/ AssertActive(j) \/ Stop(j) \/ Prepare(j) \/ Plan(j)
    \/ ReadCalls(j) \/ AwaitApproval(j) \/ EndWait(j) \/ SkipCall(j) \/ StartCall(j) \/ Execute(j)
    \/ RecordCall(j) \/ Abort(j) \/ Checkpoint(j) \/ Draft(j) \/ Verify(j) \/ NextRound(j)
    \/ Replan(j) \/ Deliver(j) \/ Fails(j) \/ Redeliver(j)

Next ==
    \/ \E u \in Users : UserStep(u)
    \/ \E j \in JobIds : WorkerStep(j) \/ Dies(j)

Spec == Init /\ [][Next]_vars

\* BullMQ hands out what waits, finds what stalled, and a worker goes on.
FairSpec == Spec /\ \A j \in JobIds : WF_vars(WorkerStep(j))

-----------------------------------------------------------------------------
\* Every row and every local variable has the shape of its schema, and a run
\* is in the last round it planned.
TypeOK ==
    /\ task \in Active \cup Final \cup {"DRAFT"}
    /\ runs \in [Runs -> [status : Active \cup Final \cup {"none"}, round : Round,
                          node : Nodes \cup {"replan", "done"}]]
    /\ calls \in [Runs -> [Round -> [status : {"none", "PENDING", "RUNNING", "SUCCEEDED", "FAILED",
                                               "SKIPPED"},
                                     approval : {"NOT_REQUIRED", "PENDING", "APPROVED", "REJECTED"}]]]
    /\ executed \in [Runs -> [Round -> Nat]]
    /\ jobs \in [JobIds -> [state : {"none", "waiting", "active", "stalled", "done"},
                            stalls : 0..MaxStalls + 1]]
    /\ \A j \in JobIds : (jobs[j].state = "active") = Held(j)
    /\ \A j \in JobIds : worker[j].round \in Round
    /\ user \in [Users -> [pc : {"idle", "enqueue", "cancel", "resume", "resume task"}, job : JobIds]]

\* An external tool that needs an approval is called only after the user gave
\* it for this very plan, whatever is replanned, cancelled, run again or
\* delivered again in between.
ToolIsApproved ==
    [][\A r \in Runs, i \in Round : executed'[r][i] > executed[r][i] =>
          calls[r][i].approval \in {"NOT_REQUIRED", "APPROVED"}]_vars

\* An external tool whose call succeeded, or whose answer was never recorded, is
\* not called again under the same plan: a worker that takes the run over after
\* a death or an approval stops the call instead of repeating it. With LateDeath
\* this fails: the approval may come before the second delivery of the job that
\* asked for it, and two workers then hold the run.
ToolRunsOnce ==
    \A r \in Runs, i \in Round : executed[r][i] <= 1

\* A run leaves RUNNING, also when its worker died and the job was delivered
\* again, unless the queue gave the job up after its last delivery or a
\* cancellation removed it and never came to its transaction.
Lost(j) == jobs[j].stalls > MaxStalls \/ (jobs[j].stalls > 0 /\ jobs[j].state = "none")

RunningEnds ==
    \A r \in Runs : runs[r].status = "RUNNING" ~>
        (runs[r].status # "RUNNING" \/ \E j \in JobIds : RunOf(j) = r /\ Lost(j))
=============================================================================
