---------------------------- MODULE JobLifecycle ----------------------------
(***************************************************************************)
(* The execution core of the release engine: the jobs table, the scheduler *)
(* loop of every engine replica (internal/scheduler/service.go), the       *)
(* runner that executes a claimed job (internal/runner/service.go) and the *)
(* step API through which a module records its steps and waits for an      *)
(* approval (internal/runner/step_api.go).                                 *)
(*                                                                         *)
(* Every SQL statement of the code commits on its own (no handler opens a  *)
(* transaction), so one action below is one statement with the Go code     *)
(* that follows it up to the next one, and a replica can stop between any  *)
(* two of them.                                                            *)
(***************************************************************************)
EXTENDS Naturals, FiniteSets

CONSTANTS
  Jobs,              \* ids of the rows of the jobs table
  Replicas,          \* engine processes, each with one scheduler goroutine
  RunIds,            \* run ids gen_random_uuid() can return
  NoRun,             \* stands for the run_id of a steps row that does not exist
  NoWork,            \* a replica that is inside no RunJob call
  NSteps,            \* number of steps a module takes
  Gates,             \* for each job, the steps that call WaitForApproval
  MaxAttempts,       \* max_attempts of each job
  Schedule,          \* "none", "recurring", or "ended": a cron with no next time
  BatchLimit,        \* LIMIT of the claim query
  LeaseOutlivesRun,  \* TRUE: only a wait for approval takes more than a lease's 60 s
  AttemptCap,        \* bound: no job is claimed for a later attempt
  MaxFaults          \* bound: crashes and failed statements in one behaviour

Steps == 1..NSteps
Attempts == 1..AttemptCap
Terminal == {"succeeded", "jobs_exhausted"}

ASSUME BoundsAssumption ==
  /\ NSteps \in Nat \ {0}
  /\ AttemptCap \in Nat
  /\ MaxFaults \in Nat
  /\ BatchLimit \in Nat \ {0}
  /\ LeaseOutlivesRun \in BOOLEAN

ASSUME JobsAssumption ==
  /\ MaxAttempts \in [Jobs -> Nat \ {0}]
  /\ Gates \in [Jobs -> SUBSET Steps]
  /\ Schedule \in [Jobs -> {"none", "recurring", "ended"}]
  /\ RunIds # {}
  /\ NoRun \notin RunIds

VARIABLES
  jobs,      \* the jobs table
  jobsRead,  \* the jobs_read projection
  steps,     \* the steps table, keyed (job, attempt, step), with its decision
  outbox,    \* number of job.succeeded rows of each job in the outbox table
  pc,        \* where each replica's scheduler goroutine is
  batch,     \* rows RETURNING gave to claimAndDispatch and not yet run
  work,      \* arguments and locals of the RunJob call in progress
  faults     \* crashes and failed statements so far

vars == <<jobs, jobsRead, steps, outbox, pc, batch, work, faults>>

Job == [state : {"queued", "running"} \cup Terminal,
        run : RunIds,
        attempt : 0..AttemptCap,
        lease : {"none", "live", "expired"},
        due : BOOLEAN]

\* Mutant of ReadRow: the projection writes the state finaliseSuccess meant.
ReadRowSucceeded(row) == [state |-> "succeeded", attempt |-> row.attempt]

\* The columns of jobs_read that a caller of the read API tells apart.
ReadRow(row) == [state |-> row.state, attempt |-> row.attempt]

StepRow == [status : {"absent", "ok", "error", "waiting_approval"},
            run : RunIds \cup {NoRun},
            decision : {"none", "approved", "rejected"}]

AbsentRow == [status |-> "absent", run |-> NoRun, decision |-> "none"]

Work == [job : Jobs, run : RunIds, attempt : Attempts, step : Steps]

ASSUME NoWorkAssumption == NoWork \notin Work

\* Inside module.Execute, or returned from it and not yet finalised.
Executing == {"exec", "parked", "approved", "gate_error"}
Returned == {"ok", "retryable", "terminal_error"}
\* The jobs row is finalised; the statements after it are still to run.
Finalised == {"project", "project_ok", "event"}

-----------------------------------------------------------------------------
(* Who owns a job.                                                         *)

\* Mutants of Fenced: the WHERE clause forgets the run id, or all of the fence.
FencedByState(j, u) == jobs[j].state = "running"
Unfenced(j, u) == TRUE

\* The predicate every UPDATE and SELECT of RunJob carries in its WHERE.
Fenced(j, u) == jobs[j].run = u /\ jobs[j].state = "running"

Working(r) == work[r] # NoWork

\* Run u of job j is in replica r's batch, or is the run r is inside.
Owns(r, j, u) ==
  \/ <<j, u>> \in batch[r]
  \/ Working(r) /\ work[r].job = j /\ work[r].run = u

\* Replica r still has the finalise of run u of job j ahead of it.
Holds(r, j, u) ==
  \/ <<j, u>> \in batch[r]
  \/ /\ pc[r] \in Executing \cup Returned
     /\ work[r].job = j
     /\ work[r].run = u

\* Run ids mentioned anywhere for job j: gen_random_uuid() repeats none.
UsedRuns(j) ==
  {jobs[j].run}
    \cup {steps[j][a][k].run : a \in Attempts, k \in Steps}
    \cup {u \in RunIds : \E r \in Replicas : Owns(r, j, u)}

\* Mutants of FreshRun: the claim keeps the run id of the row, or clears it.
KeptRun(j) == jobs[j].run
ClearedRun(j) == NoRun

\* run_id = gen_random_uuid() of the claim query.
FreshRun(j) == CHOOSE u \in RunIds : u \notin UsedRuns(j)

-----------------------------------------------------------------------------
Init ==
  /\ jobs = [j \in Jobs |-> [state |-> "queued",
                             run |-> CHOOSE u \in RunIds : TRUE,
                             attempt |-> 0,
                             lease |-> "none",
                             due |-> TRUE]]
  /\ jobsRead = [j \in Jobs |-> [state |-> "queued", attempt |-> 0]]
  /\ steps = [j \in Jobs |-> [a \in Attempts |-> [k \in Steps |-> AbsentRow]]]
  /\ outbox = [j \in Jobs |-> 0]
  /\ pc = [r \in Replicas |-> "idle"]
  /\ batch = [r \in Replicas |-> {}]
  /\ work = [r \in Replicas |-> NoWork]
  /\ faults = 0

\* One crash or one statement that fails, within the bound.
Fault == faults < MaxFaults /\ faults' = faults + 1

\* Replica r leaves RunJob and goes on with the rest of its batch.
Return(r) ==
  /\ pc' = [pc EXCEPT ![r] = "idle"]
  /\ work' = [work EXCEPT ![r] = NoWork]

Goto(r, p) == pc' = [pc EXCEPT ![r] = p]

-----------------------------------------------------------------------------
(* The scheduler.                                                          *)

AwaitsApproval(j) ==
  \E a \in Attempts, k \in Steps : steps[j][a][k].status = "waiting_approval"

\* Mutant of Claimable: expired leases are not picked up.
ClaimableIfQueued(j) ==
  jobs[j].state = "queued" /\ jobs[j].due /\ ~AwaitsApproval(j)

\* WHERE clause of the claim query.
Claimable(j) ==
  /\ \/ jobs[j].state = "queued" /\ jobs[j].due
     \/ jobs[j].state = "running" /\ jobs[j].lease = "expired"
  /\ ~AwaitsApproval(j)

\* The bounds of this model: attempts and run ids are not unlimited.
WithinBounds(j) ==
  /\ jobs[j].state = "queued" => jobs[j].attempt < AttemptCap
  /\ RunIds \ UsedRuns(j) # {}

\* SET clause of the claim query: a reclaim keeps its attempt.
ClaimedRow(j) ==
  [state |-> "running",
   run |-> FreshRun(j),
   attempt |-> IF jobs[j].state = "queued" THEN jobs[j].attempt + 1 ELSE jobs[j].attempt,
   lease |-> "live",
   due |-> jobs[j].due]

\* A tick of the scheduler loop: expired leases come first, then due jobs, up
\* to the limit. RETURNING promises no order, so the batch is a set.
ClaimAndDispatch(r) ==
  /\ pc[r] = "idle" /\ batch[r] = {}
  /\ LET runnable == {j \in Jobs : Claimable(j) /\ WithinBounds(j)}
     IN \E picked \in SUBSET runnable :
          /\ picked # {}
          /\ \/ picked = runnable /\ Cardinality(picked) <= BatchLimit
             \/ Cardinality(picked) = BatchLimit
          /\ \A j \in picked, k \in runnable \ picked :
               jobs[k].state = "running" => jobs[j].state = "running"
          /\ jobs' = [j \in Jobs |-> IF j \in picked THEN ClaimedRow(j) ELSE jobs[j]]
          /\ batch' = [batch EXCEPT ![r] = {<<j, FreshRun(j)>> : j \in picked}]
  /\ UNCHANGED <<jobsRead, steps, outbox, pc, work, faults>>

-----------------------------------------------------------------------------
(* The runner: fetch, execute, finalise.                                   *)

\* RunJob up to Execute: the fetch is fenced; a lost fence or a failed query
\* skips the job; an unknown module counts as a retryable failure.
StartRun(r) ==
  /\ pc[r] = "idle"
  /\ \E p \in batch[r] :
       /\ batch' = [batch EXCEPT ![r] = @ \ {p}]
       /\ \/ /\ Fenced(p[1], p[2])
             /\ \E next \in {"exec", "retryable"} : Goto(r, next)
             /\ work' = [work EXCEPT ![r] = [job |-> p[1], run |-> p[2],
                                             attempt |-> jobs[p[1]].attempt,
                                             step |-> 1]]
             /\ UNCHANGED faults
          \/ ~Fenced(p[1], p[2]) /\ UNCHANGED <<pc, work, faults>>
          \/ Fault /\ UNCHANGED <<pc, work>>
  /\ UNCHANGED <<jobs, jobsRead, steps, outbox>>

\* INSERT ... ON CONFLICT (job_id, attempt, step_key) DO UPDATE: neither fenced
\* by the run nor moving an existing row to the writer's run.
Upsert(w, status) ==
  steps' = [steps EXCEPT ![w.job][w.attempt][w.step] =
              [status |-> status,
               run |-> IF @.status = "absent" THEN w.run ELSE @.run,
               decision |-> @.decision]]

\* Modules discard the error of EndStepOK and EndStepErr: a failed write is lost.
EndStep(w, status) ==
  \/ Upsert(w, status) /\ UNCHANGED faults
  \/ Fault /\ UNCHANGED steps

NextStep(w) ==
  [job |-> w.job, run |-> w.run, attempt |-> w.attempt, step |-> w.step + 1]

\* A step of the module, or an approved gate, ends well; after the last one
\* Execute returns nil.
EndStepOK(r) ==
  /\ \/ pc[r] = "exec" /\ work[r].step \notin Gates[work[r].job]
     \/ pc[r] = "approved"
  /\ EndStep(work[r], "ok")
  /\ IF work[r].step = NSteps
     THEN Goto(r, "ok") /\ UNCHANGED work
     ELSE Goto(r, "exec") /\ work' = [work EXCEPT ![r] = NextStep(@)]
  /\ UNCHANGED <<jobs, jobsRead, outbox, batch>>

\* A step fails and Execute returns its error: retryable or a TerminalError. A
\* rejected or broken gate is always retryable.
EndStepErr(r) ==
  /\ pc[r] \in {"exec", "gate_error"}
  /\ EndStep(work[r], "error")
  /\ \/ Goto(r, "retryable")
     \/ pc[r] = "exec" /\ Goto(r, "terminal_error")
  /\ UNCHANGED <<jobs, jobsRead, outbox, batch, work>>

\* WaitForApproval parks the step and starts polling.
Park(r) ==
  /\ pc[r] = "exec" /\ work[r].step \in Gates[work[r].job]
  /\ \/ Upsert(work[r], "waiting_approval") /\ Goto(r, "parked") /\ UNCHANGED faults
     \/ Fault /\ Goto(r, "gate_error") /\ UNCHANGED steps
  /\ UNCHANGED <<jobs, jobsRead, outbox, batch, work>>

\* Mutants of DecisionFor: the polling query is not bound to the poller's run,
\* takes any decision for an approval, or asks for an approval only.
DecisionForAnyRun(w) == steps[w.job][w.attempt][w.step].decision

AnyDecisionFor(w) ==
  LET row == steps[w.job][w.attempt][w.step]
  IN IF row.run = w.run /\ row.decision # "none" THEN "approved" ELSE "none"

ApprovalFor(w) ==
  LET row == steps[w.job][w.attempt][w.step]
  IN IF row.run = w.run /\ row.decision = "approved" THEN "approved" ELSE "none"

\* The row the polling query finds: a decision on the step, under the poller's
\* own run id.
DecisionFor(w) ==
  LET row == steps[w.job][w.attempt][w.step]
  IN IF row.run = w.run THEN row.decision ELSE "none"

\* A tick of the polling loop that finds a decision, or whose query fails.
PollDecision(r) ==
  /\ pc[r] = "parked"
  /\ \/ DecisionFor(work[r]) = "approved" /\ Goto(r, "approved") /\ UNCHANGED faults
     \/ DecisionFor(work[r]) = "rejected" /\ Goto(r, "gate_error") /\ UNCHANGED faults
     \/ Fault /\ Goto(r, "gate_error")
  /\ UNCHANGED <<jobs, jobsRead, steps, outbox, batch, work>>

\* What the UPDATE of every finalise* does to the row: no owner, no lease, and
\* next_run_at in the future or NULL.
Released(row, state) ==
  [state |-> state, run |-> row.run, attempt |-> row.attempt,
   lease |-> "none", due |-> FALSE]

\* finaliseSuccess up to its UPDATE. A schedule without a next occurrence is an
\* error and leaves the row as it is, and so does a failed statement.
FinaliseSuccess(r) ==
  LET w == work[r] IN
  /\ pc[r] = "ok"
  /\ \/ /\ Fenced(w.job, w.run)
        /\ Schedule[w.job] # "ended"
        /\ jobs' = [jobs EXCEPT ![w.job] =
                      Released(@, IF Schedule[w.job] = "none" THEN "succeeded" ELSE "queued")]
        /\ Goto(r, "project_ok")
        /\ UNCHANGED <<work, faults>>
     \/ /\ ~Fenced(w.job, w.run) \/ Schedule[w.job] = "ended"
        /\ Return(r)
        /\ UNCHANGED <<jobs, faults>>
     \/ Fault /\ Return(r) /\ UNCHANGED jobs
  /\ UNCHANGED <<jobsRead, steps, outbox, batch>>

\* Mutant of FailedRow: one attempt too many.
FailedRowOffByOne(row, limit) ==
  Released(row, IF row.attempt > limit THEN "jobs_exhausted" ELSE "queued")

\* UPDATE of finaliseFailure: back to the queue with a back-off, or exhausted.
FailedRow(row, limit) ==
  Released(row, IF row.attempt >= limit THEN "jobs_exhausted" ELSE "queued")

\* finaliseFailure and finaliseTerminal up to their UPDATE.
FinaliseError(r) ==
  LET w == work[r] IN
  /\ pc[r] \in {"retryable", "terminal_error"}
  /\ \/ /\ Fenced(w.job, w.run)
        /\ jobs' = [jobs EXCEPT ![w.job] =
                      IF pc[r] = "retryable"
                      THEN FailedRow(@, MaxAttempts[w.job])
                      ELSE Released(@, "jobs_exhausted")]
        /\ Goto(r, "project")
        /\ UNCHANGED <<work, faults>>
     \/ ~Fenced(w.job, w.run) /\ Return(r) /\ UNCHANGED <<jobs, faults>>
     \/ Fault /\ Return(r) /\ UNCHANGED jobs
  /\ UNCHANGED <<jobsRead, steps, outbox, batch>>

\* The jobs_read upsert copies the jobs row as it is now; its error is ignored.
Project(r) ==
  /\ pc[r] \in {"project", "project_ok"}
  /\ \/ /\ jobsRead' = [jobsRead EXCEPT ![work[r].job] = ReadRow(jobs[work[r].job])]
        /\ UNCHANGED faults
     \/ Fault /\ UNCHANGED jobsRead
  /\ IF pc[r] = "project" THEN Return(r) ELSE Goto(r, "event") /\ UNCHANGED work
  /\ UNCHANGED <<jobs, steps, outbox, batch>>

\* The outbox insert of finaliseSuccess; its error is ignored.
EmitSucceeded(r) ==
  /\ pc[r] = "event"
  /\ \/ outbox' = [outbox EXCEPT ![work[r].job] = @ + 1] /\ UNCHANGED faults
     \/ Fault /\ UNCHANGED outbox
  /\ Return(r)
  /\ UNCHANGED <<jobs, jobsRead, steps, batch>>

-----------------------------------------------------------------------------
(* Failures, time and approvers.                                           *)

\* The process dies and is restarted: whatever it had in memory is gone.
Crash(r) ==
  /\ Working(r) \/ batch[r] # {}
  /\ Fault
  /\ Return(r)
  /\ batch' = [batch EXCEPT ![r] = {}]
  /\ UNCHANGED <<jobs, jobsRead, steps, outbox>>

\* A shutdown cancels the context of a parked run: the module still records the
\* step error, but finaliseFailure cannot get a connection and the process ends.
Shutdown(r) ==
  /\ pc[r] = "parked"
  /\ Fault
  /\ Upsert(work[r], "error")
  /\ Return(r)
  /\ batch' = [batch EXCEPT ![r] = {}]
  /\ UNCHANGED <<jobs, jobsRead, outbox>>

\* A row on which only the comparisons with now() change.
TimedRow(row, lease, due) ==
  [state |-> row.state, run |-> row.run, attempt |-> row.attempt,
   lease |-> lease, due |-> due]

\* lease_expires_at passes. No heartbeat extends a lease.
LeaseExpires(j) ==
  /\ jobs[j].state = "running" /\ jobs[j].lease = "live"
  /\ LeaseOutlivesRun =>
       \A r \in Replicas : Holds(r, j, jobs[j].run) => pc[r] = "parked"
  /\ jobs' = [jobs EXCEPT ![j] = TimedRow(@, "expired", @.due)]
  /\ UNCHANGED <<jobsRead, steps, outbox, pc, batch, work, faults>>

\* next_run_at passes: a back-off ends or the schedule comes round.
BecomesDue(j) ==
  /\ jobs[j].state = "queued" /\ ~jobs[j].due
  /\ jobs' = [jobs EXCEPT ![j] = TimedRow(@, @.lease, TRUE)]
  /\ UNCHANGED <<jobsRead, steps, outbox, pc, batch, work, faults>>

\* An approver's POST: the step must be waiting, the row takes the step's
\* run_id, and UNIQUE (step_id, approver) refuses the approver's second one. A
\* step has one approver here.
SubmitDecision(j, a, k, d) ==
  /\ steps[j][a][k].status = "waiting_approval"
  /\ steps[j][a][k].decision = "none"
  /\ steps' = [steps EXCEPT ![j][a][k] =
                [status |-> @.status, run |-> @.run, decision |-> d]]
  /\ UNCHANGED <<jobs, jobsRead, outbox, pc, batch, work, faults>>

-----------------------------------------------------------------------------
\* What the goroutine of replica r does when nothing goes wrong around it.
RunnerStep(r) ==
  \/ StartRun(r) \/ EndStepOK(r) \/ EndStepErr(r) \/ Park(r) \/ PollDecision(r)
  \/ FinaliseSuccess(r) \/ FinaliseError(r) \/ Project(r) \/ EmitSucceeded(r)

Decide(j) ==
  \E a \in Attempts, k \in Steps, d \in {"approved", "rejected"} :
    SubmitDecision(j, a, k, d)

Next ==
  \/ \E r \in Replicas :
       ClaimAndDispatch(r) \/ RunnerStep(r) \/ Crash(r) \/ Shutdown(r)
  \/ \E j \in Jobs : LeaseExpires(j) \/ BecomesDue(j) \/ Decide(j)

Spec == Init /\ [][Next]_vars

\* A replica that is up keeps ticking and its module calls return; database
\* time passes. Nothing is said of approvers.
EngineFairness ==
  /\ \A r \in Replicas : WF_vars(ClaimAndDispatch(r)) /\ WF_vars(RunnerStep(r))
  /\ \A j \in Jobs : WF_vars(LeaseExpires(j)) /\ WF_vars(BecomesDue(j))

FairSpec == Spec /\ EngineFairness

\* The engine with approvers who eventually decide what they are asked.
AttendedSpec == FairSpec /\ \A j \in Jobs : WF_vars(Decide(j))

-----------------------------------------------------------------------------
(* Properties.                                                             *)

\* Type correctness of the tables and of every replica's locals; a job that left
\* the queue has an attempt, and a replica has a RunJob frame exactly when it is
\* inside RunJob.
TypeOK ==
  /\ jobs \in [Jobs -> Job]
  /\ \A j \in Jobs : jobs[j].state # "queued" => jobs[j].attempt \in Attempts
  /\ jobsRead \in [Jobs -> [state : {"queued", "running"} \cup Terminal,
                           attempt : 0..AttemptCap]]
  /\ steps \in [Jobs -> [Attempts -> [Steps -> StepRow]]]
  /\ outbox \in [Jobs -> Nat]
  /\ pc \in [Replicas -> {"idle"} \cup Executing \cup Returned \cup Finalised]
  /\ batch \in [Replicas -> SUBSET (Jobs \X RunIds)]
  /\ work \in [Replicas -> Work \cup {NoWork}]
  /\ \A r \in Replicas : pc[r] = "idle" <=> work[r] = NoWork
  /\ faults \in 0..MaxFaults

\* No run id is held by two replicas, or twice by one: whatever the order of
\* claims, crashes and expiries, the fence of RunJob lets one goroutine through
\* (claimAndDispatch gives a reclaimed job a new run_id).
RunHeldOnce ==
  \A r, s \in Replicas, j \in Jobs, u \in RunIds :
    Owns(r, j, u) /\ Owns(s, j, u) =>
      /\ r = s
      /\ ~(<<j, u>> \in batch[r] /\ Working(r) /\ work[r].job = j /\ work[r].run = u)

\* While a job is queued or terminal no replica is still executing its current
\* run: a run that lost its lease cannot put a job back in the queue, or end it,
\* under the feet of the run that replaced it (the WHERE run_id of finalise*).
NoActiveRunOnIdleJob ==
  \A r \in Replicas, j \in Jobs :
    jobs[j].state # "running" => ~Holds(r, j, jobs[j].run)

\* Retries are bounded: an unscheduled job never exceeds max_attempts, however
\* often its runs fail, crash or are fenced out, and a queued one has an attempt
\* left (attempt >= max_attempts in finaliseFailure, attempt + 1 in the claim).
AttemptBudget ==
  \A j \in Jobs : Schedule[j] = "none" =>
    /\ jobs[j].attempt <= MaxAttempts[j]
    /\ jobs[j].state = "queued" => jobs[j].attempt < MaxAttempts[j]

\* A succeeded or exhausted job keeps its row: no late finalise of a stale run,
\* claim or expiry changes it again.
TerminalIsFinal ==
  [][\A j \in Jobs : jobs[j].state \in Terminal => jobs'[j] = jobs[j]]_vars

\* An unscheduled job is announced at most once, and only once it has succeeded:
\* runs that were fenced out add no job.succeeded row (finaliseSuccess returns
\* before the outbox insert when its UPDATE changed nothing).
AnnouncedOnce ==
  \A j \in Jobs : Schedule[j] = "none" /\ outbox[j] > 0 =>
    outbox[j] = 1 /\ jobs[j].state = "succeeded"

\* A scheduled job is announced at most once per attempt, although its row goes
\* back to the queue before the event is written.
OneEventPerAttempt == \A j \in Jobs : outbox[j] <= jobs[j].attempt

\* jobs_read may lag behind jobs but never reports an end that did not happen: a
\* terminal row of the projection is the jobs row.
ReadModelHonest ==
  \A j \in Jobs :
    /\ jobsRead[j].attempt <= jobs[j].attempt
    /\ jobsRead[j].state \in Terminal => jobsRead[j] = ReadRow(jobs[j])

\* A job succeeds only after every gate of its last attempt was approved for the
\* very run that succeeded: neither a rejection nor an approval given to a run
\* that lost the job lets it through (run_id in the polling query).
SuccessWasApproved ==
  \A j \in Jobs : jobs[j].state = "succeeded" =>
    \A g \in Gates[j] :
      /\ steps[j][jobs[j].attempt][g].decision = "approved"
      /\ steps[j][jobs[j].attempt][g].run = jobs[j].run

\* Replica r is inside the gate of step k and will end the step by itself once
\* its decision is there: it polls for the row's run, or has its answer already.
Attends(r, j, a, k) ==
  /\ pc[r] \in {"parked", "approved", "gate_error"}
  /\ work[r].job = j /\ work[r].attempt = a /\ work[r].step = k
  /\ work[r].run = steps[j][a][k].run

\* A step of job j waits for a decision that nobody will act on: the replica that
\* parked it stopped, or another run of the attempt parked it again.
Stranded(j) ==
  \E a \in Attempts, k \in Steps :
    /\ steps[j][a][k].status = "waiting_approval"
    /\ \A r \in Replicas : ~Attends(r, j, a, k)

\* Replica r polls for its own run at a row that carries another run's id: no
\* decision reaches it, and the rest of its batch waits behind it.
Deaf(r) ==
  /\ pc[r] = "parked"
  /\ steps[work[r].job][work[r].attempt][work[r].step].run # work[r].run

Blocked(j) == Stranded(j) \/ \A r \in Replicas : Deaf(r)

\* Every unscheduled job ends, succeeded or exhausted, in spite of crashes and
\* failed statements (expired leases in the claim query). There is one way not
\* to: from some point on, for ever, a step of the job itself is stranded, which
\* keeps the job out of the claim query, or every replica is deaf.
EventuallyTerminal ==
  \A j \in Jobs : Schedule[j] = "none" =>
    <>(jobs[j].state \in Terminal) \/ <>[]Blocked(j)

\* Every run settles: a running job is finalised, by the replica that claimed it
\* or, if that one dies or sits in a gate, by one that reclaims it, again unless
\* the job is blocked for ever. For a recurring job a success is a return to the
\* queue.
RunsSettle ==
  \A j \in Jobs : []<>(jobs[j].state # "running") \/ <>[]Blocked(j)

-----------------------------------------------------------------------------
(* What the engine promises of each job.                                   *)

\* The contract of job j, read off the tables and the replicas' frames.
Contract(j) ==
  INSTANCE JobContract WITH
    Limit <- MaxAttempts[j],
    Recurs <- Schedule[j] # "none",
    state <- jobs[j].state,
    attempt <- jobs[j].attempt,
    current <- jobs[j].run,
    live <- {u \in RunIds : \E r \in Replicas : Holds(r, j, u)}

\* Scheduler, runner and step API together implement the contract of every job:
\* whatever replicas do to it, a job is moved on by its current run only. (This is
\* \A j \in Jobs : Contract(j)!Spec in the form TLC can check.)
ImplementsContract ==
  /\ \A j \in Jobs : Contract(j)!Init
  /\ [][\A j \in Jobs : [Contract(j)!Next]_(Contract(j)!vars)]_vars

-----------------------------------------------------------------------------
(* What the design documents say of the same code.                         *)

\* The status column of a job's steps.
StepStatus(j) == [a \in Attempts |-> [k \in Steps |-> steps[j][a][k].status]]

\* "The new run_id UUID fences any late writes from the prior owner" (d05): a
\* replica changes the status of a job's steps only while it owns the job.
StepWritesFenced ==
  [][\A r \in Replicas : \A j \in Jobs :
       /\ StepStatus(j)' # StepStatus(j)
       /\ pc'[r] # pc[r] \/ work'[r] # work[r]
       => Fenced(j, work[r].run)]_vars

\* "Decision updates step progression atomically with decision persistence"
\* (d04): a step that has its decision stops waiting.
DecisionsTakeEffect ==
  \A j \in Jobs, a \in Attempts, k \in Steps :
    (steps[j][a][k].status = "waiting_approval" /\ steps[j][a][k].decision # "none")
      ~> steps[j][a][k].status # "waiting_approval"

\* The scheduler "dispatches each to an available runner goroutine" (d03): a job
\* without a gate ends although another job waits for its approver.
UngatedJobsProgress ==
  \A j \in Jobs :
    Gates[j] = {} /\ Schedule[j] = "none" => <>(jobs[j].state \in Terminal)
=============================================================================
