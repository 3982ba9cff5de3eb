------------------------- MODULE JobLifecycleProofs -------------------------
(***************************************************************************)
(* Machine-checked proofs about JobLifecycle, for any number of jobs,      *)
(* replicas, steps, attempts and faults.                                   *)
(***************************************************************************)
EXTENDS JobLifecycle, FiniteSetTheorems, TLAPS

\* gen_random_uuid() as the claim uses it: a run id nothing refers to.
LEMMA FreshRunIsFresh ==
  ASSUME NEW j \in Jobs, WithinBounds(j)
  PROVE  FreshRun(j) \in RunIds /\ FreshRun(j) \notin UsedRuns(j)
  <1>1. PICK u \in RunIds : u \notin UsedRuns(j)
    BY DEF WithinBounds
  <1>2. QED
    BY <1>1 DEF FreshRun

\* A replica that is inside RunJob has the arguments and locals of the call.
LEMMA InRunJob ==
  ASSUME TypeOK, NEW r \in Replicas, pc[r] # "idle"
  PROVE  /\ work[r] \in Work
         /\ work[r] # NoWork
         /\ work[r].job \in Jobs /\ work[r].run \in RunIds
         /\ work[r].attempt \in Attempts /\ work[r].step \in Steps
  <1>1. work[r] \in Work
    BY DEF TypeOK
  <1> QED
    BY <1>1, NoWorkAssumption DEF Work

\* The upsert of the step API keeps the steps table well formed.
LEMMA UpsertType ==
  ASSUME TypeOK, NEW w \in Work,
         NEW status \in {"ok", "error", "waiting_approval"}, Upsert(w, status)
  PROVE  steps' \in [Jobs -> [Attempts -> [Steps -> StepRow]]]
  BY DEF TypeOK, Work, Upsert, StepRow

\* The UPDATE of a finalise* keeps the jobs table well formed.
LEMMA ReleasedType ==
  ASSUME TypeOK, NEW j \in Jobs, jobs[j].state = "running",
         NEW state \in {"queued"} \cup Terminal,
         jobs' = [jobs EXCEPT ![j] = Released(jobs[j], state)]
  PROVE  /\ jobs' \in [Jobs -> Job]
         /\ \A k \in Jobs : jobs'[k].state # "queued" => jobs'[k].attempt \in Attempts
  <1>1. Released(jobs[j], state) \in Job
    BY DEF TypeOK, Released, Job
  <1>2. Released(jobs[j], state).attempt \in Attempts
    BY DEF TypeOK, Released
  <1> QED
    BY <1>1, <1>2 DEF TypeOK

LEMMA FaultType ==
  ASSUME TypeOK, Fault \/ UNCHANGED faults
  PROVE  faults' \in 0..MaxFaults
  BY BoundsAssumption DEF TypeOK, Fault

\* The places of the scheduler goroutine.
Places == {"idle"} \cup Executing \cup Returned \cup Finalised

\* Control moves within RunJob, or leaves it: the frame follows.
LEMMA FrameType ==
  ASSUME TypeOK, NEW r \in Replicas, pc[r] # "idle",
         \/ \E p \in Places \ {"idle"} : Goto(r, p) /\ UNCHANGED work
         \/ Return(r)
  PROVE  /\ pc' \in [Replicas -> Places]
         /\ work' \in [Replicas -> Work \cup {NoWork}]
         /\ \A s \in Replicas : pc'[s] = "idle" <=> work'[s] = NoWork
  <1>1. CASE Return(r)
    BY <1>1 DEF Return, TypeOK, Places
  <1>2. ASSUME NEW p \in Places \ {"idle"}, Goto(r, p), UNCHANGED work
        PROVE  /\ pc' \in [Replicas -> Places]
               /\ work' \in [Replicas -> Work \cup {NoWork}]
               /\ \A s \in Replicas : pc'[s] = "idle" <=> work'[s] = NoWork
    BY <1>2 DEF Goto, TypeOK, Places
  <1> QED
    BY <1>1, <1>2

-----------------------------------------------------------------------------
\* The tables and the replicas' locals keep their types under every statement
\* of the scheduler, the runner and the step API.
THEOREM TypeCorrect == Spec => []TypeOK
  <1>1. Init => TypeOK
    BY BoundsAssumption, JobsAssumption
    DEF Init, TypeOK, Job, StepRow, AbsentRow, Attempts, Steps, Terminal
  <1>2. TypeOK /\ [Next]_vars => TypeOK'
    <2> SUFFICES ASSUME TypeOK, [Next]_vars PROVE TypeOK'
      OBVIOUS
    <2> USE BoundsAssumption, JobsAssumption, NoWorkAssumption
    <2>1. ASSUME NEW r \in Replicas, ClaimAndDispatch(r) PROVE TypeOK'
      <3>1. PICK picked \in SUBSET {j \in Jobs : Claimable(j) /\ WithinBounds(j)} :
              /\ jobs' = [j \in Jobs |-> IF j \in picked THEN ClaimedRow(j) ELSE jobs[j]]
              /\ batch' = [batch EXCEPT ![r] = {<<j, FreshRun(j)>> : j \in picked}]
        BY <2>1 DEF ClaimAndDispatch
      <3>2. ASSUME NEW j \in picked
            PROVE  ClaimedRow(j) \in Job /\ <<j, FreshRun(j)>> \in Jobs \X RunIds
        <4>1. FreshRun(j) \in RunIds
          BY <3>1, FreshRunIsFresh
        <4>2. jobs[j] \in Job /\ jobs[j].attempt \in 0..AttemptCap
          BY DEF TypeOK, Job
        <4>3. jobs[j].state = "queued" => jobs[j].attempt + 1 \in 0..AttemptCap
          BY <4>2, <3>1 DEF WithinBounds
        <4> QED
          BY <3>1, <4>1, <4>2, <4>3 DEF ClaimedRow, Job
      <3>3. jobs' \in [Jobs -> Job]
        BY <3>1, <3>2 DEF TypeOK
      <3>5. ASSUME NEW j \in Jobs, jobs'[j].state # "queued"
            PROVE  jobs'[j].attempt \in Attempts
        <4>1. CASE j \in picked
          <5>1. jobs[j].state \in {"queued", "running"}
            BY <3>1, <4>1 DEF Claimable
          <5>2. jobs[j].attempt \in 0..AttemptCap
            BY DEF TypeOK, Job
          <5>3. CASE jobs[j].state = "queued"
            BY <3>1, <4>1, <5>2, <5>3 DEF ClaimedRow, WithinBounds, Attempts
          <5>4. CASE jobs[j].state = "running"
            BY <3>1, <4>1, <5>4 DEF ClaimedRow, TypeOK
          <5> QED
            BY <5>1, <5>3, <5>4
        <4> QED
          BY <3>1, <3>5, <4>1 DEF TypeOK
      <3>4. batch' \in [Replicas -> SUBSET (Jobs \X RunIds)]
        BY <3>1, <3>2 DEF TypeOK
      <3> QED
        BY <2>1, <3>3, <3>4, <3>5 DEF ClaimAndDispatch, TypeOK
    <2>2. ASSUME NEW r \in Replicas, StartRun(r) PROVE TypeOK'
      <3>1. PICK p \in batch[r] :
              /\ batch' = [batch EXCEPT ![r] = @ \ {p}]
              /\ \/ /\ Fenced(p[1], p[2])
                    /\ \E next \in {"exec", "retryable"} : Goto(r, next)
                    /\ work' = [work EXCEPT ![r] = [job |-> p[1], run |-> p[2],
                                                    attempt |-> jobs[p[1]].attempt,
                                                    step |-> 1]]
                    /\ UNCHANGED faults
                 \/ ~Fenced(p[1], p[2]) /\ UNCHANGED <<pc, work, faults>>
                 \/ Fault /\ UNCHANGED <<pc, work>>
        BY <2>2 DEF StartRun
      <3>2. p \in Jobs \X RunIds
        BY DEF TypeOK
      <3>3. jobs[p[1]] \in Job
        BY <3>2 DEF TypeOK
      <3>4. CASE UNCHANGED <<pc, work>>
        BY <2>2, <3>1, <3>4, FaultType DEF StartRun, TypeOK
      <3>5. ASSUME NEW next \in {"exec", "retryable"}, Goto(r, next), UNCHANGED faults,
                   work' = [work EXCEPT ![r] = [job |-> p[1], run |-> p[2],
                                                attempt |-> jobs[p[1]].attempt,
                                                step |-> 1]],
                   Fenced(p[1], p[2])
            PROVE  TypeOK'
        <4>1. jobs[p[1]].attempt \in Attempts
          BY <3>2, <3>5 DEF Fenced, TypeOK
        <4>2. [job |-> p[1], run |-> p[2], attempt |-> jobs[p[1]].attempt, step |-> 1] \in Work
          BY <3>2, <4>1, BoundsAssumption DEF Work, Steps
        <4>3. /\ work' \in [Replicas -> Work \cup {NoWork}]
              /\ \A q \in Replicas : pc'[q] = "idle" <=> work'[q] = NoWork
          BY <3>5, <4>2, NoWorkAssumption DEF TypeOK, Goto
        <4>4. pc' \in [Replicas -> {"idle"} \cup Executing \cup Returned \cup Finalised]
          BY <3>5 DEF TypeOK, Goto, Executing, Returned
        <4>5. batch' \in [Replicas -> SUBSET (Jobs \X RunIds)]
          BY <3>1, <3>2 DEF TypeOK
        <4> QED
          BY <2>2, <3>5, <4>3, <4>4, <4>5 DEF StartRun, TypeOK
      <3> QED
        BY <3>1, <3>4, <3>5
    <2>3. ASSUME NEW r \in Replicas, EndStepOK(r) PROVE TypeOK'
      <3>1. pc[r] # "idle" /\ work[r] \in Work
        BY <2>3, InRunJob DEF EndStepOK
      <3>2. steps' \in [Jobs -> [Attempts -> [Steps -> StepRow]]]
        BY <2>3, <3>1, UpsertType DEF EndStepOK, EndStep, TypeOK
      <3>3. faults' \in 0..MaxFaults
        BY <2>3, FaultType DEF EndStepOK, EndStep
      <3>4. CASE work[r].step = NSteps
        BY <2>3, <3>1, <3>2, <3>3, <3>4, FrameType
        DEF EndStepOK, TypeOK, Places, Returned
      <3>5. CASE work[r].step # NSteps
        <4>1. NextStep(work[r]) \in Work
          BY <3>1, <3>5 DEF NextStep, Work, Steps
        <4> QED
          BY <2>3, <3>1, <3>2, <3>3, <3>5, <4>1 DEF EndStepOK, Goto, TypeOK, Executing
      <3> QED
        BY <3>4, <3>5
    <2>4. ASSUME NEW r \in Replicas, EndStepErr(r) PROVE TypeOK'
      <3>1. pc[r] # "idle" /\ work[r] \in Work
        BY <2>4, InRunJob DEF EndStepErr
      <3>2. steps' \in [Jobs -> [Attempts -> [Steps -> StepRow]]]
        BY <2>4, <3>1, UpsertType DEF EndStepErr, EndStep, TypeOK
      <3>3. faults' \in 0..MaxFaults
        BY <2>4, FaultType DEF EndStepErr, EndStep
      <3> QED
        BY <2>4, <3>1, <3>2, <3>3, FrameType DEF EndStepErr, TypeOK, Places, Returned
    <2>5. ASSUME NEW r \in Replicas, Park(r) PROVE TypeOK'
      <3>1. pc[r] # "idle" /\ work[r] \in Work
        BY <2>5, InRunJob DEF Park
      <3>2. steps' \in [Jobs -> [Attempts -> [Steps -> StepRow]]]
        BY <2>5, <3>1, UpsertType DEF Park, TypeOK
      <3>3. faults' \in 0..MaxFaults
        BY <2>5, FaultType DEF Park
      <3> QED
        BY <2>5, <3>1, <3>2, <3>3, FrameType DEF Park, TypeOK, Places, Executing
    <2>6. ASSUME NEW r \in Replicas, PollDecision(r) PROVE TypeOK'
      <3>1. faults' \in 0..MaxFaults
        BY <2>6, FaultType DEF PollDecision
      <3> QED
        BY <2>6, <3>1, FrameType DEF PollDecision, TypeOK, Places, Executing
    <2>7. ASSUME NEW r \in Replicas, FinaliseSuccess(r) PROVE TypeOK'
      <3>1. pc[r] # "idle" /\ work[r] \in Work /\ work[r].job \in Jobs
        BY <2>7, InRunJob DEF FinaliseSuccess
      <3>2. faults' \in 0..MaxFaults
        BY <2>7, FaultType DEF FinaliseSuccess
      <3>3. /\ jobs' \in [Jobs -> Job]
            /\ \A j \in Jobs : jobs'[j].state # "queued" => jobs'[j].attempt \in Attempts
        <4>1. CASE UNCHANGED jobs
          BY <4>1 DEF TypeOK
        <4>2. CASE ~ UNCHANGED jobs
          BY <2>7, <3>1, <4>2, ReleasedType DEF FinaliseSuccess, Fenced, Terminal
        <4> QED
          BY <4>1, <4>2
      <3> QED
        BY <2>7, <3>1, <3>2, <3>3, FrameType DEF FinaliseSuccess, TypeOK, Places, Finalised
    <2>8. ASSUME NEW r \in Replicas, FinaliseError(r) PROVE TypeOK'
      <3>1. pc[r] # "idle" /\ work[r] \in Work /\ work[r].job \in Jobs
        BY <2>8, InRunJob DEF FinaliseError
      <3>2. faults' \in 0..MaxFaults
        BY <2>8, FaultType DEF FinaliseError
      <3>3. /\ jobs' \in [Jobs -> Job]
            /\ \A j \in Jobs : jobs'[j].state # "queued" => jobs'[j].attempt \in Attempts
        <4>1. CASE UNCHANGED jobs
          BY <4>1 DEF TypeOK
        <4>2. CASE ~ UNCHANGED jobs
          BY <2>8, <3>1, <4>2, ReleasedType DEF FinaliseError, FailedRow, Fenced, Terminal
        <4> QED
          BY <4>1, <4>2
      <3> QED
        BY <2>8, <3>1, <3>2, <3>3, FrameType DEF FinaliseError, TypeOK, Places, Finalised
    <2>9. ASSUME NEW r \in Replicas, Project(r) PROVE TypeOK'
      <3>1. pc[r] # "idle" /\ work[r].job \in Jobs
        BY <2>9, InRunJob DEF Project
      <3>2. faults' \in 0..MaxFaults
        BY <2>9, FaultType DEF Project
      <3>3. jobsRead' \in [Jobs -> [state : {"queued", "running"} \cup Terminal,
                                   attempt : 0..AttemptCap]]
        BY <2>9, <3>1 DEF Project, ReadRow, TypeOK, Job
      <3> QED
        BY <2>9, <3>1, <3>2, <3>3, FrameType DEF Project, TypeOK, Places, Finalised
    <2>10. ASSUME NEW r \in Replicas, EmitSucceeded(r) PROVE TypeOK'
      <3>1. pc[r] # "idle" /\ work[r].job \in Jobs
        BY <2>10, InRunJob DEF EmitSucceeded
      <3>2. faults' \in 0..MaxFaults
        BY <2>10, FaultType DEF EmitSucceeded
      <3>3. outbox' \in [Jobs -> Nat]
        <4>1. outbox \in [Jobs -> Nat]
          BY DEF TypeOK
        <4>2. \/ outbox' = [outbox EXCEPT ![work[r].job] = @ + 1]
              \/ outbox' = outbox
          BY <2>10 DEF EmitSucceeded
        <4>3. outbox[work[r].job] + 1 \in Nat
          BY <3>1, <4>1
        <4> QED
          BY <3>1, <4>1, <4>2, <4>3
      <3>4. /\ pc' \in [Replicas -> Places]
            /\ work' \in [Replicas -> Work \cup {NoWork}]
            /\ \A s \in Replicas : pc'[s] = "idle" <=> work'[s] = NoWork
        BY <2>10, <3>1, FrameType DEF EmitSucceeded
      <3> QED
        BY <2>10, <3>2, <3>3, <3>4 DEF EmitSucceeded, TypeOK, Places
    <2>11. ASSUME NEW r \in Replicas, Crash(r) PROVE TypeOK'
      BY <2>11 DEF Crash, Return, TypeOK, Fault
    <2>12. ASSUME NEW r \in Replicas, Shutdown(r) PROVE TypeOK'
      <3>1. pc[r] # "idle" /\ work[r] \in Work
        BY <2>12, InRunJob DEF Shutdown
      <3>2. steps' \in [Jobs -> [Attempts -> [Steps -> StepRow]]]
        BY <2>12, <3>1, UpsertType DEF Shutdown
      <3>3. faults' \in 0..MaxFaults
        BY <2>12, FaultType DEF Shutdown
      <3> QED
        BY <2>12, <3>1, <3>2, <3>3, FrameType DEF Shutdown, TypeOK, Places
    <2>13. ASSUME NEW j \in Jobs, LeaseExpires(j) PROVE TypeOK'
      BY <2>13 DEF LeaseExpires, TimedRow, TypeOK, Job
    <2>14. ASSUME NEW j \in Jobs, BecomesDue(j) PROVE TypeOK'
      BY <2>14 DEF BecomesDue, TimedRow, TypeOK, Job
    <2>15. ASSUME NEW j \in Jobs, Decide(j) PROVE TypeOK'
      BY <2>15 DEF Decide, SubmitDecision, TypeOK, StepRow
    <2>16. CASE UNCHANGED vars
      BY <2>16 DEF TypeOK, vars
    <2> QED
      BY <2>1, <2>2, <2>3, <2>4, <2>5, <2>6, <2>7, <2>8, <2>9, <2>10, <2>11,
         <2>12, <2>13, <2>14, <2>15, <2>16 DEF Next, RunnerStep
  <1> QED
    BY <1>1, <1>2, PTL DEF Spec

-----------------------------------------------------------------------------
(* Fencing.                                                                *)

FenceInv == RunHeldOnce /\ NoActiveRunOnIdleJob

\* An action that neither claims nor finalises lets replicas only let go of
\* runs, and leaves the state and the run id of every job alone.
LEMMA LettingGo ==
  ASSUME FenceInv,
         \A r \in Replicas, j \in Jobs, u \in RunIds :
           /\ (<<j, u>> \in batch[r])' => <<j, u>> \in batch[r]
           /\ Owns(r, j, u)' => Owns(r, j, u)
           /\ (Working(r) /\ work[r].job = j /\ work[r].run = u)' =>
                \/ Working(r) /\ work[r].job = j /\ work[r].run = u
                \/ <<j, u>> \notin batch'[r]
           /\ Holds(r, j, u)' => Holds(r, j, u),
         \A j \in Jobs : /\ jobs'[j].state = jobs[j].state
                        /\ jobs'[j].run = jobs[j].run
                        /\ jobs[j].run \in RunIds
  PROVE  FenceInv'
  <1>1. RunHeldOnce'
    BY DEF FenceInv, RunHeldOnce
  <1>2. NoActiveRunOnIdleJob'
    BY DEF FenceInv, NoActiveRunOnIdleJob
  <1> QED
    BY <1>1, <1>2 DEF FenceInv

LEMMA RowType ==
  ASSUME TypeOK, NEW j \in Jobs
  PROVE  jobs[j] \in Job /\ jobs[j].run \in RunIds
  BY DEF TypeOK, Job

\* Replica r takes a step inside RunJob without touching its arguments, or
\* leaves RunJob; its batch is the same or dropped; no jobs row changes.
LEMMA RunnerLetsGo ==
  ASSUME TypeOK, FenceInv, NEW r \in Replicas,
         pc[r] \in Executing \cup Returned \/ pc'[r] \notin Executing \cup Returned,
         \A s \in Replicas \ {r} :
           pc'[s] = pc[s] /\ work'[s] = work[s] /\ batch'[s] = batch[s],
         \/ work'[r] = NoWork
         \/ Working(r) /\ work'[r].job = work[r].job /\ work'[r].run = work[r].run,
         pc'[r] \in Executing \cup Returned => Working(r)',
         batch'[r] \subseteq batch[r],
         UNCHANGED jobs
  PROVE  FenceInv'
  <1>1. \A j \in Jobs : jobs[j].run \in RunIds
    BY RowType
  <1>2. ASSUME NEW s \in Replicas, NEW j \in Jobs, NEW u \in RunIds
        PROVE  /\ (<<j, u>> \in batch[s])' => <<j, u>> \in batch[s]
               /\ Owns(s, j, u)' => Owns(s, j, u)
               /\ (Working(s) /\ work[s].job = j /\ work[s].run = u)' =>
                    \/ Working(s) /\ work[s].job = j /\ work[s].run = u
                    \/ <<j, u>> \notin batch'[s]
               /\ Holds(s, j, u)' => Holds(s, j, u)
    <2>1. CASE s = r
      BY <2>1 DEF Owns, Working, Holds
    <2>2. CASE s # r
      BY <2>2 DEF Owns, Working, Holds
    <2> QED
      BY <2>1, <2>2
  <1> QED
    BY <1>1, <1>2, LettingGo

\* A finalise that goes through: only the run that owns the job reaches it, and
\* that replica is then past the point where it could finalise again.
LEMMA FinaliseKeepsFence ==
  ASSUME TypeOK, FenceInv, NEW r \in Replicas,
         pc[r] \in Returned,
         NEW state \in {"queued"} \cup Terminal,
         jobs' = [jobs EXCEPT ![work[r].job] = Released(jobs[work[r].job], state)],
         Fenced(work[r].job, work[r].run),
         NEW place \in Finalised, Goto(r, place),
         UNCHANGED <<work, batch>>
  PROVE  FenceInv'
  <1>1. pc[r] # "idle" /\ work[r] # NoWork /\ work[r].job \in Jobs /\ work[r].run \in RunIds
    BY InRunJob DEF Returned
  <1>2. RunHeldOnce'
    BY DEF FenceInv, RunHeldOnce, Owns, Working
  <1>3. ASSUME NEW s \in Replicas, NEW j \in Jobs, jobs'[j].state # "running",
               Holds(s, j, jobs[j].run)'
        PROVE  FALSE
    <2>1. jobs'[j].run = jobs[j].run /\ jobs[j].run \in RunIds
      BY <1>1, RowType DEF Released, TypeOK
    <2>2. pc'[r] \notin Executing \cup Returned
      BY DEF Goto, TypeOK, Finalised, Executing, Returned
    <2>3. Holds(s, j, jobs[j].run)
      BY <1>3, <2>1, <2>2 DEF Holds, Goto, TypeOK
    <2>4. j = work[r].job
      BY <1>1, <1>3, <2>3 DEF FenceInv, NoActiveRunOnIdleJob, TypeOK
    <2>5. jobs[j].run = work[r].run
      BY <2>4 DEF Fenced
    <2>6. Owns(r, j, jobs[j].run)
      BY <1>1, <2>4, <2>5 DEF Owns, Working
    <2>7. pc[s] # "idle" => work[s] # NoWork
      BY InRunJob
    <2>8. Owns(s, j, jobs[j].run)
      BY <2>3, <2>7 DEF Owns, Holds, Working, Executing, Returned
    <2>9. s = r /\ <<j, jobs[j].run>> \notin batch[r]
      BY <1>1, <2>1, <2>4, <2>5, <2>6, <2>8 DEF FenceInv, RunHeldOnce, Working
    <2> QED
      BY <1>3, <2>1, <2>2, <2>9 DEF Holds
  <1> QED
    BY <1>2, <1>3 DEF FenceInv, NoActiveRunOnIdleJob

LEMMA ClaimKeepsFence ==
  ASSUME TypeOK, FenceInv, NEW r \in Replicas, ClaimAndDispatch(r)
  PROVE  FenceInv'
  <1>1. PICK picked \in SUBSET {j \in Jobs : Claimable(j) /\ WithinBounds(j)} :
          /\ jobs' = [j \in Jobs |-> IF j \in picked THEN ClaimedRow(j) ELSE jobs[j]]
          /\ batch' = [batch EXCEPT ![r] = {<<j, FreshRun(j)>> : j \in picked}]
    BY DEF ClaimAndDispatch
  <1>2. pc[r] = "idle" /\ work[r] = NoWork /\ UNCHANGED <<pc, work>>
    BY DEF ClaimAndDispatch, TypeOK
  <1>3. \A s \in Replicas \ {r} : batch'[s] = batch[s]
    BY <1>1 DEF TypeOK
  <1>4. batch'[r] = {<<j, FreshRun(j)>> : j \in picked}
    BY <1>1 DEF TypeOK
  <1>5. ASSUME NEW s \in Replicas \ {r}, NEW j \in picked
        PROVE  ~Owns(s, j, FreshRun(j))
    <2>1. FreshRun(j) \in RunIds /\ FreshRun(j) \notin UsedRuns(j)
      BY <1>1, FreshRunIsFresh
    <2> QED
      BY <2>1 DEF UsedRuns
  <1>6. ASSUME NEW j \in Jobs, NEW u \in RunIds, Owns(r, j, u)'
        PROVE  j \in picked /\ u = FreshRun(j)
    BY <1>2, <1>4, <1>6 DEF Owns, Working
  <1>7. ASSUME NEW s \in Replicas \ {r}, NEW j \in Jobs, NEW u \in RunIds, Owns(s, j, u)'
        PROVE  Owns(s, j, u)
    BY <1>2, <1>3, <1>7 DEF Owns, Working
  <1>8. RunHeldOnce'
    <2> SUFFICES ASSUME NEW a \in Replicas, NEW b \in Replicas, NEW j \in Jobs,
                        NEW u \in RunIds, Owns(a, j, u)', Owns(b, j, u)'
                 PROVE  /\ a = b
                        /\ ~(/\ <<j, u>> \in batch[a]
                             /\ Working(a) /\ work[a].job = j /\ work[a].run = u)'
      BY DEF RunHeldOnce
    <2>1. CASE a = r /\ b = r
      BY <2>1, <1>2 DEF Working
    <2>2. CASE a = r /\ b # r
      BY <2>2, <1>5, <1>6, <1>7
    <2>3. CASE a # r /\ b = r
      BY <2>3, <1>5, <1>6, <1>7
    <2>4. CASE a # r /\ b # r
      BY <2>4, <1>2, <1>3, <1>7 DEF FenceInv, RunHeldOnce, Working
    <2> QED
      BY <2>1, <2>2, <2>3, <2>4
  <1>9. ASSUME NEW s \in Replicas, NEW j \in Jobs, jobs'[j].state # "running",
               Holds(s, j, jobs[j].run)'
        PROVE  FALSE
    <2>1. j \notin picked /\ jobs'[j] = jobs[j]
      BY <1>1, <1>9 DEF ClaimedRow
    <2>2. s # r
      BY <2>1, <1>2, <1>4, <1>9 DEF Holds, Executing, Returned
    <2>3. Holds(s, j, jobs[j].run)
      BY <2>1, <2>2, <1>2, <1>3, <1>9 DEF Holds
    <2> QED
      BY <2>1, <2>3, <1>9 DEF FenceInv, NoActiveRunOnIdleJob
  <1> QED
    BY <1>8, <1>9 DEF FenceInv, NoActiveRunOnIdleJob

LEMMA StartRunKeepsFence ==
  ASSUME TypeOK, FenceInv, NEW r \in Replicas, StartRun(r)
  PROVE  FenceInv'
  <1>1. PICK p \in batch[r] :
          /\ batch' = [batch EXCEPT ![r] = @ \ {p}]
          /\ \/ /\ \E next \in {"exec", "retryable"} : Goto(r, next)
                /\ work' = [work EXCEPT ![r] = [job |-> p[1], run |-> p[2],
                                                attempt |-> jobs[p[1]].attempt,
                                                step |-> 1]]
             \/ UNCHANGED <<pc, work>>
    BY DEF StartRun
  <1>2. p \in Jobs \X RunIds /\ p = <<p[1], p[2]>>
    BY DEF TypeOK
  <1>3. UNCHANGED jobs /\ pc[r] = "idle" /\ work[r] = NoWork
    BY DEF StartRun, TypeOK
  <1>4. batch'[r] = batch[r] \ {p} /\ \A s \in Replicas \ {r} : batch'[s] = batch[s]
    BY <1>1 DEF TypeOK
  <1>5. \A s \in Replicas \ {r} : pc'[s] = pc[s] /\ work'[s] = work[s]
    BY <1>1 DEF Goto, TypeOK
  <1>6. \/ work'[r] = NoWork /\ pc'[r] = "idle"
        \/ work'[r].job = p[1] /\ work'[r].run = p[2]
    BY <1>1, <1>3 DEF TypeOK
  <1>7. ASSUME NEW s \in Replicas, NEW j \in Jobs, NEW u \in RunIds
        PROVE  /\ (<<j, u>> \in batch[s])' => <<j, u>> \in batch[s]
               /\ Owns(s, j, u)' => Owns(s, j, u)
               /\ (Working(s) /\ work[s].job = j /\ work[s].run = u)' =>
                    \/ Working(s) /\ work[s].job = j /\ work[s].run = u
                    \/ <<j, u>> \notin batch'[s]
               /\ Holds(s, j, u)' => Holds(s, j, u)
    <2>1. CASE s # r
      BY <2>1, <1>4, <1>5 DEF Owns, Working, Holds
    <2>2. CASE s = r
      <3>1. work'[r] # NoWork /\ work'[r].job = j /\ work'[r].run = u => p = <<j, u>>
        BY <1>2, <1>6
      <3>2. pc'[r] \in Executing \cup Returned => work'[r].job = p[1] /\ work'[r].run = p[2]
        BY <1>6 DEF Executing, Returned
      <3> QED
        BY <2>2, <3>1, <3>2, <1>2, <1>4 DEF Owns, Working, Holds
    <2> QED
      BY <2>1, <2>2
  <1>8. \A j \in Jobs : jobs[j].run \in RunIds
    BY RowType
  <1> QED
    BY <1>3, <1>7, <1>8, LettingGo

LEMMA FenceStep ==
  ASSUME TypeOK, TypeOK', FenceInv, [Next]_vars
  PROVE  FenceInv'
  <1>1. ASSUME NEW r \in Replicas, ClaimAndDispatch(r) PROVE FenceInv'
    BY <1>1, ClaimKeepsFence
  <1>2. ASSUME NEW r \in Replicas, StartRun(r) PROVE FenceInv'
    BY <1>2, StartRunKeepsFence
  <1>3. ASSUME NEW r \in Replicas, EndStepOK(r) PROVE FenceInv'
    <2>1. pc[r] \in Executing /\ work[r] # NoWork /\ pc'[r] # "idle"
      BY <1>3, InRunJob DEF EndStepOK, Executing, Goto, TypeOK
    <2>2. work'[r].job = work[r].job /\ work'[r].run = work[r].run
      BY <1>3 DEF EndStepOK, NextStep, TypeOK
    <2> QED
      BY <1>3, <2>1, <2>2, RunnerLetsGo DEF EndStepOK, Goto, TypeOK, Working
  <1>4. ASSUME NEW r \in Replicas, EndStepErr(r) PROVE FenceInv'
    <2>1. pc[r] \in Executing /\ work[r] # NoWork
      BY <1>4, InRunJob DEF EndStepErr, Executing
    <2> QED
      BY <1>4, <2>1, RunnerLetsGo DEF EndStepErr, Goto, TypeOK, Working
  <1>5. ASSUME NEW r \in Replicas, Park(r) PROVE FenceInv'
    <2>1. pc[r] \in Executing /\ work[r] # NoWork
      BY <1>5, InRunJob DEF Park, Executing
    <2> QED
      BY <1>5, <2>1, RunnerLetsGo DEF Park, Goto, TypeOK, Working
  <1>6. ASSUME NEW r \in Replicas, PollDecision(r) PROVE FenceInv'
    <2>1. pc[r] \in Executing /\ work[r] # NoWork
      BY <1>6, InRunJob DEF PollDecision, Executing
    <2> QED
      BY <1>6, <2>1, RunnerLetsGo DEF PollDecision, Goto, TypeOK, Working
  <1>7. ASSUME NEW r \in Replicas, FinaliseSuccess(r) PROVE FenceInv'
    <2>1. pc[r] \in Returned
      BY <1>7 DEF FinaliseSuccess, Returned
    <2>2. CASE Return(r) /\ UNCHANGED jobs
      BY <1>7, <2>1, <2>2, RunnerLetsGo
      DEF FinaliseSuccess, Return, TypeOK, Executing, Returned
    <2>3. CASE ~(Return(r) /\ UNCHANGED jobs)
      BY <1>7, <2>1, <2>3, FinaliseKeepsFence DEF FinaliseSuccess, Finalised, Terminal
    <2> QED
      BY <2>2, <2>3
  <1>8. ASSUME NEW r \in Replicas, FinaliseError(r) PROVE FenceInv'
    <2>1. pc[r] \in Returned
      BY <1>8 DEF FinaliseError, Returned
    <2>2. CASE Return(r) /\ UNCHANGED jobs
      BY <1>8, <2>1, <2>2, RunnerLetsGo
      DEF FinaliseError, Return, TypeOK, Executing, Returned
    <2>3. CASE ~(Return(r) /\ UNCHANGED jobs)
      BY <1>8, <2>1, <2>3, FinaliseKeepsFence
      DEF FinaliseError, FailedRow, Finalised, Terminal
    <2> QED
      BY <2>2, <2>3
  <1>9. ASSUME NEW r \in Replicas, Project(r) PROVE FenceInv'
    <2>1. pc'[r] \notin Executing \cup Returned
      BY <1>9 DEF Project, Return, Goto, TypeOK, Executing, Returned
    <2>2. Working(r)
      BY <1>9, InRunJob DEF Project, Working
    <2> QED
      BY <1>9, <2>1, <2>2, RunnerLetsGo DEF Project, Return, Goto, TypeOK
  <1>10. ASSUME NEW r \in Replicas, EmitSucceeded(r) PROVE FenceInv'
    <2>1. pc'[r] \notin Executing \cup Returned
      BY <1>10 DEF EmitSucceeded, Return, TypeOK, Executing, Returned
    <2> QED
      BY <1>10, <2>1, RunnerLetsGo DEF EmitSucceeded, Return, TypeOK
  <1>11. ASSUME NEW r \in Replicas, Crash(r) PROVE FenceInv'
    <2>1. pc'[r] \notin Executing \cup Returned
      BY <1>11 DEF Crash, Return, TypeOK, Executing, Returned
    <2> QED
      BY <1>11, <2>1, RunnerLetsGo DEF Crash, Return, TypeOK
  <1>12. ASSUME NEW r \in Replicas, Shutdown(r) PROVE FenceInv'
    <2>1. pc'[r] \notin Executing \cup Returned
      BY <1>12 DEF Shutdown, Return, TypeOK, Executing, Returned
    <2> QED
      BY <1>12, <2>1, RunnerLetsGo DEF Shutdown, Return, TypeOK
  <1>13. ASSUME NEW j \in Jobs, LeaseExpires(j) \/ BecomesDue(j) PROVE FenceInv'
    <2>1. \A k \in Jobs : jobs'[k].state = jobs[k].state /\ jobs'[k].run = jobs[k].run
      BY <1>13 DEF LeaseExpires, BecomesDue, TimedRow, TypeOK
    <2>2. UNCHANGED <<pc, batch, work>>
      BY <1>13 DEF LeaseExpires, BecomesDue
    <2> QED
      BY <2>1, <2>2 DEF FenceInv, RunHeldOnce, NoActiveRunOnIdleJob, Owns, Holds, Working
  <1>14. ASSUME NEW j \in Jobs, Decide(j) PROVE FenceInv'
    <2>1. UNCHANGED <<jobs, pc, batch, work>>
      BY <1>14 DEF Decide, SubmitDecision
    <2> QED
      BY <2>1 DEF FenceInv, RunHeldOnce, NoActiveRunOnIdleJob, Owns, Holds, Working
  <1>15. CASE UNCHANGED vars
    BY <1>15 DEF vars, FenceInv, RunHeldOnce, NoActiveRunOnIdleJob, Owns, Holds, Working
  <1> QED
    BY <1>1, <1>2, <1>3, <1>4, <1>5, <1>6, <1>7, <1>8, <1>9, <1>10, <1>11, <1>12,
       <1>13, <1>14, <1>15 DEF Next, RunnerStep

LEMMA FenceInitially == Init => FenceInv
  <1> SUFFICES ASSUME Init PROVE FenceInv
    OBVIOUS
  <1>1. \A r \in Replicas : batch[r] = {} /\ pc[r] = "idle" /\ work[r] = NoWork
    BY DEF Init
  <1> QED
    BY <1>1 DEF FenceInv, RunHeldOnce, NoActiveRunOnIdleJob, Owns, Holds, Working,
                Executing, Returned

\* A run id belongs to one goroutine of one replica for ever: whatever leases
\* expire and whatever replicas crash, two runners never pass the same fence.
THEOREM RunIdsFence == Spec => []RunHeldOnce
  <1>1. FenceInv => RunHeldOnce
    BY DEF FenceInv
  <1> QED
    BY <1>1, FenceInitially, FenceStep, TypeCorrect, PTL DEF Spec

\* A job that is queued or has ended has no run in progress that could finalise
\* it: a runner that lost its lease changes nothing of the job.
THEOREM StaleRunsAreHarmless == Spec => []NoActiveRunOnIdleJob
  <1>1. FenceInv => NoActiveRunOnIdleJob
    BY DEF FenceInv
  <1> QED
    BY <1>1, FenceInitially, FenceStep, TypeCorrect, PTL DEF Spec

-----------------------------------------------------------------------------
(* What a step may do to a row of the jobs table.                          *)

RowStep(j) ==
  \/ jobs'[j] = jobs[j]
  \/ Claimable(j) /\ WithinBounds(j) /\ jobs'[j] = ClaimedRow(j)
  \/ /\ jobs[j].state = "running"
     /\ \/ jobs'[j] = Released(jobs[j], IF Schedule[j] = "none" THEN "succeeded" ELSE "queued")
        \/ jobs'[j] = FailedRow(jobs[j], MaxAttempts[j])
        \/ jobs'[j] = Released(jobs[j], "jobs_exhausted")
        \/ jobs'[j] = TimedRow(jobs[j], "expired", jobs[j].due)
  \/ jobs[j].state = "queued" /\ jobs'[j] = TimedRow(jobs[j], jobs[j].lease, TRUE)

LEMMA RowSteps ==
  ASSUME TypeOK, [Next]_vars, NEW j \in Jobs
  PROVE  RowStep(j)
  <1>1. ASSUME NEW r \in Replicas, ClaimAndDispatch(r) PROVE RowStep(j)
    BY <1>1 DEF ClaimAndDispatch, RowStep
  <1>2. ASSUME NEW r \in Replicas, FinaliseSuccess(r) PROVE RowStep(j)
    <2>1. work[r].job \in Jobs
      BY <1>2, InRunJob DEF FinaliseSuccess
    <2>2. CASE work[r].job # j
      BY <1>2, <2>1, <2>2 DEF FinaliseSuccess, RowStep, TypeOK
    <2>3. CASE work[r].job = j
      BY <1>2, <2>1, <2>3 DEF FinaliseSuccess, Fenced, RowStep, TypeOK
    <2> QED
      BY <2>2, <2>3
  <1>3. ASSUME NEW r \in Replicas, FinaliseError(r) PROVE RowStep(j)
    <2>1. work[r].job \in Jobs
      BY <1>3, InRunJob DEF FinaliseError
    <2>2. CASE work[r].job # j
      BY <1>3, <2>1, <2>2 DEF FinaliseError, RowStep, TypeOK
    <2>3. CASE work[r].job = j
      BY <1>3, <2>1, <2>3 DEF FinaliseError, Fenced, RowStep, TypeOK
    <2> QED
      BY <2>2, <2>3
  <1>4. ASSUME NEW k \in Jobs, LeaseExpires(k) PROVE RowStep(j)
    BY <1>4 DEF LeaseExpires, RowStep, TypeOK
  <1>5. ASSUME NEW k \in Jobs, BecomesDue(k) PROVE RowStep(j)
    BY <1>5 DEF BecomesDue, RowStep, TypeOK
  <1>6. CASE UNCHANGED jobs
    BY <1>6 DEF RowStep
  <1>7. ASSUME NEW r \in Replicas,
               \/ StartRun(r) \/ EndStepOK(r) \/ EndStepErr(r) \/ Park(r) \/ PollDecision(r)
               \/ Project(r) \/ EmitSucceeded(r) \/ Crash(r) \/ Shutdown(r)
        PROVE  UNCHANGED jobs
    BY <1>7 DEF StartRun, EndStepOK, EndStepErr, Park, PollDecision, Project,
                EmitSucceeded, Crash, Shutdown
  <1>8. ASSUME NEW k \in Jobs, Decide(k) PROVE UNCHANGED jobs
    BY <1>8 DEF Decide, SubmitDecision
  <1> QED
    BY <1>1, <1>2, <1>3, <1>4, <1>5, <1>6, <1>7, <1>8 DEF Next, RunnerStep, vars

\* Retries of an unscheduled job are bounded by its max_attempts, for any number
\* of failures, crashes and lost leases.
THEOREM RetriesAreBounded == Spec => []AttemptBudget
  <1>1. Init => AttemptBudget
    BY JobsAssumption DEF Init, AttemptBudget
  <1>2. TypeOK /\ AttemptBudget /\ [Next]_vars => AttemptBudget'
    <2> SUFFICES ASSUME TypeOK, AttemptBudget, [Next]_vars,
                        NEW j \in Jobs, Schedule[j] = "none"
                 PROVE  /\ jobs'[j].attempt <= MaxAttempts[j]
                        /\ jobs'[j].state = "queued" => jobs'[j].attempt < MaxAttempts[j]
      BY DEF AttemptBudget
    <2>1. RowStep(j)
      BY RowSteps
    <2>2. jobs[j].attempt \in Nat /\ MaxAttempts[j] \in Nat
      BY JobsAssumption, BoundsAssumption DEF TypeOK, Job
    <2> QED
      BY <2>1, <2>2 DEF RowStep, AttemptBudget, Claimable, ClaimedRow, Released,
                        FailedRow, TimedRow
  <1> QED
    BY <1>1, <1>2, TypeCorrect, PTL DEF Spec

LEMMA TerminalRowKept ==
  ASSUME TypeOK, [Next]_vars, NEW j \in Jobs, jobs[j].state \in Terminal
  PROVE  jobs'[j] = jobs[j]
  <1>1. RowStep(j)
    BY RowSteps
  <1> QED
    BY <1>1 DEF RowStep, Claimable, Terminal

\* The row of a job that has ended is never written again.
THEOREM EndedJobsStayEnded == Spec => TerminalIsFinal
  <1>1. TypeOK /\ [Next]_vars =>
          [\A j \in Jobs : jobs[j].state \in Terminal => jobs'[j] = jobs[j]]_vars
    BY TerminalRowKept
  <1> QED
    BY <1>1, TypeCorrect, PTL DEF Spec, TerminalIsFinal

\* The read model may lag but never shows an end that did not happen.
THEOREM ReadModelIsHonest == Spec => []ReadModelHonest
  <1>1. Init => ReadModelHonest
    BY DEF Init, ReadModelHonest, Terminal
  <1>2. TypeOK /\ ReadModelHonest /\ [Next]_vars => ReadModelHonest'
    <2> SUFFICES ASSUME TypeOK, ReadModelHonest, [Next]_vars, NEW j \in Jobs
                 PROVE  /\ jobsRead'[j].attempt <= jobs'[j].attempt
                        /\ jobsRead'[j].state \in Terminal => jobsRead'[j] = ReadRow(jobs[j])'
      BY DEF ReadModelHonest
    <2>1. jobs[j].attempt \in Nat /\ jobsRead[j].attempt \in Nat /\ jobs[j] \in Job
      BY BoundsAssumption DEF TypeOK, Job
    <2>2. CASE jobsRead'[j] = ReadRow(jobs[j]) /\ UNCHANGED jobs
      BY <2>1, <2>2 DEF ReadRow
    <2>3. CASE jobsRead'[j] = jobsRead[j]
      <3>1. jobs'[j].attempt \in Nat /\ jobs[j].attempt <= jobs'[j].attempt
        <4>1. RowStep(j)
          BY RowSteps
        <4> QED
          BY <2>1, <4>1 DEF RowStep, ClaimedRow, Released, FailedRow, TimedRow
      <3>2. ASSUME jobsRead[j].state \in Terminal
            PROVE  jobsRead[j] = ReadRow(jobs'[j])
        <4>1. jobsRead[j] = ReadRow(jobs[j]) /\ jobs[j].state \in Terminal
          BY <3>2 DEF ReadModelHonest, ReadRow
        <4>2. jobs'[j] = jobs[j]
          BY <4>1, TerminalRowKept
        <4> QED
          BY <4>1, <4>2
      <3> QED
        BY <2>1, <2>3, <3>1, <3>2 DEF ReadModelHonest
    <2>4. ASSUME NEW r \in Replicas, Project(r)
          PROVE  \/ jobsRead'[j] = ReadRow(jobs[j]) /\ UNCHANGED jobs
                 \/ jobsRead'[j] = jobsRead[j]
      BY <2>4, InRunJob DEF Project, TypeOK
    <2>5. \/ \E r \in Replicas : Project(r)
          \/ UNCHANGED jobsRead
      BY DEF Next, RunnerStep, vars, ClaimAndDispatch, StartRun, EndStepOK, EndStepErr,
             Park, PollDecision, FinaliseSuccess, FinaliseError, EmitSucceeded, Crash,
             Shutdown, LeaseExpires, BecomesDue, Decide, SubmitDecision
    <2> QED
      BY <2>2, <2>3, <2>4, <2>5
  <1> QED
    BY <1>1, <1>2, TypeCorrect, PTL DEF Spec

-----------------------------------------------------------------------------
(* Approvals.                                                              *)

\* The gate g was approved for the run of frame w.
ApprovedFor(w, g) ==
  /\ steps[w.job][w.attempt][g].decision = "approved"
  /\ steps[w.job][w.attempt][g].run = w.run

\* The gates that replica r has behind it.
PassedGates(r) ==
  {g \in Gates[work[r].job] :
     \/ g < work[r].step
     \/ pc[r] = "approved" /\ g = work[r].step
     \/ pc[r] = "ok"}

GateInv ==
  /\ \A j \in Jobs, a \in Attempts, k \in Steps :
       steps[j][a][k].status = "absent" => steps[j][a][k].decision = "none"
  /\ \A r \in Replicas : pc[r] \in Executing \cup {"ok"} =>
       \A g \in PassedGates(r) : ApprovedFor(work[r], g)
  /\ \A r \in Replicas :
       pc[r] \in Executing \cup Returned /\ Fenced(work[r].job, work[r].run) =>
         work[r].attempt = jobs[work[r].job].attempt
  /\ SuccessWasApproved

\* An approved row stays approved, under the same run.
RowsStable ==
  \A j \in Jobs, a \in Attempts, k \in Steps :
    /\ steps[j][a][k].decision # "none" =>
         /\ steps'[j][a][k].decision = steps[j][a][k].decision
         /\ steps'[j][a][k].run = steps[j][a][k].run
    /\ steps'[j][a][k].status = "absent" => steps'[j][a][k].decision = "none"

LEMMA UpsertIsStable ==
  ASSUME TypeOK, GateInv, NEW w \in Work,
         NEW status \in {"ok", "error", "waiting_approval"}, Upsert(w, status)
  PROVE  RowsStable
  <1> SUFFICES ASSUME NEW j \in Jobs, NEW a \in Attempts, NEW k \in Steps
               PROVE  /\ steps[j][a][k].decision # "none" =>
                           /\ steps'[j][a][k].decision = steps[j][a][k].decision
                           /\ steps'[j][a][k].run = steps[j][a][k].run
                      /\ steps'[j][a][k].status = "absent" =>
                           steps'[j][a][k].decision = "none"
    BY DEF RowsStable
  <1>1. w.job \in Jobs /\ w.attempt \in Attempts /\ w.step \in Steps
    BY DEF Work
  <1>2. CASE <<j, a, k>> = <<w.job, w.attempt, w.step>>
    BY <1>1, <1>2 DEF Upsert, TypeOK, GateInv
  <1>3. CASE <<j, a, k>> # <<w.job, w.attempt, w.step>>
    <2>1. steps'[j][a][k] = steps[j][a][k]
      BY <1>1, <1>3 DEF Upsert, TypeOK
    <2> QED
      BY <2>1 DEF GateInv
  <1> QED
    BY <1>2, <1>3

LEMMA StepsAreStable ==
  ASSUME TypeOK, GateInv, [Next]_vars
  PROVE  RowsStable
  <1>1. CASE UNCHANGED steps
    BY <1>1 DEF RowsStable, GateInv
  <1>2. ASSUME NEW r \in Replicas, pc[r] # "idle",
               NEW status \in {"ok", "error", "waiting_approval"}, Upsert(work[r], status)
        PROVE  RowsStable
    BY <1>2, InRunJob, UpsertIsStable
  <1>3. ASSUME NEW j \in Jobs, Decide(j) PROVE RowsStable
    <2>1. PICK a \in Attempts, k \in Steps, d \in {"approved", "rejected"} :
            SubmitDecision(j, a, k, d)
      BY <1>3 DEF Decide
    <2>2. \A jj \in Jobs, aa \in Attempts, kk \in Steps :
            \/ steps'[jj][aa][kk] = steps[jj][aa][kk]
            \/ /\ steps[jj][aa][kk].decision = "none"
               /\ steps'[jj][aa][kk].status = "waiting_approval"
      BY <2>1 DEF SubmitDecision, TypeOK
    <2> QED
      BY <2>2 DEF RowsStable, GateInv
  <1>4. ASSUME NEW r \in Replicas,
               EndStepOK(r) \/ EndStepErr(r) \/ Park(r) \/ Shutdown(r)
        PROVE  RowsStable
    BY <1>1, <1>2, <1>4 DEF EndStepOK, EndStepErr, EndStep, Park, Shutdown
  <1>5. ASSUME NEW r \in Replicas,
               \/ ClaimAndDispatch(r) \/ StartRun(r) \/ PollDecision(r) \/ FinaliseSuccess(r)
               \/ FinaliseError(r) \/ Project(r) \/ EmitSucceeded(r) \/ Crash(r)
        PROVE  UNCHANGED steps
    BY <1>5 DEF ClaimAndDispatch, StartRun, PollDecision, FinaliseSuccess,
                FinaliseError, Project, EmitSucceeded, Crash
  <1>6. ASSUME NEW j \in Jobs, LeaseExpires(j) \/ BecomesDue(j)
        PROVE  UNCHANGED steps
    BY <1>6 DEF LeaseExpires, BecomesDue
  <1> QED
    BY <1>1, <1>3, <1>4, <1>5, <1>6 DEF Next, RunnerStep, vars

\* A step that leaves a run fenced in found it fenced in, in the same attempt:
\* the claim that starts an attempt changes the run id to one nobody holds.
LEMMA FenceKeepsAttempt ==
  ASSUME TypeOK, [Next]_vars, NEW s \in Replicas, pc[s] # "idle",
         jobs'[work[s].job].state = "running", jobs'[work[s].job].run = work[s].run
  PROVE  /\ Fenced(work[s].job, work[s].run)
         /\ jobs'[work[s].job].attempt = jobs[work[s].job].attempt
  <1> DEFINE j == work[s].job
  <1>1. j \in Jobs /\ work[s].run \in RunIds /\ work[s] # NoWork
    BY InRunJob
  <1>2. RowStep(j)
    BY <1>1, RowSteps
  <1>3. WithinBounds(j) => jobs'[j] # ClaimedRow(j)
    <2>1. work[s].run \in UsedRuns(j)
      BY <1>1 DEF UsedRuns, Owns, Working
    <2>2. WithinBounds(j) => FreshRun(j) # work[s].run
      BY <1>1, <2>1, FreshRunIsFresh
    <2> QED
      BY <2>2 DEF ClaimedRow
  <1>4. \/ jobs'[j] = jobs[j]
        \/ jobs'[j] = TimedRow(jobs[j], "expired", jobs[j].due)
        \/ jobs'[j] = TimedRow(jobs[j], jobs[j].lease, TRUE)
    <2>1. \A st \in {"queued"} \cup Terminal : jobs'[j] # Released(jobs[j], st)
      BY DEF Released, Terminal
    <2>2. jobs'[j] # FailedRow(jobs[j], MaxAttempts[j])
      BY <2>1 DEF FailedRow, Terminal
    <2> QED
      BY <1>2, <1>3, <2>1, <2>2 DEF RowStep, Terminal
  <1>5. /\ jobs'[j].state = jobs[j].state /\ jobs'[j].run = jobs[j].run
        /\ jobs'[j].attempt = jobs[j].attempt
    BY <1>4 DEF TimedRow
  <1> QED
    BY <1>5 DEF Fenced

\* A job becomes succeeded through finaliseSuccess of a run that is fenced in.
LEMMA SuccessIsFinalised ==
  ASSUME TypeOK, [Next]_vars, NEW j \in Jobs,
         jobs[j].state # "succeeded", jobs'[j].state = "succeeded"
  PROVE  \E r \in Replicas :
           /\ pc[r] = "ok" /\ work[r].job = j /\ Fenced(j, work[r].run)
           /\ jobs'[j].run = jobs[j].run /\ jobs'[j].attempt = jobs[j].attempt
           /\ UNCHANGED steps
  <1>1. ASSUME NEW r \in Replicas, FinaliseSuccess(r)
        PROVE  /\ pc[r] = "ok" /\ work[r].job = j /\ Fenced(j, work[r].run)
               /\ jobs'[j].run = jobs[j].run /\ jobs'[j].attempt = jobs[j].attempt
               /\ UNCHANGED steps
    <2>1. work[r].job \in Jobs
      BY <1>1, InRunJob DEF FinaliseSuccess
    <2>2. work[r].job = j
      BY <1>1, <2>1 DEF FinaliseSuccess, TypeOK
    <2> QED
      BY <1>1, <2>1, <2>2 DEF FinaliseSuccess, Released, TypeOK
  <1>2. ASSUME NEW r \in Replicas, FinaliseError(r) PROVE FALSE
    <2>1. work[r].job \in Jobs
      BY <1>2, InRunJob DEF FinaliseError
    <2> QED
      BY <1>2, <2>1 DEF FinaliseError, FailedRow, Released, TypeOK
  <1>3. ASSUME NEW r \in Replicas, ClaimAndDispatch(r) PROVE FALSE
    BY <1>3 DEF ClaimAndDispatch, ClaimedRow
  <1>4. ASSUME NEW k \in Jobs, LeaseExpires(k) \/ BecomesDue(k) PROVE FALSE
    <2>1. PICK l, d : jobs' = [jobs EXCEPT ![k] = TimedRow(jobs[k], l, d)]
      BY <1>4 DEF LeaseExpires, BecomesDue
    <2>2. jobs'[j].state = jobs[j].state
      BY <2>1 DEF TimedRow, TypeOK
    <2> QED
      BY <2>2
  <1>5. ASSUME NEW r \in Replicas,
               \/ StartRun(r) \/ EndStepOK(r) \/ EndStepErr(r) \/ Park(r) \/ PollDecision(r)
               \/ Project(r) \/ EmitSucceeded(r) \/ Crash(r) \/ Shutdown(r)
        PROVE  FALSE
    BY <1>5 DEF StartRun, EndStepOK, EndStepErr, Park, PollDecision, Project,
                EmitSucceeded, Crash, Shutdown
  <1>6. ASSUME NEW k \in Jobs, Decide(k) PROVE FALSE
    BY <1>6 DEF Decide, SubmitDecision
  <1> QED
    BY <1>1, <1>2, <1>3, <1>4, <1>5, <1>6 DEF Next, RunnerStep, vars

\* How a step can move replica s, as far as the gates are concerned.
FrameStep(s) ==
  \/ pc'[s] = pc[s] /\ work'[s] = work[s]
  \/ pc'[s] \notin Executing \cup Returned
  \/ /\ pc'[s] \in {"exec", "retryable"} /\ pc[s] = "idle" /\ UNCHANGED jobs
     /\ work'[s].job \in Jobs /\ work'[s].step = 1
     /\ work'[s].attempt = jobs[work'[s].job].attempt
  \/ /\ pc[s] \in Executing /\ work'[s] = work[s] /\ UNCHANGED jobs
     /\ \/ pc'[s] \in {"retryable", "terminal_error", "parked", "gate_error"}
        \/ pc'[s] = "approved" /\ DecisionFor(work[s]) = "approved"
        \/ /\ pc'[s] = "ok" /\ work[s].step = NSteps
           /\ pc[s] = "approved" \/ work[s].step \notin Gates[work[s].job]
  \/ /\ pc[s] \in Executing /\ work'[s] = NextStep(work[s]) /\ UNCHANGED jobs
     /\ pc'[s] = "exec"
     /\ pc[s] = "approved" \/ work[s].step \notin Gates[work[s].job]

LEMMA FrameSteps ==
  ASSUME TypeOK, [Next]_vars, NEW s \in Replicas
  PROVE  FrameStep(s)
  <1>1. ASSUME NEW r \in Replicas, StartRun(r) PROVE FrameStep(s)
    <2>1. CASE s # r
      BY <1>1, <2>1 DEF StartRun, Goto, TypeOK, FrameStep
    <2>2. CASE s = r
      <3>1. \A q \in batch[r] : q[1] \in Jobs
        BY DEF TypeOK
      <3> QED
        BY <1>1, <2>2, <3>1 DEF StartRun, Goto, TypeOK, FrameStep
    <2> QED
      BY <2>1, <2>2
  <1>2. ASSUME NEW r \in Replicas, EndStepOK(r) PROVE FrameStep(s)
    <2>1. CASE s # r
      BY <1>2, <2>1 DEF EndStepOK, Goto, TypeOK, FrameStep
    <2>2. CASE s = r
      BY <1>2, <2>2 DEF EndStepOK, Goto, TypeOK, FrameStep, Executing
    <2> QED
      BY <2>1, <2>2
  <1>3. ASSUME NEW r \in Replicas, EndStepErr(r) \/ Park(r) \/ PollDecision(r)
        PROVE  FrameStep(s)
    <2>1. CASE s # r
      BY <1>3, <2>1 DEF EndStepErr, Park, PollDecision, Goto, TypeOK, FrameStep
    <2>2. CASE s = r
      BY <1>3, <2>2 DEF EndStepErr, Park, PollDecision, Goto, TypeOK, FrameStep, Executing
    <2> QED
      BY <2>1, <2>2
  <1>4. ASSUME NEW r \in Replicas, FinaliseSuccess(r) \/ FinaliseError(r) PROVE FrameStep(s)
    <2>1. CASE s # r
      BY <1>4, <2>1 DEF FinaliseSuccess, FinaliseError, Return, Goto, TypeOK, FrameStep
    <2>2. CASE s = r
      BY <1>4, <2>2 DEF FinaliseSuccess, FinaliseError, Return, Goto, TypeOK, FrameStep,
                        Executing, Returned
    <2> QED
      BY <2>1, <2>2
  <1>5. ASSUME NEW r \in Replicas,
               Project(r) \/ EmitSucceeded(r) \/ Crash(r) \/ Shutdown(r)
        PROVE  FrameStep(s)
    <2>1. CASE s # r
      BY <1>5, <2>1 DEF Project, EmitSucceeded, Crash, Shutdown, Return, Goto, TypeOK, FrameStep
    <2>2. CASE s = r
      BY <1>5, <2>2 DEF Project, EmitSucceeded, Crash, Shutdown, Return, Goto, TypeOK,
                        FrameStep, Executing, Returned
    <2> QED
      BY <2>1, <2>2
  <1>6. CASE UNCHANGED <<pc, work>>
    BY <1>6 DEF FrameStep
  <1>7. ASSUME NEW r \in Replicas, ClaimAndDispatch(r) PROVE UNCHANGED <<pc, work>>
    BY <1>7 DEF ClaimAndDispatch
  <1>8. ASSUME NEW j \in Jobs, LeaseExpires(j) \/ BecomesDue(j) \/ Decide(j)
        PROVE  UNCHANGED <<pc, work>>
    BY <1>8 DEF LeaseExpires, BecomesDue, Decide, SubmitDecision
  <1> QED
    BY <1>1, <1>2, <1>3, <1>4, <1>5, <1>6, <1>7, <1>8 DEF Next, RunnerStep, vars

LEMMA GateStep ==
  ASSUME TypeOK, TypeOK', GateInv, [Next]_vars
  PROVE  GateInv'
  <1>1. RowsStable
    BY StepsAreStable
  <1>2. ASSUME NEW j \in Jobs, NEW a \in Attempts, NEW k \in Steps,
               steps'[j][a][k].status = "absent"
        PROVE  steps'[j][a][k].decision = "none"
    BY <1>1, <1>2 DEF RowsStable
  <1>3. ASSUME NEW w \in Work, NEW g \in Gates[w.job], ApprovedFor(w, g)
        PROVE  ApprovedFor(w, g)'
    <2>1. w.job \in Jobs /\ w.attempt \in Attempts /\ g \in Steps
      BY JobsAssumption DEF Work
    <2> QED
      BY <1>1, <1>3, <2>1 DEF RowsStable, ApprovedFor
  <1>4. ASSUME NEW s \in Replicas, pc'[s] \in Executing \cup {"ok"},
               NEW g \in PassedGates(s)'
        PROVE  ApprovedFor(work[s], g)'
    <2>1. FrameStep(s)
      BY FrameSteps
    <2>2. pc'[s] # "idle" /\ work'[s] \in Work /\ work'[s].job \in Jobs
          /\ work'[s].step \in Steps
      <3>1. pc'[s] # "idle"
        BY <1>4 DEF Executing
      <3>2. work'[s] \in Work
        BY <3>1 DEF TypeOK
      <3> QED
        BY <3>1, <3>2 DEF Work
    <2>3. g \in Gates[work'[s].job] /\ g \in Nat /\ g >= 1 /\ g <= NSteps
      BY <1>4, <2>2, JobsAssumption, BoundsAssumption DEF PassedGates, Steps
    <2>4. CASE pc[s] \in Executing \cup {"ok"} /\ work'[s] \in {work[s], NextStep(work[s])}
               /\ (g \in PassedGates(s) \/ ApprovedFor(work[s], g))
      <3>1. work[s] \in Work /\ ApprovedFor(work[s], g)
        BY <2>4, InRunJob DEF GateInv, Executing
      <3>2. work[s].job = work'[s].job /\ work[s].attempt = work'[s].attempt
            /\ work[s].run = work'[s].run
        BY <2>4 DEF NextStep
      <3>3. ApprovedFor(work[s], g) => ApprovedFor(work'[s], g)
        BY <3>2 DEF ApprovedFor
      <3>4. steps'[work[s].job][work[s].attempt][g].decision = "approved"
            /\ steps'[work[s].job][work[s].attempt][g].run = work[s].run
        BY <1>3, <2>3, <3>1, <3>2 DEF ApprovedFor
      <3> QED
        BY <3>2, <3>4 DEF ApprovedFor
    <2>5. CASE pc'[s] = pc[s] /\ work'[s] = work[s]
      <3>1. g \in PassedGates(s)
        BY <1>4, <2>5 DEF PassedGates
      <3> QED
        BY <1>4, <2>4, <2>5, <3>1
    <2>6. CASE pc[s] = "idle" /\ work'[s].step = 1 /\ pc'[s] = "exec"
      BY <1>4, <2>3, <2>6 DEF PassedGates
    <2>7. CASE /\ pc[s] \in Executing /\ work'[s] = work[s]
               /\ pc'[s] \in {"parked", "gate_error"}
      <3>1. g \in PassedGates(s)
        BY <1>4, <2>7 DEF PassedGates
      <3> QED
        BY <2>4, <2>7, <3>1
    <2>8. CASE /\ pc[s] \in Executing /\ work'[s] = work[s]
               /\ pc'[s] = "approved" /\ DecisionFor(work[s]) = "approved"
      <3>1. g \in PassedGates(s) \/ g = work[s].step
        BY <1>4, <2>8 DEF PassedGates
      <3>2. ApprovedFor(work[s], work[s].step)
        BY <2>8 DEF DecisionFor, ApprovedFor
      <3> QED
        BY <2>4, <2>8, <3>1, <3>2
    <2>9. CASE /\ pc[s] \in Executing /\ work'[s] = work[s]
               /\ pc'[s] = "ok" /\ work[s].step = NSteps
               /\ pc[s] = "approved" \/ work[s].step \notin Gates[work[s].job]
      <3>1. g \in PassedGates(s)
        BY <1>4, <2>2, <2>3, <2>9, BoundsAssumption DEF PassedGates
      <3> QED
        BY <2>4, <2>9, <3>1
    <2>10. CASE /\ pc[s] \in Executing /\ work'[s] = NextStep(work[s])
                /\ pc'[s] = "exec"
                /\ pc[s] = "approved" \/ work[s].step \notin Gates[work[s].job]
      <3>1. work[s].step \in Nat
        BY <2>10, InRunJob DEF Steps, Executing
      <3>2. g \in Gates[work[s].job] /\ g < work[s].step + 1
        BY <1>4, <2>10 DEF PassedGates, NextStep
      <3>3. g \in PassedGates(s)
        BY <2>3, <2>10, <3>1, <3>2 DEF PassedGates
      <3> QED
        BY <2>4, <2>10, <3>3
    <2> QED
      BY <1>4, <2>1, <2>5, <2>6, <2>7, <2>8, <2>9, <2>10 DEF FrameStep, Executing, Returned
  <1>5. ASSUME NEW s \in Replicas, pc'[s] \in Executing \cup Returned,
               Fenced(work[s].job, work[s].run)'
        PROVE  work'[s].attempt = jobs'[work'[s].job].attempt
    <2>1. FrameStep(s)
      BY FrameSteps
    <2>2. CASE pc[s] \in Executing \cup Returned /\ work'[s] \in {work[s], NextStep(work[s])}
      <3>1. pc[s] # "idle" /\ work[s].job = work'[s].job /\ work[s].run = work'[s].run
            /\ work[s].attempt = work'[s].attempt
        BY <2>2 DEF Executing, Returned, NextStep
      <3>2. Fenced(work[s].job, work[s].run)
            /\ jobs'[work[s].job].attempt = jobs[work[s].job].attempt
        BY <1>5, <3>1, FenceKeepsAttempt DEF Fenced
      <3> QED
        BY <2>2, <3>1, <3>2 DEF GateInv
    <2>3. CASE pc[s] = "idle" /\ UNCHANGED jobs /\ work'[s].attempt = jobs[work'[s].job].attempt
      BY <2>3
    <2> QED
      BY <1>5, <2>1, <2>2, <2>3 DEF FrameStep
  <1>6. SuccessWasApproved'
    <2> SUFFICES ASSUME NEW j \in Jobs, jobs'[j].state = "succeeded", NEW g \in Gates[j]
                 PROVE  /\ steps'[j][jobs'[j].attempt][g].decision = "approved"
                        /\ steps'[j][jobs'[j].attempt][g].run = jobs'[j].run
      BY DEF SuccessWasApproved
    <2>1. g \in Steps
      BY JobsAssumption
    <2>2. CASE jobs[j].state = "succeeded"
      <3>1. jobs'[j] = jobs[j] /\ jobs[j].attempt \in Attempts
        BY <2>2, TerminalRowKept DEF Terminal, TypeOK
      <3>2. /\ steps[j][jobs[j].attempt][g].decision = "approved"
            /\ steps[j][jobs[j].attempt][g].run = jobs[j].run
        BY <2>2 DEF GateInv, SuccessWasApproved
      <3> QED
        BY <1>1, <2>1, <3>1, <3>2 DEF RowsStable
    <2>3. CASE jobs[j].state # "succeeded"
      <3>1. PICK r \in Replicas :
              /\ pc[r] = "ok" /\ work[r].job = j /\ Fenced(j, work[r].run)
              /\ jobs'[j].run = jobs[j].run /\ jobs'[j].attempt = jobs[j].attempt
              /\ UNCHANGED steps
        BY <2>3, SuccessIsFinalised
      <3>2. work[r].attempt = jobs[j].attempt
        BY <3>1 DEF GateInv, Returned
      <3>3. g \in PassedGates(r)
        BY <3>1 DEF PassedGates
      <3>4. ApprovedFor(work[r], g)
        BY <3>1, <3>3 DEF GateInv
      <3> QED
        BY <3>1, <3>2, <3>4 DEF ApprovedFor, Fenced
    <2> QED
      BY <2>2, <2>3
  <1> QED
    BY <1>2, <1>4, <1>5, <1>6 DEF GateInv

\* No job succeeds past a gate that was not approved for the run that succeeded.
THEOREM GatesHold == Spec => []SuccessWasApproved
  <1>1. Init => GateInv
    BY DEF Init, GateInv, SuccessWasApproved, AbsentRow, Executing, Returned
  <1>2. GateInv => SuccessWasApproved
    BY DEF GateInv
  <1> QED
    BY <1>1, <1>2, GateStep, TypeCorrect, PTL DEF Spec

-----------------------------------------------------------------------------
(* Announcements.                                                          *)

\* Replicas that have finalised a success of job j and not yet announced it.
Announcing(j) ==
  {r \in Replicas : pc[r] \in {"project_ok", "event"} /\ work[r].job = j}

\* Events written or about to be written, against the attempts of the job: an
\* attempt that is still running has none. An unscheduled job has none before it
\* has succeeded.
EventInv(j) ==
  /\ IsFiniteSet(Announcing(j))
  /\ outbox[j] + Cardinality(Announcing(j)) + (IF jobs[j].state = "running" THEN 1 ELSE 0)
       <= jobs[j].attempt
  /\ Schedule[j] = "none" =>
       outbox[j] + Cardinality(Announcing(j)) <= (IF jobs[j].state = "succeeded" THEN 1 ELSE 0)

\* What a step may do to the announcements of job j: nothing; take one up, with
\* the finalise of a running job; write it, or lose it.
AnnounceStep(j) ==
  \/ Announcing(j)' = Announcing(j) /\ outbox'[j] = outbox[j]
  \/ \E r \in Replicas \ Announcing(j) :
       /\ Announcing(j)' = Announcing(j) \cup {r} /\ outbox'[j] = outbox[j]
       /\ jobs[j].state = "running"
       /\ jobs'[j] = Released(jobs[j], IF Schedule[j] = "none" THEN "succeeded" ELSE "queued")
  \/ \E r \in Announcing(j) :
       /\ Announcing(j)' = Announcing(j) \ {r} /\ outbox'[j] \in {outbox[j], outbox[j] + 1}
       /\ UNCHANGED jobs

LEMMA AnnounceSteps ==
  ASSUME TypeOK, [Next]_vars, NEW j \in Jobs
  PROVE  AnnounceStep(j)
  <1>1. ASSUME NEW r \in Replicas,
               pc[r] \notin {"project_ok", "event"}, pc'[r] \notin {"project_ok", "event"},
               \A s \in Replicas \ {r} : pc'[s] = pc[s] /\ work'[s] = work[s],
               UNCHANGED outbox
        PROVE  AnnounceStep(j)
    BY <1>1 DEF Announcing, AnnounceStep
  <1>2. ASSUME NEW r \in Replicas,
               pc[r] \in {"project_ok", "event"}, pc'[r] = "idle", UNCHANGED jobs,
               \A s \in Replicas \ {r} : pc'[s] = pc[s] /\ work'[s] = work[s],
               \/ UNCHANGED outbox
               \/ outbox' = [outbox EXCEPT ![work[r].job] = @ + 1]
        PROVE  AnnounceStep(j)
    <2>1. CASE work[r].job = j
      <3>1. r \in Announcing(j) /\ Announcing(j)' = Announcing(j) \ {r}
        BY <1>2, <2>1 DEF Announcing
      <3>2. outbox'[j] \in {outbox[j], outbox[j] + 1}
        BY <1>2, <2>1 DEF TypeOK
      <3> QED
        BY <1>2, <3>1, <3>2 DEF AnnounceStep
    <2>2. CASE work[r].job # j
      <3>1. Announcing(j)' = Announcing(j)
        BY <1>2, <2>2 DEF Announcing
      <3>2. outbox'[j] = outbox[j]
        BY <1>2, <2>2 DEF TypeOK
      <3> QED
        BY <3>1, <3>2 DEF AnnounceStep
    <2> QED
      BY <2>1, <2>2
  <1>3. ASSUME NEW r \in Replicas, FinaliseSuccess(r) PROVE AnnounceStep(j)
    <2>1. /\ pc[r] = "ok" /\ work[r].job \in Jobs /\ UNCHANGED outbox
          /\ \A s \in Replicas \ {r} : pc'[s] = pc[s] /\ work'[s] = work[s]
      BY <1>3, InRunJob DEF FinaliseSuccess, Goto, Return, TypeOK
    <2>2. CASE pc'[r] = "idle"
      BY <1>1, <2>1, <2>2
    <2>3. CASE pc'[r] # "idle"
      <3>1. /\ pc'[r] = "project_ok" /\ work' = work
            /\ jobs[work[r].job].state = "running"
            /\ jobs' = [jobs EXCEPT ![work[r].job] =
                 Released(@, IF Schedule[work[r].job] = "none" THEN "succeeded" ELSE "queued")]
        BY <1>3, <2>3 DEF FinaliseSuccess, Goto, Return, TypeOK, Fenced
      <3>2. CASE work[r].job = j
        <4>1. r \notin Announcing(j) /\ Announcing(j)' = Announcing(j) \cup {r}
          BY <2>1, <3>1, <3>2 DEF Announcing
        <4> QED
          BY <2>1, <3>1, <3>2, <4>1 DEF AnnounceStep, TypeOK
      <3>3. CASE work[r].job # j
        <4>1. Announcing(j)' = Announcing(j)
          BY <2>1, <3>1, <3>3 DEF Announcing
        <4> QED
          BY <2>1, <4>1 DEF AnnounceStep
      <3> QED
        BY <3>2, <3>3
    <2> QED
      BY <2>2, <2>3
  <1>4. ASSUME NEW r \in Replicas, EmitSucceeded(r) PROVE AnnounceStep(j)
    BY <1>2, <1>4 DEF EmitSucceeded, Return, TypeOK
  <1>5. ASSUME NEW r \in Replicas, Project(r) PROVE AnnounceStep(j)
    <2>1. CASE pc[r] = "project"
      BY <1>1, <1>5, <2>1 DEF Project, Return, TypeOK
    <2>2. CASE pc[r] = "project_ok"
      <3>1. Announcing(j)' = Announcing(j)
        BY <1>5, <2>2 DEF Project, Goto, TypeOK, Announcing
      <3> QED
        BY <1>5, <3>1 DEF Project, AnnounceStep
    <2> QED
      BY <1>5, <2>1, <2>2 DEF Project
  <1>6. ASSUME NEW r \in Replicas, Crash(r) PROVE AnnounceStep(j)
    BY <1>1, <1>2, <1>6 DEF Crash, Return, TypeOK
  <1>7. ASSUME NEW r \in Replicas, Shutdown(r) \/ FinaliseError(r) PROVE AnnounceStep(j)
    BY <1>1, <1>7 DEF Shutdown, FinaliseError, Return, Goto, TypeOK
  <1>8. ASSUME NEW r \in Replicas,
               StartRun(r) \/ EndStepOK(r) \/ EndStepErr(r) \/ Park(r) \/ PollDecision(r)
        PROVE AnnounceStep(j)
    BY <1>1, <1>8 DEF StartRun, EndStepOK, EndStepErr, Park, PollDecision, Goto, TypeOK
  <1>9. CASE UNCHANGED <<pc, work, outbox>>
    BY <1>9 DEF Announcing, AnnounceStep
  <1>10. ASSUME NEW r \in Replicas, ClaimAndDispatch(r) PROVE UNCHANGED <<pc, work, outbox>>
    BY <1>10 DEF ClaimAndDispatch
  <1>11. ASSUME NEW k \in Jobs, LeaseExpires(k) \/ BecomesDue(k) \/ Decide(k)
         PROVE  UNCHANGED <<pc, work, outbox>>
    BY <1>11 DEF LeaseExpires, BecomesDue, Decide, SubmitDecision
  <1> QED
    BY <1>3, <1>4, <1>5, <1>6, <1>7, <1>8, <1>9, <1>10, <1>11 DEF Next, RunnerStep, vars

LEMMA EventStep ==
  ASSUME TypeOK, TypeOK', [Next]_vars, NEW j \in Jobs, EventInv(j)
  PROVE  EventInv(j)'
  <1> DEFINE n == Cardinality(Announcing(j))
  <1>1. n \in Nat
    BY FS_CardinalityType DEF EventInv
  <1>2. /\ outbox[j] \in Nat /\ jobs[j].attempt \in Nat
        /\ outbox'[j] \in Nat /\ jobs'[j].attempt \in Nat
    BY BoundsAssumption DEF TypeOK, Job
  <1>3. RowStep(j)
    BY RowSteps
  <1>4. CASE Announcing(j)' = Announcing(j) /\ outbox'[j] = outbox[j]
    <2>1. n' = n /\ IsFiniteSet(Announcing(j)')
      BY <1>4 DEF EventInv
    <2> HIDE DEF n
    <2>2. outbox[j] + n + (IF jobs[j].state = "running" THEN 1 ELSE 0) <= jobs[j].attempt
      BY DEF EventInv, n
    <2>3. Schedule[j] = "none" => outbox[j] + n <= (IF jobs[j].state = "succeeded" THEN 1 ELSE 0)
      BY DEF EventInv, n
    <2>4. outbox[j] + n + (IF jobs'[j].state = "running" THEN 1 ELSE 0) <= jobs'[j].attempt
      BY <1>1, <1>2, <1>3, <2>2 DEF RowStep, Claimable, ClaimedRow, Released, FailedRow, TimedRow
    <2>5. jobs[j].state = "succeeded" => jobs'[j].state = "succeeded"
      BY TerminalRowKept DEF Terminal
    <2>6. Schedule[j] = "none" => outbox[j] + n <= (IF jobs'[j].state = "succeeded" THEN 1 ELSE 0)
      BY <1>1, <1>2, <2>3, <2>5
    <2> QED
      BY <1>4, <2>1, <2>4, <2>6 DEF EventInv, n
  <1>5. ASSUME NEW r \in Replicas \ Announcing(j),
               Announcing(j)' = Announcing(j) \cup {r}, outbox'[j] = outbox[j],
               jobs[j].state = "running",
               jobs'[j] = Released(jobs[j], IF Schedule[j] = "none" THEN "succeeded" ELSE "queued")
        PROVE  EventInv(j)'
    <2>1. n' = n + 1 /\ IsFiniteSet(Announcing(j)')
      BY <1>5, FS_AddElement DEF EventInv
    <2> HIDE DEF n
    <2>2. outbox[j] + n + 1 <= jobs[j].attempt
      BY <1>5 DEF EventInv, n
    <2>3. Schedule[j] = "none" => outbox[j] + n <= 0
      BY <1>5 DEF EventInv, n
    <2>4. outbox'[j] + n' + (IF jobs'[j].state = "running" THEN 1 ELSE 0) <= jobs'[j].attempt
      BY <1>1, <1>2, <1>5, <2>1, <2>2 DEF Released
    <2>5. Schedule[j] = "none" =>
            outbox'[j] + n' <= (IF jobs'[j].state = "succeeded" THEN 1 ELSE 0)
      BY <1>1, <1>2, <1>5, <2>1, <2>3 DEF Released
    <2> QED
      BY <2>1, <2>4, <2>5 DEF EventInv, n
  <1>6. ASSUME NEW r \in Announcing(j),
               Announcing(j)' = Announcing(j) \ {r}, outbox'[j] \in {outbox[j], outbox[j] + 1},
               UNCHANGED jobs
        PROVE  EventInv(j)'
    <2>1. n' = n - 1 /\ IsFiniteSet(Announcing(j)')
      BY <1>6, FS_RemoveElement DEF EventInv
    <2> HIDE DEF n
    <2>2. /\ outbox[j] + n + (IF jobs[j].state = "running" THEN 1 ELSE 0) <= jobs[j].attempt
          /\ Schedule[j] = "none" =>
               outbox[j] + n <= (IF jobs[j].state = "succeeded" THEN 1 ELSE 0)
      BY DEF EventInv, n
    <2>3. /\ outbox'[j] + n' + (IF jobs'[j].state = "running" THEN 1 ELSE 0) <= jobs'[j].attempt
          /\ Schedule[j] = "none" =>
               outbox'[j] + n' <= (IF jobs'[j].state = "succeeded" THEN 1 ELSE 0)
      BY <1>1, <1>2, <1>6, <2>1, <2>2
    <2> QED
      BY <2>1, <2>3 DEF EventInv, n
  <1> QED
    BY <1>4, <1>5, <1>6, AnnounceSteps DEF AnnounceStep

LEMMA EventInvHolds == Spec => [](TypeOK /\ \A j \in Jobs : EventInv(j))
  <1>1. Init => \A j \in Jobs : EventInv(j)
    <2> SUFFICES ASSUME Init, NEW j \in Jobs PROVE EventInv(j)
      OBVIOUS
    <2>1. Announcing(j) = {}
      BY DEF Init, Announcing
    <2> QED
      BY <2>1, FS_EmptySet DEF Init, EventInv
  <1>2. TypeOK /\ TypeOK' /\ (\A j \in Jobs : EventInv(j)) /\ [Next]_vars
          => (\A j \in Jobs : EventInv(j))'
    BY EventStep
  <1> QED
    BY <1>1, <1>2, TypeCorrect, PTL DEF Spec

\* An unscheduled job is announced at most once, and not before it has succeeded,
\* however many of its runs came back from the dead.
THEOREM AnnouncedAtMostOnce == Spec => []AnnouncedOnce
  <1>1. TypeOK /\ (\A j \in Jobs : EventInv(j)) => AnnouncedOnce
    <2> SUFFICES ASSUME TypeOK, NEW j \in Jobs, EventInv(j), Schedule[j] = "none", outbox[j] > 0
                 PROVE  outbox[j] = 1 /\ jobs[j].state = "succeeded"
      BY DEF AnnouncedOnce
    <2>1. outbox[j] \in Nat /\ Cardinality(Announcing(j)) \in Nat
      BY FS_CardinalityType DEF TypeOK, EventInv
    <2> QED
      BY <2>1 DEF EventInv
  <1> QED
    BY <1>1, EventInvHolds, PTL

\* No job has more announcements than attempts, although a scheduled one is back
\* in the queue, and may be running again, before its event is written.
THEOREM EventsMatchAttempts == Spec => []OneEventPerAttempt
  <1>1. TypeOK /\ (\A j \in Jobs : EventInv(j)) => OneEventPerAttempt
    <2> SUFFICES ASSUME TypeOK, NEW j \in Jobs, EventInv(j)
                 PROVE  outbox[j] <= jobs[j].attempt
      BY DEF OneEventPerAttempt
    <2>1. outbox[j] \in Nat /\ Cardinality(Announcing(j)) \in Nat /\ jobs[j].attempt \in Nat
      BY FS_CardinalityType, BoundsAssumption DEF TypeOK, EventInv, Job
    <2> QED
      BY <2>1 DEF EventInv
  <1> QED
    BY <1>1, EventInvHolds, PTL

-----------------------------------------------------------------------------
(* The refinement of JobContract.                                          *)

\* The runs of job j that some replica still has to finalise.
Live(j) == {u \in RunIds : \E r \in Replicas : Holds(r, j, u)}

\* A claim adds the fresh run of every job it picks, and no other run.
LEMMA ClaimTakes ==
  ASSUME TypeOK, NEW r \in Replicas, ClaimAndDispatch(r), NEW j \in Jobs
  PROVE  \/ jobs'[j] = jobs[j] /\ Live(j)' = Live(j)
         \/ /\ Claimable(j) /\ WithinBounds(j) /\ jobs'[j] = ClaimedRow(j)
            /\ Live(j)' = Live(j) \cup {FreshRun(j)}
  <1>1. PICK picked \in SUBSET {k \in Jobs : Claimable(k) /\ WithinBounds(k)} :
          /\ jobs' = [k \in Jobs |-> IF k \in picked THEN ClaimedRow(k) ELSE jobs[k]]
          /\ batch' = [batch EXCEPT ![r] = {<<k, FreshRun(k)>> : k \in picked}]
    BY DEF ClaimAndDispatch
  <1>2. pc[r] = "idle" /\ batch[r] = {} /\ UNCHANGED <<pc, work>>
    BY DEF ClaimAndDispatch
  <1>3. /\ \A s \in Replicas \ {r} : batch'[s] = batch[s]
        /\ batch'[r] = {<<k, FreshRun(k)>> : k \in picked}
    BY <1>1 DEF TypeOK
  <1>4. ASSUME NEW s \in Replicas, NEW u \in RunIds
        PROVE  Holds(s, j, u)' <=> Holds(s, j, u) \/ (s = r /\ j \in picked /\ u = FreshRun(j))
    <2>1. CASE s = r
      BY <1>2, <1>3, <2>1 DEF Holds, Executing, Returned
    <2>2. CASE s # r
      BY <1>2, <1>3, <2>2 DEF Holds
    <2> QED
      BY <2>1, <2>2
  <1>5. CASE j \notin picked
    BY <1>1, <1>4, <1>5 DEF Live
  <1>6. CASE j \in picked
    <2>1. FreshRun(j) \in RunIds
      BY <1>1, <1>6, FreshRunIsFresh
    <2>2. Live(j)' = Live(j) \cup {FreshRun(j)}
      BY <1>4, <1>6, <2>1 DEF Live
    <2> QED
      BY <1>1, <1>6, <2>2
  <1> QED
    BY <1>5, <1>6

\* A finalise that goes through ends the current run of its job and no other.
LEMMA FinaliseEnds ==
  ASSUME TypeOK, FenceInv, NEW r \in Replicas,
         pc[r] \in Returned, Fenced(work[r].job, work[r].run),
         NEW place \in Finalised, Goto(r, place), UNCHANGED <<work, batch>>,
         NEW j \in Jobs
  PROVE  IF work[r].job = j
         THEN jobs[j].run \in Live(j) /\ Live(j)' = Live(j) \ {jobs[j].run}
         ELSE Live(j)' = Live(j)
  <1>1. work[r] # NoWork /\ work[r].job \in Jobs /\ work[r].run \in RunIds
    BY InRunJob DEF Returned
  <1>2. pc'[r] \notin Executing \cup Returned /\ \A s \in Replicas \ {r} : pc'[s] = pc[s]
    BY DEF Goto, TypeOK, Finalised, Executing, Returned
  <1>3. ASSUME NEW s \in Replicas, Owns(s, work[r].job, work[r].run)
        PROVE  s = r /\ <<work[r].job, work[r].run>> \notin batch[r]
    <2>1. Owns(r, work[r].job, work[r].run)
      BY <1>1 DEF Owns, Working
    <2> QED
      BY <1>1, <1>3, <2>1 DEF FenceInv, RunHeldOnce, Working
  <1>4. ASSUME NEW s \in Replicas, NEW u \in RunIds, Holds(s, j, u)
        PROVE  Owns(s, j, u)
    BY <1>4, InRunJob DEF Holds, Owns, Working, Executing, Returned
  <1>5. ASSUME NEW s \in Replicas, NEW u \in RunIds
        PROVE  Holds(s, j, u)' <=> Holds(s, j, u) /\ ~(j = work[r].job /\ u = work[r].run)
    <2>1. CASE j = work[r].job /\ u = work[r].run
      <3>1. CASE s = r
        <4>1. <<j, u>> \notin batch[r]
          BY <1>1, <1>3, <2>1 DEF Owns, Working
        <4> QED
          BY <1>2, <2>1, <3>1, <4>1 DEF Holds
      <3>2. CASE s # r
        BY <1>2, <1>3, <1>4, <2>1, <3>2 DEF Holds
      <3> QED
        BY <3>1, <3>2
    <2>2. CASE ~(j = work[r].job /\ u = work[r].run)
      <3>1. CASE s = r
        BY <1>2, <2>2, <3>1 DEF Holds
      <3>2. CASE s # r
        BY <1>2, <2>2, <3>2 DEF Holds
      <3> QED
        BY <3>1, <3>2
    <2> QED
      BY <2>1, <2>2
  <1>6. Holds(r, work[r].job, work[r].run)
    BY DEF Holds
  <1>7. CASE work[r].job = j
    <2>1. jobs[j].run = work[r].run
      BY <1>7 DEF Fenced
    <2> QED
      BY <1>1, <1>5, <1>6, <1>7, <2>1 DEF Live
  <1>8. CASE work[r].job # j
    BY <1>5, <1>8 DEF Live
  <1> QED
    BY <1>7, <1>8

\* Anything else that replica r does within its frame lets go of runs at most.
LEMMA NothingTaken ==
  ASSUME NEW r \in Replicas, NEW j \in Jobs,
         pc[r] \in Executing \cup Returned \/ pc'[r] \notin Executing \cup Returned,
         \A s \in Replicas \ {r} :
           pc'[s] = pc[s] /\ work'[s] = work[s] /\ batch'[s] = batch[s],
         pc'[r] \in Executing \cup Returned =>
           work'[r].job = work[r].job /\ work'[r].run = work[r].run,
         batch'[r] \subseteq batch[r]
  PROVE  Live(j)' \subseteq Live(j)
  <1>1. ASSUME NEW s \in Replicas, NEW u \in RunIds, Holds(s, j, u)'
        PROVE  Holds(s, j, u)
    <2>1. CASE s = r
      BY <1>1, <2>1 DEF Holds
    <2>2. CASE s # r
      BY <1>1, <2>2 DEF Holds
    <2> QED
      BY <2>1, <2>2
  <1> QED
    BY <1>1 DEF Live

\* StartRun moves a run from the batch to the frame.
LEMMA StartTakesNothing ==
  ASSUME TypeOK, NEW r \in Replicas, StartRun(r), NEW j \in Jobs
  PROVE  Live(j)' \subseteq Live(j)
  <1>1. PICK p \in batch[r] :
          /\ batch' = [batch EXCEPT ![r] = @ \ {p}]
          /\ \/ /\ \E next \in {"exec", "retryable"} : Goto(r, next)
                /\ work' = [work EXCEPT ![r] = [job |-> p[1], run |-> p[2],
                                                attempt |-> jobs[p[1]].attempt,
                                                step |-> 1]]
             \/ UNCHANGED <<pc, work>>
    BY DEF StartRun
  <1>2. p = <<p[1], p[2]>> /\ pc[r] = "idle"
    BY DEF StartRun, TypeOK
  <1>3. /\ batch'[r] \subseteq batch[r]
        /\ \A s \in Replicas \ {r} : batch'[s] = batch[s] /\ pc'[s] = pc[s] /\ work'[s] = work[s]
    BY <1>1 DEF Goto, TypeOK
  <1>4. pc'[r] \in Executing \cup Returned => work'[r].job = p[1] /\ work'[r].run = p[2]
    BY <1>1, <1>2 DEF TypeOK, Executing, Returned
  <1>5. ASSUME NEW s \in Replicas, NEW u \in RunIds, Holds(s, j, u)'
        PROVE  Holds(s, j, u)
    <2>1. CASE s = r
      BY <1>2, <1>3, <1>4, <1>5, <2>1 DEF Holds
    <2>2. CASE s # r
      BY <1>3, <1>5, <2>2 DEF Holds
    <2> QED
      BY <2>1, <2>2
  <1> QED
    BY <1>5 DEF Live

\* The row of job j as the contract sees it.
SameJob(j) ==
  jobs'[j].state = jobs[j].state /\ jobs'[j].run = jobs[j].run /\ jobs'[j].attempt = jobs[j].attempt

\* What a step may do to a job and its runs: the steps of the contract.
ContractStep(j) ==
  \/ SameJob(j) /\ Live(j)' \subseteq Live(j)
  \/ /\ Claimable(j) /\ WithinBounds(j) /\ jobs'[j] = ClaimedRow(j)
     /\ Live(j)' = Live(j) \cup {FreshRun(j)}
  \/ /\ jobs[j].state = "running" /\ jobs[j].run \in Live(j)
     /\ Live(j)' = Live(j) \ {jobs[j].run}
     /\ \/ jobs'[j] = Released(jobs[j], IF Schedule[j] = "none" THEN "succeeded" ELSE "queued")
        \/ jobs'[j] = FailedRow(jobs[j], MaxAttempts[j])
        \/ jobs'[j] = Released(jobs[j], "jobs_exhausted")

LEMMA ContractSteps ==
  ASSUME TypeOK, TypeOK', FenceInv, [Next]_vars, NEW j \in Jobs
  PROVE  ContractStep(j)
  <1>1. ASSUME NEW r \in Replicas, ClaimAndDispatch(r) PROVE ContractStep(j)
    BY <1>1, ClaimTakes DEF ContractStep, SameJob
  <1>2. ASSUME NEW r \in Replicas, StartRun(r) PROVE ContractStep(j)
    BY <1>2, StartTakesNothing DEF ContractStep, SameJob, StartRun
  <1>3. ASSUME NEW r \in Replicas, EndStepOK(r) PROVE ContractStep(j)
    <2>1. pc[r] \in Executing /\ work'[r].job = work[r].job /\ work'[r].run = work[r].run
      BY <1>3 DEF EndStepOK, Executing, NextStep, TypeOK
    <2>2. Live(j)' \subseteq Live(j)
      BY <1>3, <2>1, NothingTaken DEF EndStepOK, Goto, TypeOK
    <2> QED
      BY <1>3, <2>2 DEF EndStepOK, ContractStep, SameJob
  <1>4. ASSUME NEW r \in Replicas, EndStepErr(r) \/ Park(r) \/ PollDecision(r)
        PROVE  ContractStep(j)
    <2>1. pc[r] \in Executing
      BY <1>4 DEF EndStepErr, Park, PollDecision, Executing
    <2>2. Live(j)' \subseteq Live(j)
      BY <1>4, <2>1, NothingTaken DEF EndStepErr, Park, PollDecision, Goto, TypeOK
    <2> QED
      BY <1>4, <2>2 DEF EndStepErr, Park, PollDecision, ContractStep, SameJob
  <1>5. ASSUME NEW r \in Replicas, FinaliseSuccess(r) PROVE ContractStep(j)
    <2>1. pc[r] \in Returned /\ work[r].job \in Jobs
      BY <1>5, InRunJob DEF FinaliseSuccess, Returned
    <2>2. CASE Return(r) /\ UNCHANGED jobs
      <3>1. Live(j)' \subseteq Live(j)
        BY <1>5, <2>1, <2>2, NothingTaken DEF FinaliseSuccess, Return, TypeOK, Executing, Returned
      <3> QED
        BY <2>2, <3>1 DEF ContractStep, SameJob
    <2>3. CASE ~(Return(r) /\ UNCHANGED jobs)
      <3>1. /\ Fenced(work[r].job, work[r].run) /\ Goto(r, "project_ok")
            /\ UNCHANGED <<work, batch>>
            /\ jobs' = [jobs EXCEPT ![work[r].job] =
                 Released(@, IF Schedule[work[r].job] = "none" THEN "succeeded" ELSE "queued")]
        BY <1>5, <2>3 DEF FinaliseSuccess
      <3>2. IF work[r].job = j
            THEN jobs[j].run \in Live(j) /\ Live(j)' = Live(j) \ {jobs[j].run}
            ELSE Live(j)' = Live(j)
        BY <2>1, <3>1, FinaliseEnds DEF Finalised
      <3> QED
        BY <2>1, <3>1, <3>2 DEF ContractStep, SameJob, Fenced, TypeOK
    <2> QED
      BY <2>2, <2>3
  <1>6. ASSUME NEW r \in Replicas, FinaliseError(r) PROVE ContractStep(j)
    <2>1. pc[r] \in Returned /\ work[r].job \in Jobs
      BY <1>6, InRunJob DEF FinaliseError, Returned
    <2>2. CASE Return(r) /\ UNCHANGED jobs
      <3>1. Live(j)' \subseteq Live(j)
        BY <1>6, <2>1, <2>2, NothingTaken DEF FinaliseError, Return, TypeOK, Executing, Returned
      <3> QED
        BY <2>2, <3>1 DEF ContractStep, SameJob
    <2>3. CASE ~(Return(r) /\ UNCHANGED jobs)
      <3>1. /\ Fenced(work[r].job, work[r].run) /\ Goto(r, "project")
            /\ UNCHANGED <<work, batch>>
            /\ \/ jobs' = [jobs EXCEPT ![work[r].job] = FailedRow(@, MaxAttempts[work[r].job])]
               \/ jobs' = [jobs EXCEPT ![work[r].job] = Released(@, "jobs_exhausted")]
        BY <1>6, <2>3 DEF FinaliseError
      <3>2. IF work[r].job = j
            THEN jobs[j].run \in Live(j) /\ Live(j)' = Live(j) \ {jobs[j].run}
            ELSE Live(j)' = Live(j)
        BY <2>1, <3>1, FinaliseEnds DEF Finalised
      <3> QED
        BY <2>1, <3>1, <3>2 DEF ContractStep, SameJob, Fenced, TypeOK
    <2> QED
      BY <2>2, <2>3
  <1>7. ASSUME NEW r \in Replicas, Project(r) \/ EmitSucceeded(r) \/ Crash(r) \/ Shutdown(r)
        PROVE  ContractStep(j)
    <2>1. pc'[r] \notin Executing \cup Returned
      BY <1>7 DEF Project, EmitSucceeded, Crash, Shutdown, Return, Goto, TypeOK, Executing, Returned
    <2>2. Live(j)' \subseteq Live(j)
      BY <1>7, <2>1, NothingTaken DEF Project, EmitSucceeded, Crash, Shutdown, Return, Goto, TypeOK
    <2> QED
      BY <1>7, <2>2 DEF Project, EmitSucceeded, Crash, Shutdown, ContractStep, SameJob
  <1>8. ASSUME NEW k \in Jobs, LeaseExpires(k) \/ BecomesDue(k) PROVE ContractStep(j)
    <2>1. PICK lease, due : jobs' = [jobs EXCEPT ![k] = TimedRow(jobs[k], lease, due)]
      BY <1>8 DEF LeaseExpires, BecomesDue
    <2>3. SameJob(j)
      BY <2>1 DEF TimedRow, TypeOK, SameJob
    <2>2. Live(j)' = Live(j)
      BY <1>8 DEF LeaseExpires, BecomesDue, Live, Holds
    <2> QED
      BY <2>2, <2>3 DEF ContractStep
  <1>9. CASE UNCHANGED <<jobs, pc, batch, work>>
    BY <1>9 DEF ContractStep, SameJob, Live, Holds
  <1>10. ASSUME NEW k \in Jobs, Decide(k) PROVE UNCHANGED <<jobs, pc, batch, work>>
    BY <1>10 DEF Decide, SubmitDecision
  <1> QED
    BY <1>1, <1>2, <1>3, <1>4, <1>5, <1>6, <1>7, <1>8, <1>9, <1>10 DEF Next, RunnerStep, vars

\* Every step of the contract's bookkeeping is a step of JobContract.
LEMMA StepRefines ==
  ASSUME TypeOK, NEW j \in Jobs, ContractStep(j)
  PROVE  Contract(j)!Next
  <1>1. CASE SameJob(j) /\ Live(j)' \subseteq Live(j)
    BY <1>1 DEF SameJob, Live, Contract!Next, Contract!GiveUp
  <1>2. CASE /\ Claimable(j) /\ WithinBounds(j) /\ jobs'[j] = ClaimedRow(j)
             /\ Live(j)' = Live(j) \cup {FreshRun(j)}
    <2>1. FreshRun(j) \in RunIds /\ FreshRun(j) \notin UsedRuns(j)
      BY <1>2, FreshRunIsFresh
    <2>2. FreshRun(j) \notin Live(j) \cup {jobs[j].run}
      <3>1. ASSUME NEW r \in Replicas, Holds(r, j, FreshRun(j)) PROVE FALSE
        <4>1. Owns(r, j, FreshRun(j))
          BY <3>1, InRunJob DEF Holds, Owns, Working, Executing, Returned
        <4> QED
          BY <2>1, <4>1 DEF UsedRuns
      <3> QED
        BY <2>1, <3>1 DEF Live, UsedRuns
    <2>3. Contract(j)!Take(FreshRun(j))
      BY <1>2, <2>2 DEF Claimable, ClaimedRow, Live, Contract!Take
    <2> QED
      BY <2>1, <2>3 DEF Contract!Next
  <1>3. CASE /\ jobs[j].state = "running" /\ jobs[j].run \in Live(j)
             /\ Live(j)' = Live(j) \ {jobs[j].run}
             /\ \/ jobs'[j] = Released(jobs[j], IF Schedule[j] = "none" THEN "succeeded" ELSE "queued")
                \/ jobs'[j] = FailedRow(jobs[j], MaxAttempts[j])
                \/ jobs'[j] = Released(jobs[j], "jobs_exhausted")
    <2>1. jobs[j].attempt \in Nat /\ MaxAttempts[j] \in Nat
      BY BoundsAssumption, JobsAssumption DEF TypeOK, Job
    <2>2. \E s \in {"queued", "succeeded", "jobs_exhausted"} : Contract(j)!End(s)
      BY <1>3, <2>1 DEF Released, FailedRow, Live, Contract!End, Contract!Outcome
    <2> QED
      BY <2>2 DEF Contract!Next
  <1> QED
    BY <1>1, <1>2, <1>3 DEF ContractStep

\* The engine implements the contract of every job: its replicas, crashes and
\* expiring leases included, a job is moved on by its current run only.
THEOREM EngineImplementsContract == Spec => ImplementsContract
  <1>1. Init => \A j \in Jobs : Contract(j)!Init
    <2> SUFFICES ASSUME Init, NEW j \in Jobs PROVE Contract(j)!Init
      OBVIOUS
    <2>1. \A r \in Replicas, u \in RunIds : ~Holds(r, j, u)
      BY DEF Init, Holds, Executing, Returned
    <2>2. jobs[j].run \in RunIds
      BY JobsAssumption DEF Init
    <2> QED
      BY <2>1, <2>2 DEF Init, Contract!Init
  <1>2. TypeOK /\ TypeOK' /\ FenceInv /\ [Next]_vars =>
          [\A j \in Jobs : [Contract(j)!Next]_(Contract(j)!vars)]_vars
    BY ContractSteps, StepRefines
  <1> QED
    BY <1>1, <1>2, FenceInitially, FenceStep, TypeCorrect, PTL DEF Spec, ImplementsContract
=============================================================================
