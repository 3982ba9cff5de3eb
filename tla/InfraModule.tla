----------------------------- MODULE InfraModule -----------------------------
(***************************************************************************)
(* Execute of internal/module/infra/module.go, with health.go: render,     *)
(* policy, approval gate, git commit, health polling, one remediation,     *)
(* callback. Jobs run side by side on one repository; each commits through *)
(* GitConnectors. Argo CD, which writes .status.yaml to the repository,    *)
(* the approvers, the policy engine and the receiver of callbacks are      *)
(* external. The retries are those of the runner (finaliseFailure and      *)
(* finaliseTerminal), one step each.                                       *)
(***************************************************************************)
EXTENDS GitConnectors, Template

CONSTANTS
  InfraJobs,        \* provisioning jobs, each a client of the git connectors
  Params,           \* provisioning parameters, by name
  JobSets,          \* what the jobs may come with: parameters and switches
  StatusStates,     \* what Argo CD says of a commit
  MaxStatusWrites   \* bound: times that Argo CD writes the status file

ASSUME InfraBounds == InfraJobs \subseteq GitClients /\ MaxStatusWrites \in Nat

ASSUME JobSetsAssumption == \A jobs \in JobSets : \A j \in InfraJobs : jobs[j].maxAttempts \in Int

VARIABLES
  job,        \* per job: the name of its parameters, its switches, its git service
  infra,      \* per job: place in Execute, attempt, and the locals that matter
  decisions,  \* per job: the approval decision of its attempt
  callbacks,  \* per job: the callbacks its receiver got
  statusWrites

infraVars == <<job, infra, decisions, callbacks, statusWrites>>

\* The parameters that RenderManifests accepts.
Renderable == {n \in DOMAIN Params : Rendered(Params[n])}

\* The parameters with which it panics: the process goes down with them.
Explosive == {n \in DOMAIN Params : Panics(Params[n])}

\* infra.pc: "queued", then one place per phase, then "succeeded" or "jobs_exhausted".
Queued == [pc |-> "queued", attempt |-> 0, policy |-> "none", commitSHA |-> Blank,
           newSHA |-> Blank, changed |-> FALSE, outcome |-> "none"]

InfraInit ==
  /\ job \in JobSets
  /\ \E pc \in {"queued", "unsubmitted"} : infra = [j \in InfraJobs |-> [Queued EXCEPT !.pc = pc]]
  /\ decisions = [j \in InfraJobs |-> "none"]
  /\ callbacks = [j \in InfraJobs |-> << >>]
  /\ statusWrites = 0

SetInfra(j, r) == infra' = [infra EXCEPT ![j] = r]
At(j, place) == infra[j].pc = place
MoveTo(j, place) == SetInfra(j, [infra[j] EXCEPT !.pc = place])

\* An error of Execute: back to the queue while attempts are left.
FailedRow(j) ==
  [infra[j] EXCEPT !.pc = IF infra[j].attempt < job[j].maxAttempts THEN "queued" ELSE "jobs_exhausted"]

Fails(j) == SetInfra(j, FailedRow(j))

\* What a phase of Execute leaves alone.
Elsewhere == UNCHANGED <<job, statusWrites>>
NoGit == UNCHANGED gitVars

-----------------------------------------------------------------------------
(* Phase 1: render, policy, approval.                                      *)

\* The scheduler claims the job; the run decodes its parameters and renders.
\* A queued job starts an attempt, a lost one repeats its attempt.
Start(j) ==
  /\ At(j, "queued") \/ At(j, "lost")
  /\ LET run == [Queued EXCEPT !.pc = "policy",
                               !.attempt = infra[j].attempt + (IF At(j, "queued") THEN 1 ELSE 0)]
         failed == [run EXCEPT !.pc = IF run.attempt < job[j].maxAttempts THEN "queued" ELSE "jobs_exhausted"]
     IN SetInfra(j, IF job[j].params \in Renderable THEN run
                    ELSE IF job[j].params \in Explosive THEN [run EXCEPT !.pc = "lost"]
                    ELSE failed)
  /\ decisions' = [decisions EXCEPT ![j] = "none"]
  /\ Elsewhere /\ NoGit /\ UNCHANGED callbacks

\* An answer without allowed = true counts as denied.
EvaluatePolicy(j) ==
  /\ At(j, "policy")
  /\ \/ SetInfra(j, [infra[j] EXCEPT !.pc = "gate", !.policy = "allowed"]) /\ UNCHANGED gitVars
     \/ SetInfra(j, [FailedRow(j) EXCEPT !.policy = "denied"]) /\ UNCHANGED gitVars
     \/ RequestFails /\ Fails(j) /\ UNCHANGED <<history, gitCall>>
  /\ Elsewhere /\ UNCHANGED <<decisions, callbacks>>

Item(j) == Params[job[j].params].catalogueItem

NeedsApproval(j) ==
  Item(j) \in DOMAIN Catalogues /\ Catalogues[Item(j)].requiresApproval /\ ~job[j].skipApproval

ApprovalGate(j) ==
  /\ At(j, "gate")
  /\ MoveTo(j, IF NeedsApproval(j) THEN "waiting" ELSE "commit")
  /\ Elsewhere /\ NoGit /\ UNCHANGED <<decisions, callbacks>>

\* An approver decides, or the request expires. External.
Decide(j) ==
  /\ At(j, "waiting") /\ decisions[j] = "none"
  /\ \E d \in {"approved", "rejected", "expired"} : decisions' = [decisions EXCEPT ![j] = d]
  /\ Elsewhere /\ NoGit /\ UNCHANGED <<infra, callbacks>>

\* Mutant of Approved: any decision ends the wait.
Decided(j) == decisions[j] # "none"

Approved(j) == decisions[j] = "approved"

TakeDecision(j) ==
  /\ At(j, "waiting") /\ decisions[j] # "none"
  /\ IF Approved(j) THEN MoveTo(j, "commit") ELSE Fails(j)
  /\ Elsewhere /\ NoGit /\ UNCHANGED <<decisions, callbacks>>

-----------------------------------------------------------------------------
(* Phase 2: commit, health, remediation.                                   *)

\* One file per catalogue item of a tenant and environment, whatever the name of
\* the request. Rendering is a function, so the parameters stand for the content.
Manifest(j) == [path \in {Item(j)} |-> job[j].params]

GitCommit(j) ==
  /\ At(j, "commit") /\ CommitFiles(j, job[j].flavour, Manifest(j))
  /\ MoveTo(j, "committing")
  /\ Elsewhere /\ UNCHANGED <<decisions, callbacks>>

\* The switch on the result of the commit. A commit that changed nothing, or a
\* request that says so, skips the health check.
TakeCommit(j) ==
  LET result == gitCall[j]
      row == [infra[j] EXCEPT !.commitSHA = result.sha, !.changed = result.changed]
  IN /\ At(j, "committing") /\ TakeResult(j)
     /\ IF result.status = "terminal_error" THEN MoveTo(j, "jobs_exhausted")
        ELSE IF result.status = "error" \/ result.sha = Blank THEN Fails(j)
        ELSE IF ~result.changed \/ job[j].skipHealth
        THEN SetInfra(j, [row EXCEPT !.pc = "callback", !.outcome = "succeeded"])
        ELSE SetInfra(j, [row EXCEPT !.pc = "poll"])
     /\ Elsewhere /\ UNCHANGED <<history, gitFaults, decisions, callbacks>>

Expected(j) == IF At(j, "poll") THEN infra[j].commitSHA ELSE infra[j].newSHA

\* Mutant of Matches: the status file counts whatever commit it is about.
AnyCommit(j) == TRUE

\* parseStatusFile: the status must be about the commit that is waited for.
Matches(j) == Tip.status.sha = Expected(j)

\* A poll ends well.
Healthy(j) ==
  /\ At(j, "poll") \/ At(j, "repoll")
  /\ Tip.status.state = "healthy" /\ Matches(j)
  /\ SetInfra(j, [infra[j] EXCEPT !.pc = "callback", !.outcome = "succeeded"])
  /\ Elsewhere /\ NoGit /\ UNCHANGED <<decisions, callbacks>>

\* The first failure leads to remediation, the second is reported.
PollFails(j) ==
  IF At(j, "poll") THEN MoveTo(j, "remediation")
  ELSE SetInfra(j, [infra[j] EXCEPT !.pc = "callback", !.outcome = "failed"])

\* A missing status file: the file connector fails with a Go error, which
\* reaches the poll as "error" and is waited out; the others answer
\* terminal_error, which has no content.
MissingFile(j) == Tip.status = NoStatus /\ job[j].flavour # "file"

\* A poll ends badly: no content, or a status of another commit.
Unreadable(j) ==
  /\ At(j, "poll") \/ At(j, "repoll")
  /\ \/ MissingFile(j) /\ UNCHANGED gitVars
     \/ Tip.status # NoStatus /\ ~Matches(j) /\ UNCHANGED gitVars
     \/ RequestFails /\ job[j].flavour # "file" /\ UNCHANGED <<history, gitCall>>
  /\ PollFails(j)
  /\ Elsewhere /\ UNCHANGED <<decisions, callbacks>>

\* Mutant of PollTimeout: only an answer ends the loop.
PollForever(j) == FALSE /\ UNCHANGED <<gitVars, infraVars>>

\* healthTimeout, or the end of the context.
PollTimeout(j) ==
  /\ At(j, "poll") \/ At(j, "repoll")
  /\ PollFails(j)
  /\ Elsewhere /\ NoGit /\ UNCHANGED <<decisions, callbacks>>

Remediate(j) ==
  /\ At(j, "remediation") /\ CommitFiles(j, job[j].flavour, Manifest(j))
  /\ MoveTo(j, "recommitting")
  /\ Elsewhere /\ UNCHANGED <<decisions, callbacks>>

\* remediationRecommit looks at the sha of the result and at nothing else.
TakeRecommit(j) ==
  /\ At(j, "recommitting") /\ TakeResult(j)
  /\ SetInfra(j, IF gitCall[j].status = "success" /\ gitCall[j].sha # Blank
                 THEN [infra[j] EXCEPT !.pc = "repoll", !.newSHA = gitCall[j].sha]
                 ELSE [infra[j] EXCEPT !.pc = "callback", !.outcome = "failed"])
  /\ Elsewhere /\ UNCHANGED <<history, gitFaults, decisions, callbacks>>

-----------------------------------------------------------------------------
(* Callback, crashes, and the world outside.                               *)

\* The commit a callback names: after a second timeout the new one, else the
\* first one, remediated or not.
ReportedSHA(j) ==
  IF infra[j].outcome = "failed" /\ infra[j].newSHA # Blank THEN infra[j].newSHA ELSE infra[j].commitSHA

\* The result of post_callback is not looked at. Without a callback_url a
\* callback of success reaches nobody; a callback of failure panics.
PostCallback(j) ==
  LET report == [status |-> infra[j].outcome, sha |-> ReportedSHA(j)]
  IN /\ At(j, "callback") /\ (infra[j].outcome = "failed" => job[j].url)
     /\ \/ /\ job[j].url /\ UNCHANGED gitFaults
           /\ callbacks' = [callbacks EXCEPT ![j] = Append(@, report)]
        \/ (RequestFails \/ (~job[j].url /\ UNCHANGED gitFaults)) /\ UNCHANGED callbacks
     /\ IF infra[j].outcome = "succeeded" THEN MoveTo(j, "succeeded") ELSE Fails(j)
     /\ Elsewhere /\ UNCHANGED <<history, gitCall, decisions>>

\* params["callback_url"].(string) of a job without one: the process goes down
\* and the lease of the job runs out.
Panic(j) ==
  /\ At(j, "callback") /\ infra[j].outcome = "failed" /\ ~job[j].url
  /\ MoveTo(j, "lost")
  /\ Elsewhere /\ NoGit /\ UNCHANGED <<decisions, callbacks>>

\* A process stops for another reason, requests under way included. What becomes
\* of a job that was gated is the subject of JobLifecycle.
Crash(j) ==
  /\ infra[j].pc \notin {"unsubmitted", "queued", "lost", "succeeded", "jobs_exhausted"}
  /\ ~NeedsApproval(j)
  /\ RequestFails
  /\ MoveTo(j, "lost")
  /\ SetCall(j, NoCall)
  /\ UNCHANGED <<job, history, decisions, callbacks, statusWrites>>

\* The names that the file connector gave to commits of one file, and of none.
Given == {MockSha(n) : n \in {m \in {0, 1} : \E j \in InfraJobs : job[j].flavour = "file"}}

\* Argo CD commits what became of a commit that it saw, or of a name that the
\* file connector gave. External.
WriteStatus ==
  /\ statusWrites < MaxStatusWrites /\ statusWrites' = statusWrites + 1
  /\ Len(history) < MaxCommits
  /\ \E state \in StatusStates, sha \in 1..Len(history) \cup Given :
       history' = Append(history, Commit(Tip.tree, [sha |-> sha, state |-> state], "argocd"))
  /\ UNCHANGED <<job, infra, decisions, callbacks, gitCall, gitFaults>>

InfraStep(j) ==
  \/ Start(j) \/ EvaluatePolicy(j) \/ ApprovalGate(j) \/ TakeDecision(j)
  \/ GitCommit(j) \/ TakeCommit(j) \/ Healthy(j) \/ Unreadable(j) \/ PollTimeout(j)
  \/ Remediate(j) \/ TakeRecommit(j) \/ PostCallback(j) \/ Panic(j)
  \/ GitStep(j) /\ UNCHANGED infraVars

InfraNext == WriteStatus \/ \E j \in InfraJobs : InfraStep(j) \/ Decide(j) \/ Crash(j)

\* Provisioning jobs and other callers on one branch.
ProvisionNext ==
  InfraNext \/ \E c \in GitClients \ InfraJobs : ClientStep(c) /\ UNCHANGED infraVars

ProvisionSpec == GitInit /\ InfraInit /\ [][ProvisionNext]_<<gitVars, infraVars>>

-----------------------------------------------------------------------------
(* Properties.                                                             *)

Over(j) == infra[j].pc \in {"succeeded", "jobs_exhausted"}

\* A job commits only in a run whose policy evaluation allowed it and, where the
\* catalogue item asks for one, whose own approval was granted: an approval of an
\* earlier attempt, or a request under way when the run ends, opens nothing
\* (policy evaluation and approval gate of Execute).
CommitsAreCleared ==
  [][\A j \in InfraJobs : Len(history') > Len(history) /\ Tip'.by = j =>
       infra[j].policy = "allowed" /\ (NeedsApproval(j) => decisions[j] = "approved")]_history

\* A job that changed something through a hosting service, and did not ask to
\* skip the check, succeeds only when its result names a commit of its own that
\* holds its manifest, and only after Argo CD called that commit, or one made on
\* top of it, healthy: a status left behind by an earlier commit does not count,
\* not even after a remediation that found nothing to change and was answered
\* with the head of somebody else (pollHealthStatus, remediationRecommit). The
\* file connector is left out: its commits share the name repo-branch-1.
HealthIsOfThisRun ==
  \A j \in InfraJobs :
    At(j, "succeeded") /\ infra[j].changed /\ ~job[j].skipHealth /\ job[j].flavour # "file" =>
      LET k == infra[j].commitSHA
      IN /\ k \in 1..Len(history) /\ history[k].by = j
         /\ \A p \in Paths \cap DOMAIN Manifest(j) : history[k].tree[p] = Manifest(j)[p]
         /\ \E i \in 1..Len(history) : /\ history[i].status.state = "healthy"
                                        /\ history[i].status.sha \in k..(i - 1)

\* Provisioning ends, whatever Argo CD, the policy engine and the service do: a
\* poll times out, a remediation is tried once, a failure uses up an attempt. A
\* job without a callback_url is left out: its failures panic, for ever; so are
\* parameters that panic when they are rendered.
ProvisioningEnds ==
  \A j \in InfraJobs : At(j, "queued") /\ job[j].url /\ job[j].params \notin Explosive ~> Over(j)

\* docs/workflows/infra_provision.md: "Health is verified before completion."
\* A receiver told "succeeded" can rely on a healthy status of a commit of the
\* job, unless the request asked to skip the check.
HealthyBeforeSuccess ==
  \A j \in InfraJobs : \A k \in 1..Len(callbacks[j]) :
    callbacks[j][k].status = "succeeded" /\ ~job[j].skipHealth =>
      \E i \in 1..Len(history) : /\ history[i].status.state = "healthy"
                                 /\ history[i].status.sha \in 1..Len(history)
                                 /\ history[history[i].status.sha].by = j
==============================================================================
