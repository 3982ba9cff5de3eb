----------------------------- MODULE DecisionApi -----------------------------
(***************************************************************************)
(* SubmitDecision of internal/transport/http/job_handler.go over the       *)
(* database, with several approvers, against the runs that wait for them   *)
(* (WaitForApproval of internal/runner/step_api.go). The handler reads the *)
(* step and inserts the decision in two statements; a run takes the newest *)
(* decision on its step and ends the step later. The idempotency key is    *)
(* unique over all jobs; inserting it again moves the row to the job of    *)
(* the newer request and changes nothing else of it. An approver has one   *)
(* row per step: a second one, under another key, is an error.             *)
(***************************************************************************)
EXTENDS Naturals, Sequences

CONSTANTS
  DecisionHandlers,  \* requests in flight
  GatedSteps,        \* steps that wait for approval: number and job
  DecisionRequests,  \* what approvers send: step, decision, approver, key
  Authorised(_, _),  \* tenant and role checks of EvaluateApproval, approver against step
  MaxDecisions,      \* bound: requests of a behaviour
  MaxDecisionFaults  \* bound: statements that fail

\* steps.id is a primary key, and a request names a step that exists.
ASSUME GatesAssumption ==
  /\ \A s, t \in GatedSteps : s.id = t.id => s = t
  /\ \A request \in DecisionRequests : request.step \in GatedSteps

VARIABLES
  gateSteps,     \* per step: its status
  decisionRows,  \* rows of approval_decisions, by created_at
  gateRuns,      \* per step: what the run that waits for it took
  decisionReq, decisionAnswers, decisionCount, decisionFaults

decisionVars == <<gateSteps, decisionRows, gateRuns, decisionReq, decisionAnswers, decisionCount, decisionFaults>>

NoDecision == [pc |-> "idle"]

DecisionInit ==
  /\ gateSteps = [s \in GatedSteps |-> "waiting_approval"]
  /\ decisionRows = << >>
  /\ gateRuns = [s \in GatedSteps |-> NoDecision]
  /\ decisionReq = [h \in DecisionHandlers |-> NoDecision]
  /\ decisionAnswers = {}
  /\ decisionCount = 0 /\ decisionFaults = 0

SetDecision(h, r) == decisionReq' = [decisionReq EXCEPT ![h] = r]

AnswerDecision(h, code) ==
  /\ SetDecision(h, NoDecision)
  /\ decisionAnswers' = decisionAnswers \cup {[code |-> code, request |-> decisionReq[h].request]}

StatementFails == decisionFaults < MaxDecisionFaults /\ decisionFaults' = decisionFaults + 1

\* deriveDecisionIdempotencyKey: approver and step, and a run id that requests
\* seldom carry.
KeyOf(request) ==
  IF request.key = "" THEN <<request.approver, request.step.id>> ELSE <<request.key>>

\* Bind and validation.
ReceiveDecision(h) ==
  /\ decisionReq[h] = NoDecision /\ decisionCount < MaxDecisions /\ decisionCount' = decisionCount + 1
  /\ \E request \in DecisionRequests :
       IF request.decision \in {"approved", "rejected"}
       THEN /\ SetDecision(h, [pc |-> "check", request |-> request])
            /\ UNCHANGED decisionAnswers
       ELSE /\ decisionAnswers' = decisionAnswers \cup {[code |-> 400, request |-> request]}
            /\ UNCHANGED decisionReq
  /\ UNCHANGED <<gateSteps, decisionRows, gateRuns, decisionFaults>>

\* jobs.created_by as the first statement reads it: createJobWithDB, which is all
\* that inserts jobs, leaves the column out.
CreatedBy(s) == ""

\* EvaluateApproval and the codes its violations are answered with. Nobody is the
\* owner of a job whose owner is not known.
Policy(request) ==
  CASE CreatedBy(request.step) # "" /\ request.approver = CreatedBy(request.step) -> 422
    [] ~Authorised(request.approver, request.step) -> 403
    [] OTHER -> 200

\* The first statement, and the policy on what it read.
CheckStep(h) ==
  LET request == decisionReq[h].request
  IN /\ decisionReq[h].pc = "check"
     /\ \/ /\ UNCHANGED decisionFaults
           /\ IF gateSteps[request.step] # "waiting_approval" THEN AnswerDecision(h, 409)
              ELSE IF Policy(request) # 200 THEN AnswerDecision(h, Policy(request))
              ELSE /\ SetDecision(h, [decisionReq[h] EXCEPT !.pc = "insert"])
                   /\ UNCHANGED decisionAnswers
        \/ StatementFails /\ AnswerDecision(h, 500)
     /\ UNCHANGED <<gateSteps, decisionRows, gateRuns, decisionCount>>

\* Mutant of Moved: the conflict moves the whole decision to the newer request.
MovedWhole(row, request) == [row EXCEPT !.job = request.step.job, !.step = request.step.id]

\* ON CONFLICT (idempotency_key) DO UPDATE SET job_id = EXCLUDED.job_id.
Moved(row, request) == [row EXCEPT !.job = request.step.job]

RowFor(request) ==
  [key |-> KeyOf(request), job |-> request.step.job, step |-> request.step.id,
   decision |-> request.decision, approver |-> request.approver]

\* UNIQUE (step_id, approver) of approval_decisions.
HasDecided(request) ==
  \E i \in 1..Len(decisionRows) :
    decisionRows[i].step = request.step.id /\ decisionRows[i].approver = request.approver

\* The step is read once more and the row inserted. The key is the arbiter of the
\* conflict; the other constraint fails the statement. The answer echoes the
\* request, whatever is stored.
InsertDecision(h) ==
  LET request == decisionReq[h].request
      taken == {i \in 1..Len(decisionRows) : decisionRows[i].key = KeyOf(request)}
  IN /\ decisionReq[h].pc = "insert"
     /\ \/ /\ taken # {} /\ AnswerDecision(h, 200)
           /\ decisionRows' = [i \in 1..Len(decisionRows) |->
                                 IF i \in taken THEN Moved(decisionRows[i], request) ELSE decisionRows[i]]
           /\ UNCHANGED decisionFaults
        \/ /\ taken = {} /\ ~HasDecided(request) /\ AnswerDecision(h, 200)
           /\ decisionRows' = Append(decisionRows, RowFor(request))
           /\ UNCHANGED decisionFaults
        \/ /\ taken = {} /\ HasDecided(request) /\ AnswerDecision(h, 500)
           /\ UNCHANGED <<decisionRows, decisionFaults>>
        \/ StatementFails /\ (\E code \in {404, 500} : AnswerDecision(h, code)) /\ UNCHANGED decisionRows
     /\ UNCHANGED <<gateSteps, gateRuns, decisionCount>>

\* The poll of WaitForApproval: the newest decision on this very step.
PollGate(s) ==
  LET rows == {i \in 1..Len(decisionRows) : decisionRows[i].job = s.job /\ decisionRows[i].step = s.id}
  IN /\ gateRuns[s] = NoDecision /\ rows # {}
     /\ LET newest == CHOOSE i \in rows : \A k \in rows : k <= i
        IN gateRuns' = [gateRuns EXCEPT ![s] = [pc |-> "decided", row |-> decisionRows[newest]]]
     /\ UNCHANGED <<gateSteps, decisionRows, decisionReq, decisionAnswers, decisionCount, decisionFaults>>

\* EndStepOK or EndStepErr of the gate.
EndGate(s) ==
  /\ gateRuns[s].pc = "decided" /\ gateSteps[s] = "waiting_approval"
  /\ gateSteps' = [gateSteps EXCEPT ![s] = IF gateRuns[s].row.decision = "approved" THEN "ok" ELSE "error"]
  /\ UNCHANGED <<decisionRows, gateRuns, decisionReq, decisionAnswers, decisionCount, decisionFaults>>

DecisionNext ==
  \/ \E h \in DecisionHandlers : ReceiveDecision(h) \/ CheckStep(h) \/ InsertDecision(h)
  \/ \E s \in GatedSteps : PollGate(s) \/ EndGate(s)

DecisionSpec == DecisionInit /\ [][DecisionNext]_decisionVars

-----------------------------------------------------------------------------
\* A gate opens only through a decision that an approver whom tenant and role
\* allow sent for that very step and was told was recorded, and that approver has
\* no other decision on the step: neither a key used again for another job, nor a
\* second thought under another key, nor a decision that arrives between the two
\* statements of another handler, opens it in their stead (SubmitDecision, the
\* constraints of approval_decisions and the poll of WaitForApproval). Whoever
\* created the job is an approver like any other.
GateOpenedByItsApprover ==
  \A s \in GatedSteps : gateSteps[s] = "ok" =>
    /\ \E a \in decisionAnswers :
         /\ a.code = 200 /\ a.request.step = s /\ a.request.decision = "approved"
         /\ a.request.approver = gateRuns[s].row.approver
         /\ Authorised(a.request.approver, s)
    /\ \A i \in 1..Len(decisionRows) :
         decisionRows[i].step = s.id /\ decisionRows[i].approver = gateRuns[s].row.approver
           => decisionRows[i].decision = "approved"
=============================================================================
