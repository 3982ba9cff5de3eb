--------------------------- MODULE ApprovalService ---------------------------
(***************************************************************************)
(* The in-memory approval service of internal/transport/http/services.go   *)
(* and the worker that ticks it (approval_worker.go): the back end of the  *)
(* decisions endpoint when the handler has no database. Every operation    *)
(* holds the service's mutex from beginning to end, so it is one action;   *)
(* decisions, ticks and new requests come in any order.                    *)
(***************************************************************************)
EXTENDS Naturals, Sequences, FiniteSets, SequencesExt

CONSTANTS
  Steps,       \* keys of the steps map
  Bootstrap,   \* the step NewApprovalServiceWithOutbox seeds
  Approvers,   \* names of approvers
  Role,        \* role claim of each approver
  Tenant,      \* tenant claim of each approver
  Policy,      \* for each step: owner, tenant, roles, selfApproval,
               \* minApprovers, and overBudget (its cost exceeds the limit)
  Keys,        \* idempotency keys
  Ttls,        \* lifetimes a request may ask for
  DefaultTtl,  \* defaultTTL of the service
  None,        \* no record under a key
  MaxTime,     \* bound: the clock stops here
  MaxRounds    \* bound: times each step is requested

ASSUME ServiceAssumption ==
  /\ Ttls \subseteq Nat /\ DefaultTtl \in Nat \ {0}
  /\ MaxTime \in Nat /\ MaxRounds \in [Steps -> Nat]
  /\ "system" \notin Approvers /\ IsFiniteSet(Approvers)
  /\ Bootstrap \in Steps
  /\ \A s \in Steps : Policy[s].minApprovers \in Int

Decisions == {"approved", "rejected"}

\* What the idem map keeps of a decision.
IdemRecord ==
  [hash : Steps \X Approvers \X Decisions, step : Steps,
   approver : Approvers, decision : Decisions, round : Nat]

ASSUME NoneAssumption == None \notin IdemRecord

VARIABLES
  steps,  \* the steps map
  idem,   \* the idem map: the answer given under each idempotency key
  log,    \* events recorded for the current round of each step
  now,    \* nowFn()
  last    \* the answer to the last decision request

vars == <<steps, idem, log, now, last>>

\* A step that was never requested.
AbsentStep ==
  [status |-> "absent", requestedAt |-> 0, expiresAt |-> 0, escalated |-> FALSE,
   decisions |-> [a \in Approvers \cup {"system"} |-> "none"],
   round |-> 0, forced |-> FALSE]

\* A step in its r-th request, with nothing decided yet.
RequestedStep(ttl, r) ==
  [AbsentStep EXCEPT !.status = "waiting_approval", !.requestedAt = now,
                     !.expiresAt = now + ttl, !.round = r]

\* The constructor seeds one step and drains its event.
Init ==
  /\ now = 0
  /\ steps = [s \in Steps |->
                IF s = Bootstrap THEN RequestedStep(DefaultTtl, 1) ELSE AbsentStep]
  /\ idem = [k \in Keys |-> None]
  /\ log = [s \in Steps |-> << >>]
  /\ last = None

-----------------------------------------------------------------------------
\* SeedStep: an approval is requested. A step requested again starts from
\* nothing, but the idem map keeps the answers of the earlier round.
SeedStep(s, ttl) ==
  /\ steps[s].round < MaxRounds[s]
  /\ steps' = [steps EXCEPT ![s] = RequestedStep(ttl, @.round + 1)]
  /\ log' = [log EXCEPT ![s] = <<"approval_requested">>]
  /\ UNCHANGED <<idem, now, last>>

\* Mutant of EscalationDue: the test of the escalated flag is missing.
EscalationDueAgain(step) ==
  /\ now >= step.requestedAt + (8 * (step.expiresAt - step.requestedAt)) \div 10
  /\ now < step.expiresAt

\* 80% of the lifetime has passed (of the default one if the step's is not
\* positive), the step has not expired and nobody was told yet.
EscalationDue(step) ==
  LET total == IF step.expiresAt > step.requestedAt
               THEN step.expiresAt - step.requestedAt ELSE DefaultTtl
  IN /\ ~step.escalated
     /\ now >= step.requestedAt + (8 * total) \div 10
     /\ now < step.expiresAt

\* Mutant of Expired: only what was escalated can expire.
ExpiredIfEscalated(step) == step.escalated /\ now >= step.expiresAt

Expired(step) == now >= step.expiresAt

TickedStep(step) ==
  IF step.status # "waiting_approval" THEN step
  ELSE [step EXCEPT
          !.escalated = @ \/ EscalationDue(step),
          !.status = IF Expired(step) THEN "error" ELSE @,
          !.decisions["system"] = IF Expired(step) THEN "expired" ELSE @]

\* TickApprovals: escalate and expire every waiting step.
TickApprovals ==
  /\ steps' = [s \in Steps |-> TickedStep(steps[s])]
  /\ log' = [s \in Steps |->
       IF steps[s].status # "waiting_approval" THEN log[s]
       ELSE log[s]
              \o (IF EscalationDue(steps[s]) THEN <<"approval_escalated">> ELSE << >>)
              \o (IF Expired(steps[s]) THEN <<"approval_expired">> ELSE << >>)]
  /\ UNCHANGED <<idem, now, last>>

-----------------------------------------------------------------------------
\* EvaluateApproval: the first rule an approver breaks. An owner or a tenant that
\* is not known is not compared.
EvaluateApproval(a, p) ==
  IF ~p.selfApproval /\ p.owner # "" /\ a = p.owner THEN "violation"
  ELSE IF (p.tenant # "" /\ Tenant[a] # p.tenant) \/ (p.roles # {} /\ Role[a] \notin p.roles) THEN "forbidden"
  ELSE IF p.overBudget THEN "violation" ELSE "allowed"

\* Mutant of PayloadHash: the decision is not part of the payload.
PayloadHashOfStep(s, a, d) == <<s, a>>

PayloadHash(s, a, d) == <<s, a, d>>

Required(p) == IF p.minApprovers < 1 THEN 1 ELSE p.minApprovers

Approvals(step) == Cardinality({a \in Approvers : step.decisions[a] = "approved"})

\* Mutant of Remaining: one approval short of the quorum is enough.
RemainingOneLess(step, p) ==
  IF Approvals(step) + 1 >= Required(p) THEN 0 ELSE Required(p) - Approvals(step)

Remaining(step, p) ==
  IF Approvals(step) >= Required(p) THEN 0 ELSE Required(p) - Approvals(step)

\* Mutants of Refusal: a step that no longer waits, or an approver who has
\* already decided, is not refused.
RefusalIfDecided(s, a) ==
  IF steps[s].decisions[a] # "none" THEN "conflict" ELSE EvaluateApproval(a, Policy[s])

RefusalIfNotWaiting(s, a) ==
  IF steps[s].status # "waiting_approval" THEN "conflict" ELSE EvaluateApproval(a, Policy[s])

\* Why a decision under a new key is refused, or "allowed".
Refusal(s, a) ==
  IF steps[s].status # "waiting_approval" \/ steps[s].decisions[a] # "none" THEN "conflict"
  ELSE EvaluateApproval(a, Policy[s])

\* The step with a's decision on it: one rejection ends the wait, and so does the
\* last approval required.
DecidedStep(step, p, a, d) ==
  LET decided == [step EXCEPT !.decisions[a] = d]
  IN [decided EXCEPT !.status =
        IF d = "rejected" THEN "error"
        ELSE IF Remaining(decided, p) = 0 THEN "running" ELSE step.status]

\* 200 OK, with the decision as the caller sent it; or an error.
Accept(k, s, a, d) == last' = [key |-> k, step |-> s, approver |-> a, decision |-> d]
Refuse(error) == last' = [error |-> error]

\* SubmitDecision, in the order of its checks: unknown step; a key used before,
\* for this payload or another; the refusals above; and only then the record.
SubmitDecision(k, s, a, d) ==
  \/ /\ steps[s].status = "absent"
     /\ Refuse("not_found")
     /\ UNCHANGED <<steps, idem, log, now>>
  \/ /\ steps[s].status # "absent" /\ idem[k] # None
     /\ IF idem[k].hash = PayloadHash(s, a, d) THEN Accept(k, s, a, d) ELSE Refuse("conflict")
     /\ UNCHANGED <<steps, idem, log, now>>
  \/ /\ steps[s].status # "absent" /\ idem[k] = None /\ Refusal(s, a) # "allowed"
     /\ Refuse(Refusal(s, a))
     /\ UNCHANGED <<steps, idem, log, now>>
  \/ /\ steps[s].status # "absent" /\ idem[k] = None /\ Refusal(s, a) = "allowed"
     /\ steps' = [steps EXCEPT ![s] = DecidedStep(@, Policy[s], a, d)]
     /\ log' = [log EXCEPT ![s] = Append(@, "approval_decided")]
     /\ idem' = [idem EXCEPT ![k] =
                   [hash |-> PayloadHash(s, a, d), step |-> s, approver |-> a,
                    decision |-> d, round |-> steps[s].round]]
     /\ Accept(k, s, a, d)
     /\ UNCHANGED now

\* EnsureTerminal lets a waiting step go on without its approvers.
EnsureTerminal(s) ==
  /\ steps[s].status = "waiting_approval"
  /\ steps' = [steps EXCEPT ![s] = [@ EXCEPT !.status = "running", !.forced = TRUE]]
  /\ UNCHANGED <<idem, log, now, last>>

TimePasses == now < MaxTime /\ now' = now + 1 /\ UNCHANGED <<steps, idem, log, last>>

Next ==
  \/ \E s \in Steps : EnsureTerminal(s) \/ \E ttl \in Ttls : SeedStep(s, ttl)
  \/ \E k \in Keys, s \in Steps, a \in Approvers, d \in Decisions :
       SubmitDecision(k, s, a, d)
  \/ TickApprovals
  \/ TimePasses

Spec == Init /\ [][Next]_vars

\* The worker keeps ticking and time passes.
FairSpec == Spec /\ WF_vars(TickApprovals) /\ WF_vars(TimePasses)

-----------------------------------------------------------------------------
(* Properties.                                                             *)

StepState ==
  [status : {"absent", "waiting_approval", "running", "error"},
   requestedAt : Nat, expiresAt : Nat, escalated : BOOLEAN,
   decisions : [Approvers \cup {"system"} -> {"none", "expired"} \cup Decisions],
   round : Nat, forced : BOOLEAN]

\* Types of the maps, the log and the last answer.
TypeOK ==
  /\ steps \in [Steps -> StepState]
  /\ idem \in [Keys -> {None} \cup IdemRecord]
  /\ \A s \in Steps : log[s] \in Seq({"approval_requested", "approval_decided",
                                      "approval_escalated", "approval_expired"})
  /\ now \in 0..MaxTime
  /\ last \in {None}
       \cup [key : Keys, step : Steps, approver : Approvers, decision : Decisions]
       \cup [error : {"not_found", "conflict", "forbidden", "violation"}]

\* A step goes on only with a quorum of different approvers, each of them allowed
\* to approve it, and over nobody's rejection; unless EnsureTerminal forced it.
QuorumHeld ==
  \A s \in Steps : steps[s].status = "running" /\ ~steps[s].forced =>
    /\ Approvals(steps[s]) >= 1
    /\ Approvals(steps[s]) >= Policy[s].minApprovers
    /\ \A a \in Approvers : steps[s].decisions[a] # "rejected"
    /\ \A a \in Approvers : steps[s].decisions[a] = "approved" =>
         EvaluateApproval(a, Policy[s]) = "allowed"

\* A step stops waiting once per request: neither a late approval nor a late tick
\* revives a rejected, expired or running step.
SettledOnce ==
  [][\A s \in Steps :
       /\ steps[s].status \in {"running", "error"}
       /\ steps'[s].round = steps[s].round
       => steps'[s].status = steps[s].status]_vars

\* A caller who gets a 200, first or replayed, is told of the decision the service
\* holds: under the key, and on the step unless it was requested again since.
AnswersAreOnRecord ==
  last # None /\ "key" \in DOMAIN last =>
    LET r == idem[last.key] IN
    /\ r.step = last.step /\ r.approver = last.approver /\ r.decision = last.decision
    /\ r.round = steps[r.step].round => steps[r.step].decisions[r.approver] = r.decision

\* The events of a request tell its story: one event per decision, at most one
\* escalation, an expiry exactly when the system decided, and nothing after it.
EventsMatchDecisions ==
  \A s \in Steps :
    LET events(t) == {i \in 1..Len(log[s]) : log[s][i] = t} IN
    /\ Cardinality(events("approval_decided"))
         = Cardinality({a \in Approvers : steps[s].decisions[a] # "none"})
    /\ Cardinality(events("approval_escalated")) = IF steps[s].escalated THEN 1 ELSE 0
    /\ events("approval_expired")
         = IF steps[s].decisions["system"] = "expired" THEN {Len(log[s])} ELSE {}

\* No request waits for ever: the worker expires what nobody decides (a request
\* that lasts beyond the end of the model's clock aside).
WaitsEnd ==
  \A s \in Steps :
    (steps[s].status = "waiting_approval" /\ steps[s].expiresAt <= MaxTime)
      ~> (steps[s].status # "waiting_approval" \/ steps[s].expiresAt > MaxTime)
=============================================================================
