------------------------ MODULE ApprovalServiceProofs ------------------------
(***************************************************************************)
(* The approval service, for every set of steps, approvers, policies and   *)
(* keys, and any clock.                                                    *)
(***************************************************************************)
EXTENDS ApprovalService, FiniteSetTheorems, SequenceTheorems, TLAPS

-----------------------------------------------------------------------------
(* The record of a step, and what each operation makes of it.              *)

Fields == {"status", "requestedAt", "expiresAt", "escalated", "decisions", "round", "forced"}
Shaped(f) == f = [x \in Fields |-> f[x]]
Votes == [Approvers \cup {"system"} -> {"none", "expired"} \cup Decisions]

LEMMA StepFields ==
  ASSUME NEW f
  PROVE  f \in StepState <=>
           /\ Shaped(f)
           /\ f.status \in {"absent", "waiting_approval", "running", "error"}
           /\ f.requestedAt \in Nat /\ f.expiresAt \in Nat /\ f.escalated \in BOOLEAN
           /\ f.decisions \in Votes /\ f.round \in Nat /\ f.forced \in BOOLEAN
<1>1. f \in StepState => Shaped(f)
  BY DEF StepState, Shaped, Fields
<1> QED
  BY <1>1 DEF StepState, Shaped, Fields, Votes

LEMMA AbsentType == AbsentStep \in StepState /\ \A a \in Approvers \cup {"system"} : AbsentStep.decisions[a] = "none"
BY DEF AbsentStep, StepState

LEMMA RequestedFields ==
  ASSUME now \in Nat, NEW ttl \in Nat, NEW r \in Nat
  PROVE  /\ RequestedStep(ttl, r) \in StepState
         /\ RequestedStep(ttl, r).status = "waiting_approval"
         /\ RequestedStep(ttl, r).decisions = AbsentStep.decisions
         /\ RequestedStep(ttl, r).escalated = FALSE /\ RequestedStep(ttl, r).forced = FALSE
         /\ RequestedStep(ttl, r).round = r
<1> DEFINE f == AbsentStep
           g == [f EXCEPT !.status = "waiting_approval", !.requestedAt = now,
                          !.expiresAt = now + ttl, !.round = r]
<1>1. f \in StepState /\ f.escalated = FALSE /\ f.forced = FALSE
  BY AbsentType DEF AbsentStep
<1>2. Shaped(f)
  BY <1>1, StepFields
<1> HIDE DEF f
<1>3. Shaped(g)
  BY <1>2, Zenon DEF Shaped, Fields
<1>4. /\ g.status = "waiting_approval" /\ g.requestedAt = now /\ g.expiresAt = now + ttl
      /\ g.escalated = f.escalated /\ g.decisions = f.decisions /\ g.round = r /\ g.forced = f.forced
  BY <1>2 DEF Shaped, Fields
<1>5. RequestedStep(ttl, r) = g
  BY DEF RequestedStep, f
<1> HIDE DEF g
<1>6. g \in StepState
  BY <1>1, <1>3, <1>4, StepFields
<1> QED
  BY <1>1, <1>4, <1>5, <1>6 DEF f

LEMMA TickedFields ==
  ASSUME NEW f \in StepState, f.status = "waiting_approval"
  PROVE  LET g == TickedStep(f) IN
         /\ g \in StepState
         /\ g.status = IF Expired(f) THEN "error" ELSE "waiting_approval"
         /\ g.escalated = (f.escalated \/ EscalationDue(f))
         /\ \A a \in Approvers : g.decisions[a] = f.decisions[a]
         /\ g.decisions["system"] = IF Expired(f) THEN "expired" ELSE f.decisions["system"]
         /\ g.round = f.round /\ g.forced = f.forced
<1> DEFINE due == f.escalated \/ EscalationDue(f)
           place == IF Expired(f) THEN "error" ELSE f.status
           vote == IF Expired(f) THEN "expired" ELSE f.decisions["system"]
           g == [f EXCEPT !.escalated = due, !.status = place, !.decisions["system"] = vote]
<1>1. TickedStep(f) = g
  BY DEF TickedStep
<1>2. due \in BOOLEAN /\ place \in {"waiting_approval", "error"}
      /\ f.decisions \in Votes /\ vote \in {"none", "expired"} \cup Decisions
  BY StepFields DEF Votes
<1> HIDE DEF due, place, vote
<1>3. Shaped(f)
  BY StepFields
<1>4. Shaped(g)
  BY <1>3, Zenon DEF Shaped, Fields
<1>5. /\ g.status = place /\ g.requestedAt = f.requestedAt /\ g.expiresAt = f.expiresAt
      /\ g.escalated = due /\ g.decisions = [f.decisions EXCEPT !["system"] = vote]
      /\ g.round = f.round /\ g.forced = f.forced
  BY <1>3 DEF Shaped, Fields
<1>6. g.decisions \in Votes
  BY <1>2, <1>5 DEF Votes
<1> HIDE DEF g
<1>7. g \in StepState
  BY <1>2, <1>4, <1>5, <1>6, StepFields
<1>8. g.decisions["system"] = vote /\ \A a \in Approvers : g.decisions[a] = f.decisions[a]
  BY <1>2, <1>5, ServiceAssumption DEF Votes
<1> QED
  BY <1>1, <1>5, <1>7, <1>8 DEF due, place, vote

LEMMA DecidedFields ==
  ASSUME NEW f \in StepState, NEW p, NEW a \in Approvers, NEW d \in Decisions, f.status = "waiting_approval"
  PROVE  LET g == DecidedStep(f, p, a, d) IN
         /\ g \in StepState
         /\ g.decisions = [f.decisions EXCEPT ![a] = d]
         /\ d = "rejected" => g.status = "error"
         /\ d # "rejected" /\ Remaining(g, p) = 0 => g.status = "running"
         /\ d # "rejected" /\ Remaining(g, p) # 0 => g.status = "waiting_approval"
         /\ g.escalated = f.escalated /\ g.round = f.round /\ g.forced = f.forced
<1> DEFINE h == [f EXCEPT !.decisions[a] = d]
           place == IF d = "rejected" THEN "error"
                    ELSE IF Remaining(h, p) = 0 THEN "running" ELSE f.status
           g == [h EXCEPT !.status = place]
<1>1. DecidedStep(f, p, a, d) = g
  BY DEF DecidedStep
<1>2. Shaped(f) /\ f.decisions \in Votes
  BY StepFields
<1>3. Shaped(h)
  BY <1>2, Zenon DEF Shaped, Fields
<1>4. /\ h.requestedAt = f.requestedAt /\ h.expiresAt = f.expiresAt
      /\ h.escalated = f.escalated /\ h.decisions = [f.decisions EXCEPT ![a] = d]
      /\ h.round = f.round /\ h.forced = f.forced
  BY <1>2 DEF Shaped, Fields
<1>5. place \in {"error", "running", "waiting_approval"}
  OBVIOUS
<1> HIDE DEF h, place
<1>6. Shaped(g)
  BY <1>3, Zenon DEF Shaped, Fields
<1>7. /\ g.status = place /\ g.requestedAt = h.requestedAt /\ g.expiresAt = h.expiresAt
      /\ g.escalated = h.escalated /\ g.decisions = h.decisions
      /\ g.round = h.round /\ g.forced = h.forced
  BY <1>3 DEF Shaped, Fields
<1> HIDE DEF g
<1>8. Remaining(g, p) = Remaining(h, p)
  BY <1>7 DEF Remaining, Approvals
<1>9. g.decisions \in Votes
  BY <1>2, <1>4, <1>7 DEF Votes
<1>10. g \in StepState
  BY <1>4, <1>5, <1>6, <1>7, <1>9, StepFields
<1>11. d = "rejected" => place = "error"
  BY DEF place
<1>12. d # "rejected" /\ Remaining(h, p) = 0 => place = "running"
  BY DEF place
<1>13. d # "rejected" /\ Remaining(h, p) # 0 => place = "waiting_approval"
  BY DEF place
<1> QED
  BY <1>1, <1>4, <1>7, <1>8, <1>10, <1>11, <1>12, <1>13

LEMMA ForcedFields ==
  ASSUME NEW f \in StepState
  PROVE  LET g == [f EXCEPT !.status = "running", !.forced = TRUE] IN
         /\ g \in StepState /\ g.status = "running" /\ g.forced = TRUE
         /\ g.decisions = f.decisions /\ g.escalated = f.escalated /\ g.round = f.round
<1> DEFINE g == [f EXCEPT !.status = "running", !.forced = TRUE]
<1>1. Shaped(f)
  BY StepFields
<1>2. Shaped(g)
  BY <1>1, Zenon DEF Shaped, Fields
<1>3. /\ g.status = "running" /\ g.requestedAt = f.requestedAt /\ g.expiresAt = f.expiresAt
      /\ g.escalated = f.escalated /\ g.decisions = f.decisions
      /\ g.round = f.round /\ g.forced = TRUE
  BY <1>1 DEF Shaped, Fields
<1> HIDE DEF g
<1>4. g \in StepState
  BY <1>2, <1>3, StepFields
<1> QED
  BY <1>3, <1>4 DEF g

-----------------------------------------------------------------------------
(* Types.                                                                  *)

Events == {"approval_requested", "approval_decided", "approval_escalated", "approval_expired"}

Typed == TypeOK /\ DOMAIN log = Steps

LEMMA RefusalIs ==
  ASSUME NEW s, NEW a
  PROVE  Refusal(s, a) \in {"conflict", "forbidden", "violation", "allowed"}
BY DEF Refusal, EvaluateApproval

\* What TickApprovals records of a step.
TickedLog(step, events) ==
  IF step.status # "waiting_approval" THEN events
  ELSE events
         \o (IF EscalationDue(step) THEN <<"approval_escalated">> ELSE << >>)
         \o (IF Expired(step) THEN <<"approval_expired">> ELSE << >>)

LEMMA TickedLogIs ==
  ASSUME Typed, NEW f \in StepState, NEW l \in Seq(Events)
  PROVE  /\ f.status # "waiting_approval" => TickedLog(f, l) = l
         /\ f.status = "waiting_approval" =>
              /\ ~(Expired(f) /\ EscalationDue(f))
              /\ Expired(f) => TickedLog(f, l) = Append(l, "approval_expired")
              /\ EscalationDue(f) => TickedLog(f, l) = Append(l, "approval_escalated")
              /\ ~Expired(f) /\ ~EscalationDue(f) => TickedLog(f, l) = l
<1>1. ~(Expired(f) /\ EscalationDue(f))
  BY StepFields DEF Expired, EscalationDue, Typed, TypeOK
<1>2. "approval_expired" \in Events /\ "approval_escalated" \in Events
  BY DEF Events
<1>3. l \o << >> = l /\ \A e \in Events : l \o <<e>> = Append(l, e) /\ Append(l, e) \in Seq(Events)
  BY ConcatEmptySeq, AppendIsConcat, AppendProperties
<1>4. \A e \in Events : Append(l, e) \o << >> = Append(l, e)
  BY <1>3, ConcatEmptySeq
<1> QED
  BY <1>1, <1>2, <1>3, <1>4 DEF TickedLog

LEMMA Starts == Init => Typed
<1> SUFFICES ASSUME Init PROVE Typed
  OBVIOUS
<1>1. now \in Nat /\ now \in 0..MaxTime
  BY ServiceAssumption DEF Init
<1>2. RequestedStep(DefaultTtl, 1) \in StepState
  BY <1>1, RequestedFields, ServiceAssumption
<1>3. steps \in [Steps -> StepState]
  BY <1>2, AbsentType DEF Init
<1>4. \A s \in Steps : log[s] \in Seq(Events)
  BY DEF Init
<1> QED
  BY <1>1, <1>3, <1>4 DEF Init, Typed, TypeOK, Events

\* SubmitDecision either answers and changes nothing, or records a decision.
Answers(k, s, a, d) ==
  /\ \/ \E error \in {"not_found", "conflict", "forbidden", "violation"} : Refuse(error)
     \/ /\ idem[k] # None /\ idem[k].hash = PayloadHash(s, a, d) /\ Accept(k, s, a, d)
  /\ UNCHANGED <<steps, idem, log, now>>

Records(k, s, a, d) ==
  /\ steps[s].status = "waiting_approval" /\ steps[s].decisions[a] = "none"
  /\ EvaluateApproval(a, Policy[s]) = "allowed" /\ idem[k] = None
  /\ steps' = [steps EXCEPT ![s] = DecidedStep(steps[s], Policy[s], a, d)]
  /\ log' = [log EXCEPT ![s] = Append(log[s], "approval_decided")]
  /\ idem' = [idem EXCEPT ![k] = [hash |-> PayloadHash(s, a, d), step |-> s, approver |-> a,
                                  decision |-> d, round |-> steps[s].round]]
  /\ Accept(k, s, a, d)
  /\ UNCHANGED now

LEMMA SubmitIs ==
  ASSUME Typed, NEW k \in Keys, NEW s \in Steps, NEW a \in Approvers, NEW d \in Decisions,
         SubmitDecision(k, s, a, d)
  PROVE  Answers(k, s, a, d) \/ Records(k, s, a, d)
<1>1. CASE /\ steps[s].status = "absent"
           /\ Refuse("not_found")
           /\ UNCHANGED <<steps, idem, log, now>>
  BY <1>1 DEF Answers
<1>2. CASE /\ steps[s].status # "absent" /\ idem[k] # None
           /\ IF idem[k].hash = PayloadHash(s, a, d) THEN Accept(k, s, a, d) ELSE Refuse("conflict")
           /\ UNCHANGED <<steps, idem, log, now>>
  BY <1>2 DEF Answers
<1>3. CASE /\ steps[s].status # "absent" /\ idem[k] = None /\ Refusal(s, a) # "allowed"
           /\ Refuse(Refusal(s, a))
           /\ UNCHANGED <<steps, idem, log, now>>
  BY <1>3, RefusalIs DEF Answers
<1>4. CASE /\ steps[s].status # "absent" /\ idem[k] = None /\ Refusal(s, a) = "allowed"
           /\ steps' = [steps EXCEPT ![s] = DecidedStep(@, Policy[s], a, d)]
           /\ log' = [log EXCEPT ![s] = Append(@, "approval_decided")]
           /\ idem' = [idem EXCEPT ![k] =
                         [hash |-> PayloadHash(s, a, d), step |-> s, approver |-> a,
                          decision |-> d, round |-> steps[s].round]]
           /\ Accept(k, s, a, d)
           /\ UNCHANGED now
  <2>1. steps[s].status = "waiting_approval" /\ steps[s].decisions[a] = "none"
        /\ EvaluateApproval(a, Policy[s]) = "allowed"
    BY <1>4 DEF Refusal
  <2> QED
    BY <1>4, <2>1 DEF Records, Typed, TypeOK
<1> QED
  BY <1>1, <1>2, <1>3, <1>4 DEF SubmitDecision

LEMMA TypedKept == Typed /\ [Next]_vars => Typed'
<1> SUFFICES ASSUME Typed, [Next]_vars PROVE Typed'
  OBVIOUS
<1>1. /\ steps \in [Steps -> StepState] /\ idem \in [Keys -> {None} \cup IdemRecord]
      /\ DOMAIN log = Steps /\ \A s \in Steps : log[s] \in Seq(Events)
      /\ now \in 0..MaxTime /\ now \in Nat
  BY ServiceAssumption DEF Typed, TypeOK, Events
<1>2. ASSUME NEW s \in Steps, EnsureTerminal(s) PROVE Typed'
  <2>1. steps' \in [Steps -> StepState]
    BY <1>1, <1>2, ForcedFields DEF EnsureTerminal
  <2> QED
    BY <1>2, <2>1 DEF EnsureTerminal, Typed, TypeOK
<1>3. ASSUME NEW s \in Steps, NEW ttl \in Ttls, SeedStep(s, ttl) PROVE Typed'
  <2>1. steps[s].round + 1 \in Nat /\ ttl \in Nat
    BY <1>1, StepFields, ServiceAssumption
  <2>2. steps' \in [Steps -> StepState]
    BY <1>1, <1>3, <2>1, RequestedFields DEF SeedStep
  <2>3. <<"approval_requested">> \in Seq(Events)
    BY DEF Events
  <2>4. DOMAIN log' = Steps /\ \A t \in Steps : log'[t] \in Seq(Events)
    BY <1>1, <1>3, <2>3 DEF SeedStep
  <2> QED
    BY <1>3, <2>2, <2>4 DEF SeedStep, Typed, TypeOK, Events
<1>4. ASSUME NEW k \in Keys, NEW s \in Steps, NEW a \in Approvers, NEW d \in Decisions,
             SubmitDecision(k, s, a, d)
      PROVE  Typed'
  <2>1. CASE Answers(k, s, a, d)
    <3>1. last' \in [key : Keys, step : Steps, approver : Approvers, decision : Decisions]
                \cup [error : {"not_found", "conflict", "forbidden", "violation"}]
      BY <2>1 DEF Answers, Accept, Refuse
    <3> QED
      BY <2>1, <3>1 DEF Answers, Typed, TypeOK
  <2>2. CASE Records(k, s, a, d)
    <3>1. steps' \in [Steps -> StepState]
      <4>1. steps[s] \in StepState /\ steps[s].status = "waiting_approval"
        BY <1>1, <2>2 DEF Records
      <4>2. DecidedStep(steps[s], Policy[s], a, d) \in StepState
        BY <4>1, DecidedFields
      <4> QED
        BY <1>1, <2>2, <4>2 DEF Records
    <3>2. Append(log[s], "approval_decided") \in Seq(Events)
      <4>1. "approval_decided" \in Events
        BY DEF Events
      <4> QED
        BY <1>1, <4>1
    <3>3. DOMAIN log' = Steps /\ \A t \in Steps : log'[t] \in Seq(Events)
      BY <1>1, <2>2, <3>2 DEF Records
    <3>4. idem' \in [Keys -> {None} \cup IdemRecord]
      <4>1. steps[s].round \in Nat
        BY <1>1, StepFields
      <4>2. [hash |-> PayloadHash(s, a, d), step |-> s, approver |-> a,
             decision |-> d, round |-> steps[s].round] \in IdemRecord
        BY <4>1 DEF IdemRecord, PayloadHash
      <4> QED
        BY <1>1, <2>2, <4>2 DEF Records
    <3>5. last' \in [key : Keys, step : Steps, approver : Approvers, decision : Decisions]
      BY <2>2 DEF Records, Accept
    <3> QED
      BY <2>2, <3>1, <3>3, <3>4, <3>5 DEF Records, Typed, TypeOK, Events
  <2> QED
    BY <1>4, <2>1, <2>2, SubmitIs
<1>5. ASSUME TickApprovals PROVE Typed'
  <2>1. steps' \in [Steps -> StepState]
    <3>1. \A s \in Steps : TickedStep(steps[s]) \in StepState
      BY <1>1, TickedFields DEF TickedStep
    <3> QED
      BY <1>5, <3>1 DEF TickApprovals
  <2>2. DOMAIN log' = Steps /\ \A s \in Steps : log'[s] = TickedLog(steps[s], log[s])
    BY <1>5 DEF TickApprovals, TickedLog
  <2>3. \A s \in Steps : log'[s] \in Seq(Events)
    <3>1. \A l \in Seq(Events) : Append(l, "approval_expired") \in Seq(Events)
                                 /\ Append(l, "approval_escalated") \in Seq(Events)
      BY DEF Events
    <3> QED
      BY <1>1, <2>2, <3>1, TickedLogIs
  <2> QED
    BY <1>5, <2>1, <2>2, <2>3 DEF TickApprovals, Typed, TypeOK, Events
<1>6. CASE TimePasses
  BY <1>1, <1>6, ServiceAssumption DEF TimePasses, Typed, TypeOK
<1>7. CASE UNCHANGED vars
  BY <1>7 DEF vars, Typed, TypeOK
<1> QED
  BY <1>2, <1>3, <1>4, <1>5, <1>6, <1>7 DEF Next

\* The maps, the log and the answers have their types in every state.
THEOREM TypesHold == Spec => []TypeOK
<1>1. Typed => TypeOK
  BY DEF Typed
<1> QED
  BY Starts, TypedKept, <1>1, PTL DEF Spec

-----------------------------------------------------------------------------
(* What a step of the service makes of one of its steps.                   *)

Unmoved(s) == steps'[s] = steps[s] /\ log'[s] = log[s]
Forced(s) == /\ steps[s].status = "waiting_approval" /\ log'[s] = log[s]
             /\ steps'[s] = [steps[s] EXCEPT !.status = "running", !.forced = TRUE]
Seeded(s) == \E ttl \in Nat : /\ steps'[s] = RequestedStep(ttl, steps[s].round + 1)
                              /\ log'[s] = <<"approval_requested">>
Decided(s, a, d) == /\ steps[s].status = "waiting_approval" /\ steps[s].decisions[a] = "none"
                    /\ EvaluateApproval(a, Policy[s]) = "allowed"
                    /\ steps'[s] = DecidedStep(steps[s], Policy[s], a, d)
                    /\ log'[s] = Append(log[s], "approval_decided")
Ticked(s) == /\ steps[s].status = "waiting_approval"
             /\ steps'[s] = TickedStep(steps[s]) /\ log'[s] = TickedLog(steps[s], log[s])

LEMMA Moves ==
  ASSUME Typed, [Next]_vars, NEW s \in Steps
  PROVE  \/ Unmoved(s) \/ Forced(s) \/ Seeded(s) \/ Ticked(s)
         \/ \E a \in Approvers, d \in Decisions : Decided(s, a, d)
<1>1. /\ steps \in [Steps -> StepState] /\ DOMAIN log = Steps
  BY DEF Typed, TypeOK
<1>2. CASE UNCHANGED <<steps, log>>
  BY <1>2 DEF Unmoved
<1>3. ASSUME NEW t \in Steps, EnsureTerminal(t) PROVE Unmoved(s) \/ Forced(s)
  BY <1>1, <1>3 DEF EnsureTerminal, Unmoved, Forced
<1>4. ASSUME NEW t \in Steps, NEW ttl \in Ttls, SeedStep(t, ttl) PROVE Unmoved(s) \/ Seeded(s)
  <2>1. ttl \in Nat
    BY ServiceAssumption
  <2>2. CASE t = s
    BY <1>1, <1>4, <2>1, <2>2 DEF SeedStep, Seeded
  <2>3. CASE t # s
    BY <1>1, <1>4, <2>3 DEF SeedStep, Unmoved
  <2> QED
    BY <2>2, <2>3
<1>5. ASSUME NEW k \in Keys, NEW t \in Steps, NEW a \in Approvers, NEW d \in Decisions,
             SubmitDecision(k, t, a, d)
      PROVE  Unmoved(s) \/ Decided(s, a, d)
  <2>1. CASE Answers(k, t, a, d)
    BY <2>1 DEF Answers, Unmoved
  <2>2. CASE Records(k, t, a, d) /\ t = s
    BY <1>1, <2>2 DEF Records, Decided
  <2>3. CASE Records(k, t, a, d) /\ t # s
    BY <1>1, <2>3 DEF Records, Unmoved
  <2> QED
    BY <1>5, <2>1, <2>2, <2>3, SubmitIs
<1>6. ASSUME TickApprovals PROVE Unmoved(s) \/ Ticked(s)
  <2>1. steps'[s] = TickedStep(steps[s]) /\ log'[s] = TickedLog(steps[s], log[s])
    BY <1>6 DEF TickApprovals, TickedLog
  <2> QED
    BY <2>1 DEF Ticked, Unmoved, TickedStep, TickedLog
<1> QED
  BY <1>2, <1>3, <1>4, <1>5, <1>6 DEF Next, TimePasses, vars

-----------------------------------------------------------------------------
(* The quorum.                                                             *)

\* While a step waits nobody has rejected it and the system has not decided; who
\* has approved it may; and a step that runs unforced has its quorum.
Sound(f, p) ==
  /\ \A a \in Approvers : f.decisions[a] \in {"none"} \cup Decisions
  /\ f.decisions["system"] \in {"none", "expired"}
  /\ \A a \in Approvers : f.decisions[a] = "approved" => EvaluateApproval(a, p) = "allowed"
  /\ f.status = "waiting_approval" =>
       f.decisions["system"] = "none" /\ \A a \in Approvers : f.decisions[a] # "rejected"
  /\ f.status = "running" /\ ~f.forced =>
       /\ Approvals(f) >= 1 /\ Approvals(f) >= p.minApprovers
       /\ \A a \in Approvers : f.decisions[a] # "rejected"

AllSound == \A s \in Steps : Sound(steps[s], Policy[s])

LEMMA ApprovalsAreNat == ASSUME NEW f PROVE Approvals(f) \in Nat
<1>1. IsFiniteSet({a \in Approvers : f.decisions[a] = "approved"})
  <2>1. {a \in Approvers : f.decisions[a] = "approved"} \in SUBSET Approvers
    OBVIOUS
  <2> QED
    BY <2>1, FS_Subset, ServiceAssumption
<1> QED
  BY <1>1, FS_CardinalityType DEF Approvals

LEMMA QuorumReached ==
  ASSUME NEW f, NEW p, p.minApprovers \in Int, Remaining(f, p) = 0
  PROVE  Approvals(f) >= 1 /\ Approvals(f) >= p.minApprovers
BY ApprovalsAreNat DEF Remaining, Required

LEMMA SoundStarts == Init => AllSound
<1> SUFFICES ASSUME Init, NEW s \in Steps PROVE Sound(steps[s], Policy[s])
  BY DEF AllSound
<1>1. now \in Nat /\ DefaultTtl \in Nat /\ 1 \in Nat
  BY ServiceAssumption DEF Init
<1>2. RequestedStep(DefaultTtl, 1).decisions = AbsentStep.decisions
      /\ RequestedStep(DefaultTtl, 1).status = "waiting_approval"
  BY <1>1, RequestedFields, Zenon
<1>3. steps[s].decisions = AbsentStep.decisions /\ steps[s].status # "running"
  BY <1>2 DEF Init, AbsentStep
<1> QED
  BY <1>3, AbsentType DEF Sound

LEMMA SoundKept == Typed /\ AllSound /\ [Next]_vars => AllSound'
<1> SUFFICES ASSUME Typed, AllSound, [Next]_vars, NEW s \in Steps PROVE Sound(steps'[s], Policy[s])
  BY DEF AllSound
<1>1. /\ steps[s] \in StepState /\ Sound(steps[s], Policy[s]) /\ now \in Nat
      /\ Policy[s].minApprovers \in Int
  BY ServiceAssumption DEF Typed, TypeOK, AllSound
<1>2. CASE Unmoved(s)
  BY <1>1, <1>2 DEF Unmoved
<1>3. CASE Forced(s)
  <2> DEFINE g == [steps[s] EXCEPT !.status = "running", !.forced = TRUE]
  <2>1. g.status = "running" /\ g.forced = TRUE /\ g.decisions = steps[s].decisions /\ steps'[s] = g
    BY <1>1, <1>3, ForcedFields DEF Forced
  <2> HIDE DEF g
  <2> QED
    BY <1>1, <2>1 DEF Sound
<1>4. CASE Seeded(s)
  <2>1. steps[s].round + 1 \in Nat
    BY <1>1, StepFields
  <2>2. steps'[s].status = "waiting_approval" /\ steps'[s].decisions = AbsentStep.decisions
    <3>1. PICK ttl \in Nat, r \in Nat : r = steps[s].round + 1 /\ steps'[s] = RequestedStep(ttl, r)
      BY <1>4, <2>1 DEF Seeded
    <3>2. RequestedStep(ttl, r).status = "waiting_approval"
          /\ RequestedStep(ttl, r).decisions = AbsentStep.decisions
      BY <1>1, RequestedFields
    <3> QED
      BY <3>1, <3>2
  <2> QED
    BY <2>2, AbsentType DEF Sound
<1>5. ASSUME NEW a \in Approvers, NEW d \in Decisions, Decided(s, a, d)
      PROVE  Sound(steps'[s], Policy[s])
  <2>1. PICK f \in StepState : f = steps[s]
    BY <1>1
  <2>2. PICK g : g = steps'[s]
    OBVIOUS
  <2>3. PICK p : p = Policy[s]
    OBVIOUS
  <2>4. /\ g.decisions = [f.decisions EXCEPT ![a] = d]
        /\ d = "rejected" => g.status = "error"
        /\ d # "rejected" /\ Remaining(g, p) = 0 => g.status = "running"
        /\ d # "rejected" /\ Remaining(g, p) # 0 => g.status = "waiting_approval"
    <3>1. g = DecidedStep(f, p, a, d) /\ f.status = "waiting_approval"
      BY <1>5, <2>1, <2>2, <2>3 DEF Decided
    <3> QED
      BY <3>1, DecidedFields
  <2>5. /\ Sound(f, p) /\ f.status = "waiting_approval" /\ EvaluateApproval(a, p) = "allowed"
        /\ p.minApprovers \in Int
    BY <1>1, <1>5, <2>1, <2>3 DEF Decided
  <2>6. f.decisions \in Votes
    BY StepFields
  <2>7. /\ g.decisions[a] = d /\ \A b \in Approvers \ {a} : g.decisions[b] = f.decisions[b]
        /\ g.decisions["system"] = f.decisions["system"]
    BY <2>4, <2>6, ServiceAssumption DEF Votes
  <2>8. \A b \in Approvers : g.decisions[b] \in {"none"} \cup Decisions
    BY <2>5, <2>7 DEF Sound
  <2>9. \A b \in Approvers : g.decisions[b] = "approved" => EvaluateApproval(b, p) = "allowed"
    BY <2>5, <2>7 DEF Sound
  <2>10. CASE d = "rejected"
    <3>1. g.status = "error"
      BY <2>4, <2>10
    <3> QED
      BY <2>2, <2>3, <2>5, <2>7, <2>8, <2>9, <3>1 DEF Sound
  <2>11. CASE d # "rejected"
    <3>1. \A b \in Approvers : g.decisions[b] # "rejected"
      BY <2>5, <2>7, <2>11 DEF Sound
    <3>2. g.status = "running" => Approvals(g) >= 1 /\ Approvals(g) >= p.minApprovers
      BY <2>4, <2>5, <2>11, QuorumReached
    <3> QED
      BY <2>2, <2>3, <2>5, <2>7, <2>8, <2>9, <3>1, <3>2 DEF Sound
  <2> QED
    BY <2>10, <2>11
<1>6. CASE Ticked(s)
  <2>1. PICK f \in StepState : f = steps[s] /\ f.status = "waiting_approval"
    BY <1>1, <1>6 DEF Ticked
  <2>2. PICK g : g = steps'[s]
    OBVIOUS
  <2>3. /\ g.status = IF Expired(f) THEN "error" ELSE "waiting_approval"
        /\ \A a \in Approvers : g.decisions[a] = f.decisions[a]
        /\ g.decisions["system"] = IF Expired(f) THEN "expired" ELSE f.decisions["system"]
    BY <1>6, <2>1, <2>2, TickedFields DEF Ticked
  <2> QED
    BY <1>1, <2>1, <2>2, <2>3 DEF Sound
<1> QED
  BY <1>2, <1>3, <1>4, <1>5, <1>6, Moves

\* A step never goes on without its quorum of different and entitled approvers, or
\* over a rejection, unless EnsureTerminal let it (SubmitDecision, remainingApprovals).
THEOREM QuorumIsHeld == Spec => []QuorumHeld
<1>1. AllSound => QuorumHeld
  BY DEF AllSound, Sound, QuorumHeld
<1> QED
  BY Starts, TypedKept, SoundStarts, SoundKept, <1>1, PTL DEF Spec

\* Between two requests of a step it settles once: the action property of SubmitDecision,
\* TickApprovals and EnsureTerminal in any order.
THEOREM StepsSettleOnce == Spec => SettledOnce
<1>1. ASSUME Typed, [Next]_vars, NEW s \in Steps, steps[s].status \in {"running", "error"},
             steps'[s].round = steps[s].round
      PROVE  steps'[s].status = steps[s].status
  <2>1. steps[s] \in StepState /\ now \in Nat
    BY <1>1, ServiceAssumption DEF Typed, TypeOK
  <2>2. steps[s].round \in Nat /\ steps[s].round + 1 \in Nat
    BY <2>1, StepFields
  <2>3. ~Seeded(s)
    <3> SUFFICES ASSUME NEW ttl \in Nat, steps'[s] = RequestedStep(ttl, steps[s].round + 1)
                 PROVE  FALSE
      BY DEF Seeded
    <3>1. \A r \in Nat : RequestedStep(ttl, r).round = r
      BY <2>1, RequestedFields
    <3> QED
      BY <1>1, <2>2, <3>1
  <2> QED
    BY <1>1, <2>3, Moves DEF Unmoved, Forced, Ticked, Decided
<1>2. Typed /\ [Next]_vars =>
        [\A s \in Steps : /\ steps[s].status \in {"running", "error"}
                          /\ steps'[s].round = steps[s].round
                          => steps'[s].status = steps[s].status]_vars
  BY <1>1
<1> QED
  BY Starts, TypedKept, <1>2, PTL DEF Spec, SettledOnce

-----------------------------------------------------------------------------
(* Answers under idempotency keys.                                         *)

\* The record under a key against the step it is about: it is of an earlier
\* request, or the step still holds its decision.
Holds(r, f) ==
  /\ r.hash = <<r.step, r.approver, r.decision>>
  /\ r.round <= f.round
  /\ r.round = f.round => f.decisions[r.approver] = r.decision

KeysHold == \A k \in Keys : idem[k] # None => Holds(idem[k], steps[idem[k].step])

LastHolds ==
  last # None /\ "key" \in DOMAIN last =>
    /\ last.key \in Keys /\ idem[last.key] # None
    /\ idem[last.key].step = last.step /\ idem[last.key].approver = last.approver
    /\ idem[last.key].decision = last.decision

LEMMA RecordFields ==
  ASSUME NEW r \in IdemRecord
  PROVE  /\ r.hash \in Steps \X Approvers \X Decisions /\ r.step \in Steps /\ r.approver \in Approvers
         /\ r.decision \in Decisions /\ r.decision # "none" /\ r.round \in Nat
BY DEF IdemRecord, Decisions

LEMMA RecordStays ==
  ASSUME Typed, [Next]_vars, NEW r \in IdemRecord, Holds(r, steps[r.step])
  PROVE  Holds(r, steps'[r.step])
<1>1. PICK s \in Steps : s = r.step
  BY RecordFields
<1>2. /\ steps[s] \in StepState /\ now \in Nat /\ steps[s].round \in Nat /\ steps[s].decisions \in Votes
      /\ r.approver \in Approvers /\ r.decision # "none" /\ r.round \in Nat
  BY RecordFields, StepFields, ServiceAssumption DEF Typed, TypeOK
<1>3. Holds(r, steps[s])
  BY <1>1
<1>4. CASE Unmoved(s)
  BY <1>1, <1>3, <1>4 DEF Unmoved
<1>5. CASE Forced(s)
  <2>1. steps'[s].decisions = steps[s].decisions /\ steps'[s].round = steps[s].round
    BY <1>2, <1>5, ForcedFields DEF Forced
  <2> QED
    BY <1>1, <1>3, <2>1 DEF Holds
<1>6. CASE Seeded(s)
  <2>1. PICK ttl \in Nat, n \in Nat : n = steps[s].round + 1 /\ steps'[s] = RequestedStep(ttl, n)
    BY <1>2, <1>6 DEF Seeded
  <2>2. RequestedStep(ttl, n).round = n
    BY <1>2, RequestedFields
  <2> QED
    BY <1>1, <1>2, <1>3, <2>1, <2>2 DEF Holds
<1>7. ASSUME NEW a \in Approvers, NEW d \in Decisions, Decided(s, a, d) PROVE Holds(r, steps'[s])
  <2>1. PICK f \in StepState : f = steps[s] /\ f.status = "waiting_approval" /\ f.decisions[a] = "none"
    BY <1>2, <1>7 DEF Decided
  <2>2. PICK g : g = steps'[s] /\ g = DecidedStep(f, Policy[s], a, d)
    BY <1>7, <2>1 DEF Decided
  <2>3. g.decisions = [f.decisions EXCEPT ![a] = d] /\ g.round = f.round
    BY <2>1, <2>2, DecidedFields
  <2>4. r.round = f.round => r.approver # a
    BY <1>2, <1>3, <2>1 DEF Holds
  <2>5. r.approver # a => g.decisions[r.approver] = f.decisions[r.approver]
    BY <1>2, <2>1, <2>3 DEF Votes
  <2> QED
    BY <1>3, <2>1, <2>2, <2>3, <2>4, <2>5 DEF Holds
<1>8. CASE Ticked(s)
  <2>1. PICK f \in StepState : f = steps[s] /\ f.status = "waiting_approval"
    BY <1>2, <1>8 DEF Ticked
  <2>2. PICK g : g = steps'[s] /\ g = TickedStep(f)
    BY <1>8, <2>1 DEF Ticked
  <2>3. g.round = f.round /\ g.decisions[r.approver] = f.decisions[r.approver]
    BY <1>2, <2>1, <2>2, TickedFields
  <2> QED
    BY <1>1, <1>3, <2>1, <2>2, <2>3 DEF Holds
<1> QED
  BY <1>1, <1>4, <1>5, <1>6, <1>7, <1>8, Moves

LEMMA AnswersStart == Init => KeysHold /\ LastHolds
BY DEF Init, KeysHold, LastHolds

LEMMA AnswersKept ==
  Typed /\ KeysHold /\ LastHolds /\ [Next]_vars => KeysHold' /\ LastHolds'
<1> SUFFICES ASSUME Typed, KeysHold, LastHolds, [Next]_vars PROVE KeysHold' /\ LastHolds'
  OBVIOUS
<1>1. /\ steps \in [Steps -> StepState] /\ idem \in [Keys -> {None} \cup IdemRecord]
      /\ last \in {None}
           \cup [key : Keys, step : Steps, approver : Approvers, decision : Decisions]
           \cup [error : {"not_found", "conflict", "forbidden", "violation"}]
  BY DEF Typed, TypeOK
<1>2. \A k \in Keys : idem[k] # None => idem[k] \in IdemRecord /\ Holds(idem[k], steps'[idem[k].step])
  BY <1>1, RecordStays DEF KeysHold
<1>3. ASSUME UNCHANGED <<idem, last>> PROVE KeysHold' /\ LastHolds'
  BY <1>2, <1>3 DEF KeysHold, LastHolds
<1>4. ASSUME NEW k \in Keys, NEW s \in Steps, NEW a \in Approvers, NEW d \in Decisions,
             SubmitDecision(k, s, a, d)
      PROVE  KeysHold' /\ LastHolds'
  <2>1. CASE Answers(k, s, a, d)
    <3>1. KeysHold'
      BY <1>2, <2>1 DEF Answers, KeysHold
    <3>2. ASSUME NEW error, Refuse(error) PROVE LastHolds'
      <4>1. "key" \notin DOMAIN last'
        BY <3>2 DEF Refuse
      <4> QED
        BY <4>1 DEF LastHolds
    <3>3. ASSUME idem[k] # None, idem[k].hash = PayloadHash(s, a, d), Accept(k, s, a, d)
          PROVE  LastHolds'
      <4>1. last'.key = k /\ last'.step = s /\ last'.approver = a /\ last'.decision = d
        BY <3>3 DEF Accept
      <4>2. idem[k] \in IdemRecord /\ idem[k].hash = <<idem[k].step, idem[k].approver, idem[k].decision>>
        BY <1>1, <3>3 DEF KeysHold, Holds
      <4>3. idem[k].step = s /\ idem[k].approver = a /\ idem[k].decision = d
        BY <3>3, <4>2 DEF PayloadHash
      <4> QED
        BY <2>1, <3>3, <4>1, <4>3 DEF LastHolds, Answers
    <3> QED
      BY <2>1, <3>1, <3>2, <3>3 DEF Answers
  <2>2. CASE Records(k, s, a, d)
    <3>1. PICK r : r = [hash |-> PayloadHash(s, a, d), step |-> s, approver |-> a,
                        decision |-> d, round |-> steps[s].round]
      OBVIOUS
    <3>2. /\ r.hash = <<s, a, d>> /\ r.step = s /\ r.approver = a /\ r.decision = d
          /\ r.round = steps[s].round
      BY <3>1 DEF PayloadHash
    <3>3. steps[s].round \in Nat /\ steps[s] \in StepState /\ steps[s].decisions \in Votes
      BY <1>1, StepFields
    <3>4. r \in IdemRecord /\ r # None
      BY <3>1, <3>3, NoneAssumption DEF IdemRecord, PayloadHash
    <3>5. idem'[k] = r /\ \A l \in Keys \ {k} : idem'[l] = idem[l]
      BY <1>1, <2>2, <3>1 DEF Records
    <3>6. Holds(r, steps'[s])
      <4>1. PICK f \in StepState : f = steps[s] /\ f.status = "waiting_approval"
        BY <2>2, <3>3 DEF Records
      <4>2. PICK g : g = steps'[s] /\ g = DecidedStep(f, Policy[s], a, d)
        BY <1>1, <2>2, <4>1 DEF Records
      <4>3. g.decisions = [f.decisions EXCEPT ![a] = d] /\ g.round = f.round
        BY <4>1, <4>2, DecidedFields
      <4>4. g.decisions[a] = d
        BY <3>3, <4>1, <4>3 DEF Votes
      <4> QED
        BY <3>2, <3>3, <4>1, <4>2, <4>3, <4>4 DEF Holds
    <3>7. KeysHold'
      BY <1>2, <3>2, <3>5, <3>6 DEF KeysHold
    <3>8. last'.key = k /\ last'.step = s /\ last'.approver = a /\ last'.decision = d
      BY <2>2 DEF Records, Accept
    <3>9. LastHolds'
      BY <3>2, <3>4, <3>5, <3>8 DEF LastHolds
    <3> QED
      BY <3>7, <3>9
  <2> QED
    BY <1>4, <2>1, <2>2, SubmitIs
<1> QED
  BY <1>3, <1>4 DEF Next, EnsureTerminal, SeedStep, TickApprovals, TimePasses, vars

\* A 200, first or replayed, tells of the decision that the service holds under
\* the key and on the step (SubmitDecision: the payload hash and the idem map).
THEOREM AnswersAreTrue == Spec => []AnswersAreOnRecord
<1>1. Typed /\ KeysHold /\ LastHolds => AnswersAreOnRecord
  BY DEF KeysHold, LastHolds, Holds, AnswersAreOnRecord
<1> QED
  BY Starts, TypedKept, AnswersStart, AnswersKept, <1>1, PTL DEF Spec

-----------------------------------------------------------------------------
(* The events of a request.                                                *)

At(l, t) == {i \in 1..Len(l) : l[i] = t}
Deciders(f) == {a \in Approvers : f.decisions[a] # "none"}

Story(f, l) ==
  /\ Cardinality(At(l, "approval_decided")) = Cardinality(Deciders(f))
  /\ Cardinality(At(l, "approval_escalated")) = IF f.escalated THEN 1 ELSE 0
  /\ At(l, "approval_expired") = IF f.decisions["system"] = "expired" THEN {Len(l)} ELSE {}

StoriesTold == \A s \in Steps : Story(steps[s], log[s])

LEMMA DecidersFinite == ASSUME NEW f PROVE IsFiniteSet(Deciders(f))
<1>1. Deciders(f) \in SUBSET Approvers
  BY DEF Deciders
<1> QED
  BY <1>1, FS_Subset, ServiceAssumption

LEMMA AtFinite ==
  ASSUME NEW l \in Seq(Events), NEW t
  PROVE  IsFiniteSet(At(l, t)) /\ Cardinality(At(l, t)) \in Nat /\ Len(l) + 1 \notin At(l, t)
<1>1. Len(l) \in Nat /\ At(l, t) \in SUBSET (1..Len(l))
  BY DEF At
<1>2. IsFiniteSet(1..Len(l))
  BY <1>1, FS_Interval
<1>3. IsFiniteSet(At(l, t))
  BY <1>1, <1>2, FS_Subset
<1> QED
  BY <1>1, <1>3, FS_CardinalityType

\* One more event.
LEMMA AtAppend ==
  ASSUME NEW l \in Seq(Events), NEW e \in Events, NEW t
  PROVE  /\ t = e => At(Append(l, e), t) = At(l, t) \cup {Len(l) + 1}
         /\ t # e => At(Append(l, e), t) = At(l, t)
         /\ t = e => Cardinality(At(Append(l, e), t)) = Cardinality(At(l, t)) + 1
         /\ Len(Append(l, e)) = Len(l) + 1
<1>1. /\ Len(Append(l, e)) = Len(l) + 1 /\ Len(l) \in Nat
      /\ \A i \in 1..Len(l) : Append(l, e)[i] = l[i]
      /\ Append(l, e)[Len(l) + 1] = e
  OBVIOUS
<1>2. 1..(Len(l) + 1) = (1..Len(l)) \cup {Len(l) + 1} /\ Len(l) + 1 \notin 1..Len(l)
  BY <1>1
<1> DEFINE m == Append(l, e)
<1> HIDE DEF m
<1>3. t = e => At(m, t) = At(l, t) \cup {Len(l) + 1}
  BY <1>1, <1>2 DEF At, m
<1>4. t # e => At(m, t) = At(l, t)
  BY <1>1, <1>2 DEF At, m
<1>5. t = e => Cardinality(At(m, t)) = Cardinality(At(l, t)) + 1
  BY <1>3, AtFinite, FS_AddElement
<1> QED
  BY <1>1, <1>3, <1>4, <1>5 DEF m

LEMMA StoryStarts == Init => StoriesTold
<1> SUFFICES ASSUME Init, NEW s \in Steps PROVE Story(steps[s], log[s])
  BY DEF StoriesTold
<1>1. now \in Nat
  BY DEF Init
<1>2. RequestedStep(DefaultTtl, 1).decisions = AbsentStep.decisions
      /\ RequestedStep(DefaultTtl, 1).escalated = FALSE
  BY <1>1, RequestedFields, ServiceAssumption
<1>3. steps[s].decisions = AbsentStep.decisions /\ steps[s].escalated = FALSE
  BY <1>2 DEF Init, AbsentStep
<1>4. \A t : At(log[s], t) = {}
  BY DEF Init, At
<1>5. Deciders(steps[s]) = {} /\ steps[s].decisions["system"] # "expired"
  BY <1>3, AbsentType DEF Deciders
<1> QED
  BY <1>3, <1>4, <1>5, FS_EmptySet DEF Story

LEMMA StoryKept == Typed /\ AllSound /\ StoriesTold /\ [Next]_vars => StoriesTold'
<1> SUFFICES ASSUME Typed, AllSound, StoriesTold, [Next]_vars, NEW s \in Steps
             PROVE  Story(steps'[s], log'[s])
  BY DEF StoriesTold
<1>1. PICK f \in StepState, l \in Seq(Events) : f = steps[s] /\ l = log[s]
  BY DEF Typed, TypeOK, Events
<1>2. PICK g, m : g = steps'[s] /\ m = log'[s]
  OBVIOUS
<1>3. /\ Story(f, l) /\ now \in Nat /\ f.round \in Nat /\ f.decisions \in Votes
      /\ f.status = "waiting_approval" => f.decisions["system"] = "none"
  BY <1>1, StepFields, ServiceAssumption DEF StoriesTold, AllSound, Sound, Typed, TypeOK
<1>4. /\ "approval_decided" \in Events /\ "approval_escalated" \in Events
      /\ "approval_expired" \in Events
  BY DEF Events
<1>5. CASE Unmoved(s)
  BY <1>1, <1>3, <1>5 DEF Unmoved
<1>6. CASE Forced(s)
  <2>1. m = l /\ g = [f EXCEPT !.status = "running", !.forced = TRUE]
    BY <1>1, <1>2, <1>6 DEF Forced
  <2>2. g.decisions = f.decisions /\ g.escalated = f.escalated
    BY <2>1, ForcedFields
  <2> QED
    BY <1>2, <1>3, <2>1, <2>2 DEF Story, Deciders
<1>7. CASE Seeded(s)
  <2>1. PICK ttl \in Nat, n \in Nat : g = RequestedStep(ttl, n) /\ m = <<"approval_requested">>
    BY <1>1, <1>2, <1>3, <1>7 DEF Seeded
  <2>2. g.decisions = AbsentStep.decisions /\ g.escalated = FALSE
    BY <1>3, <2>1, RequestedFields
  <2>3. Deciders(g) = {} /\ g.decisions["system"] # "expired"
    BY <2>2, AbsentType DEF Deciders
  <2>4. At(m, "approval_decided") = {} /\ At(m, "approval_escalated") = {} /\ At(m, "approval_expired") = {}
    BY <2>1 DEF At
  <2> QED
    BY <1>2, <2>2, <2>3, <2>4, FS_EmptySet DEF Story
<1>8. ASSUME NEW a \in Approvers, NEW d \in Decisions, Decided(s, a, d) PROVE Story(g, m)
  <2>1. /\ g = DecidedStep(f, Policy[s], a, d) /\ m = Append(l, "approval_decided")
        /\ f.status = "waiting_approval" /\ f.decisions[a] = "none"
    BY <1>1, <1>2, <1>8 DEF Decided
  <2>2. g.decisions = [f.decisions EXCEPT ![a] = d] /\ g.escalated = f.escalated
    BY <2>1, DecidedFields
  <2>3. /\ g.decisions[a] = d /\ \A b \in Approvers \ {a} : g.decisions[b] = f.decisions[b]
        /\ g.decisions["system"] = "none"
    BY <1>3, <2>1, <2>2, ServiceAssumption DEF Votes
  <2>4. Deciders(g) = Deciders(f) \cup {a} /\ a \notin Deciders(f)
    BY <2>1, <2>3 DEF Deciders, Decisions
  <2>5. Cardinality(Deciders(g)) = Cardinality(Deciders(f)) + 1
    BY <2>4, DecidersFinite, FS_AddElement
  <2>6. /\ Cardinality(At(m, "approval_decided")) = Cardinality(At(l, "approval_decided")) + 1
        /\ At(m, "approval_escalated") = At(l, "approval_escalated")
        /\ At(m, "approval_expired") = At(l, "approval_expired")
    BY <1>4, <2>1, AtAppend
  <2> QED
    BY <1>3, <2>1, <2>2, <2>3, <2>5, <2>6 DEF Story
<1>9. CASE Ticked(s)
  <2>1. f.status = "waiting_approval" /\ g = TickedStep(f) /\ m = TickedLog(f, l)
    BY <1>1, <1>2, <1>9 DEF Ticked
  <2>2. /\ g.escalated = (f.escalated \/ EscalationDue(f))
        /\ \A a \in Approvers : g.decisions[a] = f.decisions[a]
        /\ g.decisions["system"] = IF Expired(f) THEN "expired" ELSE "none"
    BY <1>3, <2>1, TickedFields
  <2>3. Deciders(g) = Deciders(f)
    BY <2>2 DEF Deciders
  <2>4. CASE Expired(f)
    <3>1. m = Append(l, "approval_expired") /\ ~EscalationDue(f)
      BY <2>1, <2>4, TickedLogIs
    <3>2. /\ At(m, "approval_decided") = At(l, "approval_decided")
          /\ At(m, "approval_escalated") = At(l, "approval_escalated")
          /\ At(m, "approval_expired") = At(l, "approval_expired") \cup {Len(m)}
      BY <1>4, <3>1, AtAppend
    <3>3. At(m, "approval_expired") = {Len(m)}
      BY <1>3, <2>1, <3>2 DEF Story
    <3>4. g.escalated = f.escalated /\ g.decisions["system"] = "expired"
      BY <2>2, <2>4, <3>1, StepFields
    <3> QED
      BY <1>2, <1>3, <2>3, <3>2, <3>3, <3>4 DEF Story
  <2>5. CASE EscalationDue(f)
    <3>1. m = Append(l, "approval_escalated") /\ ~Expired(f)
      BY <2>1, <2>5, TickedLogIs
    <3>2. /\ At(m, "approval_decided") = At(l, "approval_decided")
          /\ Cardinality(At(m, "approval_escalated")) = Cardinality(At(l, "approval_escalated")) + 1
          /\ At(m, "approval_expired") = At(l, "approval_expired")
      BY <1>4, <3>1, AtAppend
    <3>3. ~f.escalated /\ g.escalated /\ g.decisions["system"] = "none"
      BY <2>2, <2>5, <3>1 DEF EscalationDue
    <3>4. Cardinality(At(m, "approval_escalated")) = 1
      BY <1>3, <3>2, <3>3 DEF Story
    <3>5. At(m, "approval_expired") = {}
      BY <1>3, <2>1, <3>2 DEF Story
    <3> QED
      BY <1>2, <1>3, <2>3, <3>2, <3>3, <3>4, <3>5 DEF Story
  <2>6. CASE ~Expired(f) /\ ~EscalationDue(f)
    <3>1. m = l
      BY <2>1, <2>6, TickedLogIs
    <3>2. g.escalated = f.escalated /\ g.decisions["system"] = f.decisions["system"]
      BY <1>3, <2>1, <2>2, <2>6, StepFields
    <3> QED
      BY <1>2, <1>3, <2>3, <3>1, <3>2 DEF Story
  <2> QED
    BY <2>4, <2>5, <2>6
<1> QED
  BY <1>2, <1>5, <1>6, <1>7, <1>8, <1>9, Moves

\* The events of a request are its decisions, at most one escalation, and an expiry
\* as the last word if the system decided (SubmitDecision, TickApprovals).
THEOREM EventsTellTheStory == Spec => []EventsMatchDecisions
<1>1. StoriesTold => EventsMatchDecisions
  BY DEF StoriesTold, Story, At, Deciders, EventsMatchDecisions
<1> QED
  BY Starts, TypedKept, SoundStarts, SoundKept, StoryStarts, StoryKept, <1>1, PTL DEF Spec
=============================================================================
