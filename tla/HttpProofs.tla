----------------------------- MODULE HttpProofs -----------------------------
(***************************************************************************)
(* Proofs about internal/transport/http: the approval gate, for every set  *)
(* of steps, approvers and requests (who opened it and by which decision), *)
(* and the rate limit of the middleware, for every capacity, refill rate,  *)
(* set of tenants and number of requests in flight.                        *)
(***************************************************************************)
EXTENDS DecisionApi, Edge, WellFoundedInduction, TLAPS

-----------------------------------------------------------------------------
(* The approval gate.                                                       *)

\* Rows that requests can leave in approval_decisions.
Rows ==
  [key : {KeyOf(r) : r \in DecisionRequests}, job : {r.step.job : r \in DecisionRequests},
   step : {r.step.id : r \in DecisionRequests}, decision : {r.decision : r \in DecisionRequests},
   approver : {r.approver : r \in DecisionRequests}]

Permitted(request) == Authorised(request.approver, request.step)

\* What a handler has established about its request, by the place it is at.
HandlerInv ==
  /\ DOMAIN decisionReq = DecisionHandlers
  /\ \A h \in DecisionHandlers :
       \/ decisionReq[h] = NoDecision
       \/ \E request \in DecisionRequests : decisionReq[h] = [pc |-> "check", request |-> request]
       \/ \E request \in DecisionRequests :
            decisionReq[h] = [pc |-> "insert", request |-> request] /\ Permitted(request)

\* The decision of a row was sent for its step by a permitted approver, who was
\* told that it is recorded.
Recorded(row, answers) ==
  \E a \in answers :
    /\ a.code = 200 /\ a.request \in DecisionRequests /\ Permitted(a.request)
    /\ a.request.step.id = row.step /\ a.request.decision = row.decision
    /\ a.request.approver = row.approver

\* Two rows of the same vote: an approver's on a step.
SameVote(row, other) == row.step = other.step /\ row.approver = other.approver

RowsInv ==
  /\ decisionRows \in Seq(Rows)
  /\ \A i \in 1..Len(decisionRows) : Recorded(decisionRows[i], decisionAnswers)
  /\ \A i, k \in 1..Len(decisionRows) :
       SameVote(decisionRows[i], decisionRows[k]) => decisionRows[i].decision = decisionRows[k].decision

\* The table still has the vote of a row, as it was.
Stands(row, rows) ==
  \E i \in 1..Len(rows) : SameVote(rows[i], row) /\ rows[i].decision = row.decision

\* A run that has taken a decision took one of its own step, and a step that
\* ended well was ended by an approval.
GatesInv ==
  /\ DOMAIN gateRuns = GatedSteps /\ DOMAIN gateSteps = GatedSteps
  /\ \A s \in GatedSteps :
       /\ \/ gateRuns[s] = NoDecision
          \/ \E row \in Rows : /\ gateRuns[s] = [pc |-> "decided", row |-> row]
                               /\ row.step = s.id /\ Recorded(row, decisionAnswers)
                               /\ Stands(row, decisionRows)
       /\ gateSteps[s] \in {"waiting_approval", "ok", "error"}
       /\ gateSteps[s] = "ok" =>
            gateRuns[s].pc = "decided" /\ gateRuns[s].row.decision = "approved"

DecisionInv == HandlerInv /\ RowsInv /\ GatesInv

-----------------------------------------------------------------------------
\* A set of numbers that is not empty has a least, and a bounded one a largest.
LEMMA LeastOf ==
  ASSUME NEW T, T \subseteq Nat, T # {}
  PROVE  \E x \in T : \A y \in T : x <= y
<1>1. IsWellFoundedOn(OpToRel(<,Nat), Nat)
  BY NatLessThanWellFounded
<1>2. PICK x \in T : \A y \in T : <<y, x>> \notin OpToRel(<,Nat)
  <2> DEFINE R == OpToRel(<,Nat)
  <2>1. IsWellFoundedOn(R, Nat)
    BY <1>1
  <2> HIDE DEF R
  <2>2. \E x \in T : \A y \in T : ~ (<<y, x>> \in R)
    BY <2>1, WFMin
  <2> QED
    BY <2>2 DEF R
<1>3. \A y \in T : x <= y
  <2> SUFFICES ASSUME NEW y \in T, y < x PROVE FALSE
    OBVIOUS
  <2>1. <<y, x>> \in {ss \in Nat \X Nat : ss[1] < ss[2]}
    OBVIOUS
  <2> QED
    BY <2>1, <1>2 DEF OpToRel
<1> QED
  BY <1>3

LEMMA LargestOf ==
  ASSUME NEW n \in Nat, NEW T, T \subseteq 1..n, T # {}
  PROVE  \E x \in T : \A y \in T : y <= x
<1> DEFINE U == {n - i : i \in T}
<1>1. \A i \in T : n - i \in Nat
  OBVIOUS
<1>5. U \subseteq Nat /\ U # {}
  BY <1>1
<1> HIDE DEF U
<1>2. PICK u \in U : \A v \in U : u <= v
  BY <1>5, LeastOf
<1>3. PICK x \in T : u = n - x
  BY DEF U
<1>4. \A y \in T : n - x <= n - y
  BY <1>2, <1>3 DEF U
<1> QED
  BY <1>4

\* The conflict leaves to a row the step, the decision and the approver it has.
LEMMA MovedKeeps ==
  ASSUME NEW row \in Rows, NEW request \in DecisionRequests
  PROVE  /\ Moved(row, request) \in Rows
         /\ Moved(row, request).step = row.step
         /\ Moved(row, request).decision = row.decision
         /\ Moved(row, request).approver = row.approver
BY DEF Moved, Rows

LEMMA RowForType == ASSUME NEW request \in DecisionRequests PROVE RowFor(request) \in Rows
BY DEF RowFor, Rows

LEMMA Started == DecisionInit => DecisionInv
<1> SUFFICES ASSUME DecisionInit PROVE DecisionInv
  OBVIOUS
<1>1. HandlerInv /\ RowsInv
  BY DEF DecisionInit, HandlerInv, RowsInv
<1>2. GatesInv
  BY DEF DecisionInit, GatesInv
<1> QED
  BY <1>1, <1>2 DEF DecisionInv

\* Answers are only added, so what is recorded stays so.
LEMMA StillRecorded ==
  ASSUME decisionAnswers \subseteq decisionAnswers'
  PROVE  \A row : Recorded(row, decisionAnswers) => Recorded(row, decisionAnswers')
BY DEF Recorded

LEMMA SameRecord ==
  ASSUME NEW answers, NEW row, NEW other, Recorded(row, answers),
         other.step = row.step, other.decision = row.decision, other.approver = row.approver
  PROVE  Recorded(other, answers)
BY DEF Recorded

LEMMA GatesKept ==
  ASSUME DecisionInv, decisionAnswers \subseteq decisionAnswers', UNCHANGED <<gateRuns, gateSteps>>,
         \A row \in Rows : Stands(row, decisionRows) => Stands(row, decisionRows')
  PROVE  GatesInv'
BY StillRecorded DEF DecisionInv, GatesInv

LEMMA RowsKept ==
  ASSUME DecisionInv, decisionAnswers \subseteq decisionAnswers', UNCHANGED decisionRows
  PROVE  RowsInv'
BY StillRecorded DEF DecisionInv, RowsInv

LEMMA Answered ==
  ASSUME DecisionInv, NEW h \in DecisionHandlers, NEW code, AnswerDecision(h, code)
  PROVE  HandlerInv' /\ decisionAnswers \subseteq decisionAnswers'
BY DEF AnswerDecision, SetDecision, DecisionInv, HandlerInv

LEMMA DecisionKept == DecisionInv /\ [DecisionNext]_decisionVars => DecisionInv'
<1> SUFFICES ASSUME DecisionInv, [DecisionNext]_decisionVars PROVE DecisionInv'
  OBVIOUS
<1>1. ASSUME NEW h \in DecisionHandlers, ReceiveDecision(h) PROVE DecisionInv'
  <2>1. PICK request \in DecisionRequests :
          IF request.decision \in {"approved", "rejected"}
          THEN /\ SetDecision(h, [pc |-> "check", request |-> request])
               /\ UNCHANGED decisionAnswers
          ELSE /\ decisionAnswers' = decisionAnswers \cup {[code |-> 400, request |-> request]}
               /\ UNCHANGED decisionReq
    BY <1>1 DEF ReceiveDecision
  <2>2. HandlerInv'
    BY <2>1 DEF SetDecision, DecisionInv, HandlerInv
  <2>3. decisionAnswers \subseteq decisionAnswers'
    BY <2>1
  <2> QED
    BY <1>1, <2>2, <2>3, GatesKept, RowsKept DEF ReceiveDecision, DecisionInv
<1>2. ASSUME NEW h \in DecisionHandlers, CheckStep(h) PROVE DecisionInv'
  <2> DEFINE request == decisionReq[h].request
  <2>1. request \in DecisionRequests /\ decisionReq[h] = [pc |-> "check", request |-> request]
    BY <1>2 DEF CheckStep, DecisionInv, HandlerInv, NoDecision
  <2>2. \/ \E code \in {409, 422, 403, 500} : AnswerDecision(h, code)
        \/ /\ SetDecision(h, [decisionReq[h] EXCEPT !.pc = "insert"])
           /\ UNCHANGED decisionAnswers /\ Permitted(request)
    BY <1>2 DEF CheckStep, Permitted, Policy, CreatedBy
  <2>3. HandlerInv' /\ decisionAnswers \subseteq decisionAnswers'
    <3>1. CASE \E code \in {409, 422, 403, 500} : AnswerDecision(h, code)
      BY <3>1, Answered
    <3>2. CASE /\ SetDecision(h, [decisionReq[h] EXCEPT !.pc = "insert"])
               /\ UNCHANGED decisionAnswers /\ Permitted(request)
      <4>1. [decisionReq[h] EXCEPT !.pc = "insert"] = [pc |-> "insert", request |-> request]
        BY <2>1
      <4> HIDE DEF request
      <4>2. /\ DOMAIN decisionReq' = DecisionHandlers
            /\ decisionReq'[h] = [pc |-> "insert", request |-> request]
            /\ \A g \in DecisionHandlers \ {h} : decisionReq'[g] = decisionReq[g]
        BY <3>2, <4>1 DEF SetDecision, DecisionInv, HandlerInv
      <4> QED
        BY <2>1, <3>2, <4>2 DEF DecisionInv, HandlerInv, Permitted
    <3> QED
      BY <2>2, <3>1, <3>2
  <2> QED
    BY <1>2, <2>3, GatesKept, RowsKept DEF CheckStep, DecisionInv
<1>3. ASSUME NEW h \in DecisionHandlers, InsertDecision(h) PROVE DecisionInv'
  <2>1. PICK request \in DecisionRequests : decisionReq[h].request = request /\ Permitted(request)
    BY <1>3 DEF InsertDecision, DecisionInv, HandlerInv, NoDecision
  <2>2. decisionRows \in Seq(Rows)
        /\ \A i \in 1..Len(decisionRows) : Recorded(decisionRows[i], decisionAnswers)
    BY DEF DecisionInv, RowsInv
  <2>3. HandlerInv' /\ decisionAnswers \subseteq decisionAnswers'
    BY <1>3, Answered DEF InsertDecision
  <2>4. \A i \in 1..Len(decisionRows) : Recorded(decisionRows[i], decisionAnswers')
    BY <2>2, <2>3, StillRecorded
  <2>5. ASSUME \A row \in Rows : Stands(row, decisionRows) => Stands(row, decisionRows')
        PROVE  GatesInv'
    BY <1>3, <2>3, <2>5, GatesKept DEF InsertDecision
  <2>6. CASE UNCHANGED decisionRows
    BY <2>3, <2>5, <2>6, RowsKept DEF DecisionInv
  <2>9. \A i, k \in 1..Len(decisionRows) :
          SameVote(decisionRows[i], decisionRows[k]) => decisionRows[i].decision = decisionRows[k].decision
    BY DEF DecisionInv, RowsInv
  <2>7. CASE /\ decisionRows' = Append(decisionRows, RowFor(request)) /\ AnswerDecision(h, 200)
             /\ ~HasDecided(request)
    <3>1. [code |-> 200, request |-> request] \in decisionAnswers'
      BY <2>1, <2>7 DEF AnswerDecision
    <3>2. Recorded(RowFor(request), decisionAnswers')
      BY <2>1, <3>1 DEF Recorded, RowFor
    <3>3. RowFor(request) \in Rows
      BY RowForType
    <3>5. \A i \in 1..Len(decisionRows) : ~SameVote(decisionRows[i], RowFor(request))
      BY <2>7 DEF HasDecided, SameVote, RowFor
    <3>6. /\ Len(decisionRows') = Len(decisionRows) + 1 /\ Len(decisionRows) \in Nat
          /\ decisionRows' \in Seq(Rows)
          /\ \A i \in 1..Len(decisionRows) : decisionRows'[i] = decisionRows[i]
          /\ decisionRows'[Len(decisionRows) + 1] = RowFor(request)
      BY <2>2, <2>7, <3>3
    <3>7. \A i, k \in 1..Len(decisionRows') :
            SameVote(decisionRows'[i], decisionRows'[k]) => decisionRows'[i].decision = decisionRows'[k].decision
      <4> SUFFICES ASSUME NEW i \in 1..Len(decisionRows'), NEW k \in 1..Len(decisionRows'),
                          SameVote(decisionRows'[i], decisionRows'[k])
                   PROVE  decisionRows'[i].decision = decisionRows'[k].decision
        OBVIOUS
      <4>1. CASE i \in 1..Len(decisionRows) /\ k \in 1..Len(decisionRows)
        BY <2>9, <3>6, <4>1
      <4>2. CASE i = Len(decisionRows) + 1 /\ k = Len(decisionRows) + 1
        BY <4>2
      <4>3. CASE i = Len(decisionRows) + 1 /\ k \in 1..Len(decisionRows)
        BY <3>5, <3>6, <4>3 DEF SameVote
      <4>4. CASE k = Len(decisionRows) + 1 /\ i \in 1..Len(decisionRows)
        BY <3>5, <3>6, <4>4 DEF SameVote
      <4> QED
        BY <3>6, <4>1, <4>2, <4>3, <4>4
    <3>4. RowsInv'
      BY <2>4, <3>2, <3>6, <3>7 DEF RowsInv
    <3>8. \A row \in Rows : Stands(row, decisionRows) => Stands(row, decisionRows')
      BY <3>6 DEF Stands
    <3> QED
      BY <2>3, <2>5, <3>4, <3>8 DEF DecisionInv
  <2>8. ASSUME NEW taken,
               decisionRows' = [i \in 1..Len(decisionRows) |->
                                  IF i \in taken THEN Moved(decisionRows[i], request) ELSE decisionRows[i]]
        PROVE  DecisionInv'
    <3>1. \A i \in 1..Len(decisionRows) : decisionRows[i] \in Rows /\ Len(decisionRows) \in Nat
      BY <2>2
    <3>2. \A i \in 1..Len(decisionRows) :
             /\ decisionRows'[i] \in Rows /\ Recorded(decisionRows'[i], decisionAnswers')
             /\ SameVote(decisionRows'[i], decisionRows[i])
             /\ decisionRows'[i].decision = decisionRows[i].decision
      <4> SUFFICES ASSUME NEW i \in 1..Len(decisionRows)
                   PROVE  /\ decisionRows'[i] \in Rows /\ Recorded(decisionRows'[i], decisionAnswers')
                          /\ SameVote(decisionRows'[i], decisionRows[i])
                          /\ decisionRows'[i].decision = decisionRows[i].decision
        OBVIOUS
      <4>1. CASE i \in taken
        <5>1. decisionRows'[i] = Moved(decisionRows[i], request)
          BY <2>8, <4>1
        <5>2. /\ decisionRows'[i] \in Rows
              /\ decisionRows'[i].step = decisionRows[i].step
              /\ decisionRows'[i].decision = decisionRows[i].decision
              /\ decisionRows'[i].approver = decisionRows[i].approver
          BY <5>1, <3>1, MovedKeeps
        <5>3. Recorded(decisionRows[i], decisionAnswers')
          BY <2>4
        <5>4. Recorded(decisionRows'[i], decisionAnswers')
          BY <5>2, <5>3, SameRecord
        <5> QED
          BY <5>2, <5>4 DEF SameVote
      <4>2. CASE i \notin taken
        BY <2>8, <4>2, <3>1, <2>4 DEF SameVote
      <4> QED
        BY <4>1, <4>2
    <3>3. decisionRows' \in Seq(Rows) /\ Len(decisionRows') = Len(decisionRows)
      <4>1. Len(decisionRows) \in Nat
        BY <2>2
      <4>2. decisionRows' \in [1..Len(decisionRows) -> Rows]
        BY <2>8, <3>2
      <4> QED
        BY <4>1, <4>2
    <3>4. \A i, k \in 1..Len(decisionRows') :
            SameVote(decisionRows'[i], decisionRows'[k]) => decisionRows'[i].decision = decisionRows'[k].decision
      BY <2>9, <3>2, <3>3 DEF SameVote
    <3>5. RowsInv'
      BY <3>2, <3>3, <3>4 DEF RowsInv
    <3>6. \A row \in Rows : Stands(row, decisionRows) => Stands(row, decisionRows')
      BY <3>2, <3>3 DEF Stands, SameVote
    <3> QED
      BY <2>3, <2>5, <3>5, <3>6 DEF DecisionInv
  <2> QED
    BY <1>3, <2>1, <2>6, <2>7, <2>8 DEF InsertDecision
<1>4. ASSUME NEW s \in GatedSteps, PollGate(s) PROVE DecisionInv'
  <2> DEFINE rows == {i \in 1..Len(decisionRows) : decisionRows[i].job = s.job /\ decisionRows[i].step = s.id}
             newest == CHOOSE i \in rows : \A k \in rows : k <= i
  <2>1. decisionRows \in Seq(Rows) /\ Len(decisionRows) \in Nat
        /\ \A i \in 1..Len(decisionRows) : Recorded(decisionRows[i], decisionAnswers)
    BY DEF DecisionInv, RowsInv
  <2>2. rows \subseteq 1..Len(decisionRows) /\ rows # {}
    BY <1>4 DEF PollGate
  <2>3. \E i \in rows : \A k \in rows : k <= i
    <3> HIDE DEF rows
    <3> QED
      BY <2>1, <2>2, LargestOf
  <2>4. newest \in rows
    <3> HIDE DEF rows
    <3> QED
      BY <2>3
  <2>5. PICK row \in Rows : /\ row = decisionRows[newest] /\ row.step = s.id
                            /\ Recorded(row, decisionAnswers) /\ Stands(row, decisionRows)
    <3> HIDE DEF newest
    <3> QED
      BY <2>1, <2>4 DEF Stands, SameVote
  <2>6. gateRuns' = [gateRuns EXCEPT ![s] = [pc |-> "decided", row |-> row]] /\ gateRuns[s] = NoDecision
    BY <1>4, <2>5 DEF PollGate
  <2>7. gateSteps[s] # "ok"
    BY <2>6 DEF DecisionInv, GatesInv, NoDecision
  <2>8. GatesInv'
    <3>1. DOMAIN gateRuns' = GatedSteps /\ DOMAIN gateSteps' = GatedSteps
      BY <1>4, <2>6 DEF PollGate, DecisionInv, GatesInv
    <3>2. gateRuns'[s] = [pc |-> "decided", row |-> row]
          /\ \A t \in GatedSteps \ {s} : gateRuns'[t] = gateRuns[t]
      BY <2>6 DEF DecisionInv, GatesInv
    <3>3. UNCHANGED <<gateSteps, decisionAnswers, decisionRows>>
      BY <1>4 DEF PollGate
    <3>4. gateSteps[s] \in {"waiting_approval", "ok", "error"}
      BY DEF DecisionInv, GatesInv
    <3>5. \A t \in GatedSteps \ {s} :
            /\ \/ gateRuns'[t] = NoDecision
               \/ \E r \in Rows : /\ gateRuns'[t] = [pc |-> "decided", row |-> r]
                                  /\ r.step = t.id /\ Recorded(r, decisionAnswers)
                                  /\ Stands(r, decisionRows)
            /\ gateSteps[t] \in {"waiting_approval", "ok", "error"}
            /\ gateSteps[t] = "ok" =>
                 gateRuns'[t].pc = "decided" /\ gateRuns'[t].row.decision = "approved"
      BY <3>2 DEF DecisionInv, GatesInv
    <3> QED
      BY <2>5, <2>7, <3>1, <3>2, <3>3, <3>4, <3>5 DEF GatesInv
  <2> QED
    BY <1>4, <2>8, RowsKept DEF PollGate, DecisionInv, HandlerInv
<1>5. ASSUME NEW s \in GatedSteps, EndGate(s) PROVE DecisionInv'
  <2>1. GatesInv'
    BY <1>5 DEF EndGate, DecisionInv, GatesInv
  <2> QED
    BY <1>5, <2>1, RowsKept DEF EndGate, DecisionInv, HandlerInv
<1>6. CASE UNCHANGED decisionVars
  BY <1>6, GatesKept, RowsKept DEF decisionVars, DecisionInv, HandlerInv
<1> QED
  BY <1>1, <1>2, <1>3, <1>4, <1>5, <1>6 DEF DecisionNext

\* A gate is opened by the decision that an approver whom tenant and role allow
\* took on that step, and that approver took no other on it, whatever keys
\* requests share and however handlers and runs interleave (SubmitDecision, its
\* ON CONFLICT clause, uq_approval_per_approver and the poll of WaitForApproval).
THEOREM GatesOpenByApproval == DecisionSpec => []GateOpenedByItsApprover
<1>1. DecisionInv => GateOpenedByItsApprover
  <2> SUFFICES ASSUME DecisionInv, NEW s \in GatedSteps, gateSteps[s] = "ok"
               PROVE  /\ \E a \in decisionAnswers :
                           /\ a.code = 200 /\ a.request.step = s /\ a.request.decision = "approved"
                           /\ a.request.approver = gateRuns[s].row.approver
                           /\ Authorised(a.request.approver, s)
                      /\ \A i \in 1..Len(decisionRows) :
                           decisionRows[i].step = s.id /\ decisionRows[i].approver = gateRuns[s].row.approver
                             => decisionRows[i].decision = "approved"
    BY DEF GateOpenedByItsApprover
  <2>1. gateRuns[s].pc = "decided" /\ gateRuns[s].row.decision = "approved"
    BY DEF DecisionInv, GatesInv
  <2>2. PICK row \in Rows : /\ gateRuns[s] = [pc |-> "decided", row |-> row]
                            /\ row.step = s.id /\ Recorded(row, decisionAnswers)
                            /\ Stands(row, decisionRows)
    BY <2>1 DEF DecisionInv, GatesInv, NoDecision
  <2>3. PICK a \in decisionAnswers :
          /\ a.code = 200 /\ a.request \in DecisionRequests /\ Permitted(a.request)
          /\ a.request.step.id = s.id /\ a.request.decision = row.decision
          /\ a.request.approver = row.approver
    BY <2>2 DEF Recorded
  <2>4. a.request.step = s
    BY <2>3, GatesAssumption
  <2>5. \A i \in 1..Len(decisionRows) :
          SameVote(decisionRows[i], row) => decisionRows[i].decision = row.decision
    BY <2>2 DEF Stands, SameVote, DecisionInv, RowsInv
  <2> QED
    BY <2>1, <2>2, <2>3, <2>4, <2>5 DEF Permitted, SameVote
<1> QED
  BY Started, DecisionKept, <1>1, PTL DEF DecisionSpec

-----------------------------------------------------------------------------
(* The rate limit.                                                          *)

\* A request in flight has the fields of NoBearer and, past its first step, the
\* tenant of a bearer; a bucket and the times of the requests served are numbers.
Fields == {"pc", "kid", "valid", "tenant", "cached", "wait"}

Held(f) == f = [x \in Fields |-> f[x]] /\ (f.pc # "idle" => f.tenant \in Tenants)

RequestsHeld == DOMAIN edgeReq = EdgeRequests /\ \A h \in EdgeRequests : Held(edgeReq[h])

EdgeType ==
  /\ edgeClock \in Int
  /\ RequestsHeld
  /\ buckets \in [Tenants -> [tokens : Int, lastRefill : Int]]
  /\ served \in [Tenants -> Seq(Int)]

\* A bucket is the account of what its tenant was served: from every request
\* served on, the tokens spent and those left are covered by the capacity and by
\* what was refilled since. Every pair of served requests keeps the bound itself.
Account(t) ==
  LET b == buckets[t]  s == served[t] IN
  \/ b = NoBucket /\ s = << >>
  \/ /\ 0 <= b.tokens /\ b.tokens <= Capacity * TicksPerToken
     /\ b.lastRefill <= edgeClock
     /\ \A i \in 1..Len(s) :
          TicksPerToken * (Len(s) - i + 1) + b.tokens
            <= TicksPerToken * Capacity + (b.lastRefill - s[i])

BoundHolds(s) ==
  \A i, k \in 1..Len(s) : i <= k =>
    TicksPerToken * (k - i + 1) <= TicksPerToken * Capacity + (s[k] - s[i])

EdgeInv == EdgeType /\ \A t \in Tenants : Account(t) /\ BoundHolds(served[t])

-----------------------------------------------------------------------------
LEMMA Products ==
  /\ Capacity * TicksPerToken \in Nat
  /\ TicksPerToken * Capacity = Capacity * TicksPerToken
  /\ \A n \in Int : TicksPerToken * n \in Int /\ TicksPerToken * (n + 1) = TicksPerToken * n + TicksPerToken
  /\ \A n \in Int : TicksPerSecond * n \in Int
BY EdgeBounds

LEMMA Slack ==
  ASSUME NEW a \in Int, NEW b \in Int, NEW left \in Int, 0 <= left, a + left <= b
  PROVE  a <= b
OBVIOUS

LEMMA Balance ==
  ASSUME NEW spent \in Int, NEW limit \in Int, NEW first \in Int, NEW tokens \in Int,
         NEW lastRefill \in Int, NEW c \in Int, NEW refilled \in Int,
         spent + tokens <= limit + (lastRefill - first),
         refilled <= tokens + (c - lastRefill)
  PROVE  spent + refilled <= limit + (c - first)
OBVIOUS

\* Consume on one bucket, as arithmetic: a bucket b and the requests s served from
\* it, at time c, become b2 and s2.
LEMMA AccountKept ==
  ASSUME NEW s \in Seq(Int), NEW tokens \in Int, NEW lastRefill \in Int, NEW c \in Int,
         0 <= tokens, tokens <= Capacity * TicksPerToken, lastRefill <= c,
         \A i \in 1..Len(s) :
            TicksPerToken * (Len(s) - i + 1) + tokens <= TicksPerToken * Capacity + (lastRefill - s[i]),
         NEW refilled \in Int, refilled <= tokens + (c - lastRefill),
         refilled <= Capacity * TicksPerToken
  PROVE  /\ \A i \in 1..Len(s) :
              TicksPerToken * (Len(s) - i + 1) + refilled <= TicksPerToken * Capacity + (c - s[i])
         /\ \A i \in 1..Len(Append(s, c)) :
              TicksPerToken * (Len(Append(s, c)) - i + 1) + (refilled - TicksPerToken)
                <= TicksPerToken * Capacity + (c - Append(s, c)[i])
<1> DEFINE P(n) == TicksPerToken * n
<1>1. \A n \in Int : P(n) \in Int /\ P(n + 1) = P(n) + TicksPerToken
  BY Products
<1>2. P(Capacity) = Capacity * TicksPerToken /\ P(Capacity) \in Int /\ TicksPerToken \in Int
  BY Products, EdgeBounds
<1>3. P(1) = TicksPerToken
  BY EdgeBounds
<1>4. \A i \in 1..Len(s) : P(Len(s) - i + 1) + tokens <= P(Capacity) + (lastRefill - s[i])
  OBVIOUS
<1>5. Len(s) \in Nat /\ \A i \in 1..Len(s) : s[i] \in Int
  OBVIOUS
<1>6. /\ Len(Append(s, c)) = Len(s) + 1
      /\ Append(s, c)[Len(s) + 1] = c
      /\ \A i \in 1..Len(s) : Append(s, c)[i] = s[i]
  OBVIOUS
<1> HIDE DEF P
<1>7. ASSUME NEW i \in 1..Len(s)
      PROVE  P(Len(s) - i + 1) + refilled <= P(Capacity) + (c - s[i])
  <2>1. P(Len(s) - i + 1) \in Int /\ s[i] \in Int
    BY <1>1, <1>5
  <2>2. P(Len(s) - i + 1) + tokens <= P(Capacity) + (lastRefill - s[i])
    BY <1>4
  <2>3. P(Capacity) \in Int
    BY <1>2
  <2> QED
    BY <2>1, <2>2, <2>3, Balance
<1>8. ASSUME NEW i \in 1..(Len(s) + 1)
      PROVE  P(Len(s) + 1 - i + 1) + (refilled - TicksPerToken) <= P(Capacity) + (c - Append(s, c)[i])
  <2>1. CASE i = Len(s) + 1
    <3>1. Len(s) + 1 - i + 1 = 1
      BY <2>1, <1>5
    <3> QED
      BY <2>1, <3>1, <1>2, <1>3, <1>6
  <2>2. CASE i \in 1..Len(s)
    <3>1. Len(s) + 1 - i + 1 = (Len(s) - i + 1) + 1 /\ Len(s) - i + 1 \in Int
      BY <2>2, <1>5
    <3>2. P(Len(s) + 1 - i + 1) = P(Len(s) - i + 1) + TicksPerToken /\ P(Len(s) - i + 1) \in Int
      BY <3>1, <1>1
    <3>3. Append(s, c)[i] = s[i] /\ s[i] \in Int
      BY <2>2, <1>5, <1>6
    <3> QED
      BY <2>2, <3>2, <3>3, <1>2, <1>7
  <2> QED
    BY <2>1, <2>2, <1>5
<1> QED
  BY <1>6, <1>7, <1>8 DEF P

\* A request served when the account balances keeps the bound with all before it.
LEMMA BoundKept ==
  ASSUME NEW s \in Seq(Int), NEW c \in Int, NEW left \in Int, 0 <= left, BoundHolds(s),
         \A i \in 1..Len(Append(s, c)) :
            TicksPerToken * (Len(Append(s, c)) - i + 1) + left
              <= TicksPerToken * Capacity + (c - Append(s, c)[i])
  PROVE  BoundHolds(Append(s, c))
<1> DEFINE s2 == Append(s, c)
<1>1. /\ s2 \in Seq(Int) /\ Len(s2) = Len(s) + 1 /\ Len(s) \in Nat
      /\ s2[Len(s2)] = c
      /\ \A i \in 1..Len(s) : s2[i] = s[i]
      /\ \A i \in 1..Len(s2) : s2[i] \in Int
  OBVIOUS
<1>2. SUFFICES ASSUME NEW i \in 1..Len(s2), NEW k \in 1..Len(s2), i <= k
               PROVE  TicksPerToken * (k - i + 1) <= TicksPerToken * Capacity + (s2[k] - s2[i])
  BY DEF BoundHolds
<1> HIDE DEF s2
<1>3. CASE k = Len(s2)
  <2>1. TicksPerToken * (k - i + 1) + left <= TicksPerToken * Capacity + (s2[k] - s2[i])
    BY <1>1, <1>3 DEF s2
  <2>2. k - i + 1 \in Int /\ s2[k] - s2[i] \in Int
    BY <1>1
  <2>3. TicksPerToken * (k - i + 1) \in Int /\ TicksPerToken * Capacity + (s2[k] - s2[i]) \in Int
    <3>1. TicksPerToken * (k - i + 1) \in Int
      BY ONLY <2>2, Products, Zenon
    <3>2. TicksPerToken * Capacity \in Int
      BY EdgeBounds
    <3> QED
      BY ONLY <2>2, <3>1, <3>2
  <2> QED
    BY ONLY <2>1, <2>3, left \in Int, 0 <= left, Slack
<1>4. CASE k # Len(s2)
  <2>1. i \in 1..Len(s) /\ k \in 1..Len(s)
    BY <1>1, <1>2, <1>4
  <2>2. s2[i] = s[i] /\ s2[k] = s[k]
    BY <2>1, <1>1
  <2> QED
    BY <2>1, <2>2, <1>2 DEF BoundHolds
<1> QED
  BY <1>3, <1>4

-----------------------------------------------------------------------------
LEMMA NoBearerHeld == Held(NoBearer)
BY Zenon DEF Held, NoBearer, Fields

\* A request keeps its tenant while it moves on.
LEMMA MovedOn ==
  ASSUME NEW f, Held(f), f.pc # "idle", NEW place, NEW seen, NEW until
  PROVE  /\ Held([f EXCEPT !.pc = place])
         /\ Held([f EXCEPT !.cached = seen, !.pc = place])
         /\ Held([f EXCEPT !.pc = place, !.wait = until])
         /\ Held([f EXCEPT !.pc = place, !.cached = seen, !.wait = until])
<1>1. f = [x \in Fields |-> f[x]] /\ f.tenant \in Tenants
  BY DEF Held
<1>2. Held([f EXCEPT !.pc = place])
  BY <1>1, Zenon DEF Held, Fields
<1>3. Held([f EXCEPT !.cached = seen, !.pc = place])
  BY <1>1, Zenon DEF Held, Fields
<1>4. Held([f EXCEPT !.pc = place, !.wait = until])
  BY <1>1, Zenon DEF Held, Fields
<1>5. Held([f EXCEPT !.pc = place, !.cached = seen, !.wait = until])
  BY <1>1, Zenon DEF Held, Fields
<1> QED
  BY <1>2, <1>3, <1>4, <1>5

LEMMA EdgeStarts == EdgeInit => EdgeInv
<1> SUFFICES ASSUME EdgeInit PROVE EdgeInv
  OBVIOUS
<1>1. Held(NoBearer)
  BY NoBearerHeld
<1>4. NoBucket \in [tokens : Int, lastRefill : Int]
  BY DEF NoBucket
<1>2. EdgeType
  BY <1>1, <1>4 DEF EdgeInit, EdgeType, RequestsHeld
<1>3. \A t \in Tenants : Account(t) /\ BoundHolds(served[t])
  BY DEF EdgeInit, Account, BoundHolds
<1> QED
  BY <1>2, <1>3 DEF EdgeInv

\* A step that leaves the buckets alone, and time where it is or later.
LEMMA Elsewhere ==
  ASSUME EdgeInv, UNCHANGED <<buckets, served>>, edgeClock' \in Int, edgeClock <= edgeClock',
         RequestsHeld'
  PROVE  EdgeInv'
<1>1. EdgeType'
  BY DEF EdgeInv, EdgeType
<1>2. ASSUME NEW t \in Tenants PROVE Account(t)' /\ BoundHolds(served[t])'
  <2>1. Account(t) /\ BoundHolds(served[t]) /\ edgeClock \in Int
        /\ buckets[t] \in [tokens : Int, lastRefill : Int]
    BY DEF EdgeInv, EdgeType
  <2>2. Account(t)'
    BY <2>1 DEF Account
  <2> QED
    BY <2>1, <2>2 DEF BoundHolds
<1> QED
  BY <1>1, <1>2 DEF EdgeInv

LEMMA EdgeKept == EdgeInv /\ [EdgeNext]_edgeVars => EdgeInv'
<1> SUFFICES ASSUME EdgeInv, [EdgeNext]_edgeVars PROVE EdgeInv'
  OBVIOUS
<1> USE DEF EdgeInv
<1>1. EdgeType
  OBVIOUS
<1>2. ASSUME NEW h \in EdgeRequests, NEW r, Held(r), SetEdge(h, r) PROVE RequestsHeld'
  BY <1>1, <1>2 DEF SetEdge, EdgeType, RequestsHeld
<1>3. ASSUME NEW h \in EdgeRequests, Reject(h) PROVE RequestsHeld'
  BY <1>2, <1>3, NoBearerHeld DEF Reject
<1>4. ASSUME NEW h \in EdgeRequests PROVE Held(edgeReq[h])
  BY <1>1 DEF EdgeType, RequestsHeld
<1>5. ASSUME RequestsHeld', UNCHANGED <<edgeClock, buckets, served>> PROVE EdgeInv'
  BY <1>1, <1>5, Elsewhere DEF EdgeType
<1>6. ASSUME NEW h \in EdgeRequests, TakeBearer(h) PROVE EdgeInv'
  <2>1. PICK b \in Bearers :
          IF b.kid = "none" THEN Reject(h)
          ELSE SetEdge(h, [NoBearer EXCEPT !.pc = "getKey", !.kid = b.kid, !.valid = b.valid, !.tenant = b.tenant])
    BY <1>6 DEF TakeBearer
  <2>2. NoBearer = [x \in Fields |-> NoBearer[x]] /\ b.tenant \in Tenants
    BY NoBearerHeld DEF Held, Tenants
  <2>3. Held([NoBearer EXCEPT !.pc = "getKey", !.kid = b.kid, !.valid = b.valid, !.tenant = b.tenant])
    BY <2>2, Zenon DEF Held, Fields
  <2>4. RequestsHeld'
    BY <2>1, <2>3, <1>2, <1>3
  <2> QED
    BY <1>5, <1>6, <2>4 DEF TakeBearer
<1>7. ASSUME NEW h \in EdgeRequests, edgeReq[h].pc # "idle", NEW place, NEW seen, NEW until,
             \/ SetEdge(h, [edgeReq[h] EXCEPT !.pc = place])
             \/ SetEdge(h, [edgeReq[h] EXCEPT !.cached = seen, !.pc = place])
             \/ SetEdge(h, [edgeReq[h] EXCEPT !.pc = place, !.wait = until])
             \/ SetEdge(h, [edgeReq[h] EXCEPT !.pc = place, !.cached = seen, !.wait = until])
      PROVE  RequestsHeld'
  BY <1>2, <1>4, <1>7, MovedOn
<1>8. ASSUME NEW h \in EdgeRequests, GetKey(h) PROVE EdgeInv'
  <2>1. edgeReq[h].pc # "idle"
    BY <1>8 DEF GetKey, EdgeAt
  <2>2. RequestsHeld'
    BY <1>8, <1>7, <2>1 DEF GetKey
  <2> QED
    BY <1>5, <1>8, <2>2 DEF GetKey
<1>9. ASSUME NEW h \in EdgeRequests, Refresh(h) PROVE EdgeInv'
  <2>1. edgeReq[h].pc # "idle"
    BY <1>9 DEF Refresh, EdgeAt
  <2>2. RequestsHeld'
    BY <1>3, <1>9, <1>7, <2>1 DEF Refresh
  <2> QED
    BY <1>5, <1>9, <2>2 DEF Refresh
<1>10. ASSUME NEW h \in EdgeRequests, LookupKey(h) PROVE EdgeInv'
  <2>1. edgeReq[h].pc # "idle"
    BY <1>10 DEF LookupKey, EdgeAt
  <2>2. RequestsHeld'
    BY <1>3, <1>10, <1>7, <2>1 DEF LookupKey
  <2> QED
    BY <1>5, <1>10, <2>2 DEF LookupKey
<1>11. ASSUME NEW h \in EdgeRequests, Validate(h) PROVE EdgeInv'
  <2>1. edgeReq[h].pc # "idle"
    BY <1>11 DEF Validate, EdgeAt
  <2>2. RequestsHeld'
    BY <1>3, <1>11, <1>7, <2>1 DEF Validate
  <2> QED
    BY <1>5, <1>11, <2>2 DEF Validate
<1>12. ASSUME NEW h \in EdgeRequests, TooManyRequests(h) PROVE EdgeInv'
  <2>1. edgeReq[h].pc # "idle"
    BY <1>12 DEF TooManyRequests, EdgeAt
  <2>2. RequestsHeld'
    BY <1>12, <1>7, <2>1 DEF TooManyRequests
  <2> QED
    BY <1>5, <1>12, <2>2 DEF TooManyRequests
<1>13. ASSUME NEW h \in EdgeRequests, ComeBack(h) PROVE EdgeInv'
  <2>1. edgeReq[h].pc # "idle"
    BY <1>13 DEF ComeBack, EdgeAt
  <2>2. RequestsHeld'
    BY <1>3, <1>13, <1>7, <2>1 DEF ComeBack
  <2> QED
    BY <1>5, <1>13, <2>2 DEF ComeBack
<1>14. CASE Tick \/ RotateKey
  BY <1>1, <1>14, Elsewhere DEF Tick, RotateKey, EdgeType, RequestsHeld, Held
<1>15. CASE UNCHANGED edgeVars
  BY <1>1, <1>15, Elsewhere DEF edgeVars, EdgeType, RequestsHeld, Held
<1>16. ASSUME NEW h \in EdgeRequests, Consume(h) PROVE EdgeInv'
  <2> DEFINE t == TenantOf(h)
             b == GetBucket(t)
             refilled == Refilled(b)
             admit == refilled >= TicksPerToken
             left == IF admit THEN refilled - TicksPerToken ELSE refilled
             s == served[t]
             s2 == IF admit THEN Append(s, edgeClock) ELSE s
  <2>1. edgeReq[h].pc # "idle"
    BY <1>16 DEF Consume, EdgeAt
  <2>2. t \in Tenants
    BY <2>1, <1>4 DEF TenantOf, Tenants, Held
  <2>3. buckets' = [buckets EXCEPT ![t] = [tokens |-> left, lastRefill |-> edgeClock]]
        /\ served' = [served EXCEPT ![t] = s2] /\ edgeClock' = edgeClock
    BY <1>1, <1>16, <2>2 DEF Consume, EdgeType
  <2>4. RequestsHeld'
    BY <1>3, <1>16, <2>1, <1>7 DEF Consume
  <2>5. Account(t) /\ BoundHolds(s) /\ s \in Seq(Int) /\ edgeClock \in Int
        /\ buckets[t] \in [tokens : Int, lastRefill : Int]
    BY <1>1, <2>2 DEF EdgeType
  <2>6. /\ b.tokens \in Int /\ b.lastRefill \in Int
        /\ 0 <= b.tokens /\ b.tokens <= Capacity * TicksPerToken /\ b.lastRefill <= edgeClock
        /\ \A i \in 1..Len(s) :
             TicksPerToken * (Len(s) - i + 1) + b.tokens <= TicksPerToken * Capacity + (b.lastRefill - s[i])
    <3>1. CASE buckets[t] = NoBucket
      <4>1. b = [tokens |-> Capacity * TicksPerToken, lastRefill |-> edgeClock]
        BY <3>1 DEF GetBucket
      <4>2. s = << >>
        BY <2>5, <3>1 DEF Account, NoBucket
      <4>3. \A i \in 1..Len(s) : FALSE
        BY <4>2
      <4> HIDE DEF b, s
      <4>4. b.tokens = Capacity * TicksPerToken /\ b.lastRefill = edgeClock
        BY <4>1
      <4>5. Capacity * TicksPerToken \in Int /\ 0 <= Capacity * TicksPerToken
        BY Products
      <4>6. /\ b.tokens \in Int /\ b.lastRefill \in Int
            /\ 0 <= b.tokens /\ b.tokens <= Capacity * TicksPerToken /\ b.lastRefill <= edgeClock
        BY <4>4, <4>5, <2>5
      <4> QED
        BY <4>3, <4>6, Zenon
    <3>2. CASE buckets[t] # NoBucket
      BY <3>2, <2>5 DEF Account, GetBucket
    <3> QED
      BY <3>1, <3>2
  <2>7. /\ refilled \in Int /\ 0 <= refilled /\ refilled <= Capacity * TicksPerToken
        /\ refilled <= b.tokens + (edgeClock - b.lastRefill)
    <3> HIDE DEF b
    <3>1. Capacity * TicksPerToken \in Int /\ 0 <= Capacity * TicksPerToken
      BY Products
    <3> QED
      BY <2>5, <2>6, <3>1 DEF Refilled
  <2> HIDE DEF b, refilled, t
  <2>8. /\ \A i \in 1..Len(s) :
             TicksPerToken * (Len(s) - i + 1) + refilled <= TicksPerToken * Capacity + (edgeClock - s[i])
        /\ \A i \in 1..Len(Append(s, edgeClock)) :
             TicksPerToken * (Len(Append(s, edgeClock)) - i + 1) + (refilled - TicksPerToken)
               <= TicksPerToken * Capacity + (edgeClock - Append(s, edgeClock)[i])
    BY <2>5, <2>6, <2>7, AccountKept
  <2>9. /\ left \in Int /\ 0 <= left /\ left <= Capacity * TicksPerToken
        /\ \A i \in 1..Len(s2) :
             TicksPerToken * (Len(s2) - i + 1) + left <= TicksPerToken * Capacity + (edgeClock - s2[i])
    BY <2>7, <2>8, EdgeBounds, Products
  <2> HIDE DEF admit, s
  <2>10. BoundHolds(s2) /\ s2 \in Seq(Int)
    <3>1. CASE admit
      <4>1. s2 = Append(s, edgeClock)
        BY <3>1
      <4> HIDE DEF s2, left
      <4> QED
        <5>1. left \in Int /\ 0 <= left
          BY <2>9
        <5>2. \A i \in 1..Len(Append(s, edgeClock)) :
                TicksPerToken * (Len(Append(s, edgeClock)) - i + 1) + left
                  <= TicksPerToken * Capacity + (edgeClock - Append(s, edgeClock)[i])
          BY <4>1, <2>9, Zenon
        <5>3. BoundHolds(Append(s, edgeClock))
          BY <5>1, <5>2, <2>5, BoundKept
        <5> QED
          BY <4>1, <5>3, <2>5
    <3>2. CASE ~admit
      BY <3>2, <2>5
    <3> QED
      BY <3>1, <3>2
  <2> HIDE DEF left, s2
  <2>11. EdgeType'
    BY <1>1, <2>2, <2>3, <2>4, <2>9, <2>10 DEF EdgeType
  <2>12. ASSUME NEW u \in Tenants PROVE Account(u)' /\ BoundHolds(served[u])'
    <3>1. CASE u = t
      <4>1. buckets'[u] = [tokens |-> left, lastRefill |-> edgeClock] /\ served'[u] = s2
        BY <1>1, <2>2, <2>3, <3>1 DEF EdgeType
      <4>2. Account(u)'
        BY <4>1, <2>3, <2>5, <2>9 DEF Account
      <4>3. BoundHolds(served[u])'
        BY <4>1, <2>10 DEF BoundHolds
      <4> QED
        BY <4>2, <4>3
    <3>2. CASE u # t
      <4>1. buckets'[u] = buckets[u] /\ served'[u] = served[u]
        BY <1>1, <2>2, <2>3, <3>2 DEF EdgeType
      <4>2. Account(u) /\ BoundHolds(served[u])
        OBVIOUS
      <4> QED
        BY <4>1, <4>2, <2>3 DEF Account, BoundHolds
    <3> QED
      BY <3>1, <3>2
  <2> QED
    BY <2>11, <2>12
<1> QED
  BY <1>6, <1>8, <1>9, <1>10, <1>11, <1>12, <1>13, <1>14, <1>15, <1>16 DEF EdgeNext, EdgeStep

\* The token bucket of every tenant keeps its rate: over any stretch of requests
\* served, however requests interleave and the clock advances, no more than the
\* capacity and what the time between brings (Consume and GetBucket).
THEOREM RateLimitHolds == EdgeSpec => []AdmittedBounded
<1>1. EdgeInv => AdmittedBounded
  BY DEF EdgeInv, BoundHolds, AdmittedBounded
<1> QED
  BY EdgeStarts, EdgeKept, <1>1, PTL DEF EdgeSpec
=============================================================================
