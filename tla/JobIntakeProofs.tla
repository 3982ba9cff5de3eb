--------------------------- MODULE JobIntakeProofs ---------------------------
(***************************************************************************)
(* Proofs about JobIntake, for any number of handlers, requests, paths,    *)
(* keys and job ids, and any number of failed statements and aborts.       *)
(***************************************************************************)
EXTENDS JobIntake, TLAPS

Ended == {"succeeded", "jobs_exhausted"}

-----------------------------------------------------------------------------
(* Type correctness.                                                       *)

\* A handler that is inside a request has one.
Busy == \A h \in Handlers : handler[h].pc # "idle" => handler[h].req \in Requests

\* A handler that has to replay a key finds it, one that has to insert has an id,
\* and the engine projects jobs that exist.
Frames ==
  /\ \A h \in Handlers : handler[h].pc = "replay" => idem[Scope(handler[h].req)] # None
  /\ \A h \in Handlers : handler[h].pc \in {"insert_job", "insert_read"} =>
       handler[h].job \in JobIds
  /\ \A i \in settled : jobs[i] # None

TypeInv == TypeOK /\ Busy /\ Frames

LEMMA RequestFields ==
  ASSUME NEW req \in Requests
  PROVE  /\ req \in Request
         /\ Scope(req) \in Paths \X Keys
         /\ Fingerprint(req) \in Bodies
         /\ Attempts(req) \in Nat
  <1>1. req \in Request
    BY IntakeAssumption
  <1> QED
    BY <1>1 DEF Request, Scope, Fingerprint, Attempts

\* An answer leaves every handler well typed.
LEMMA AnswerType ==
  ASSUME TypeOK, Busy, NEW h \in Handlers, handler[h].pc # "idle",
         NEW code \in {202, 400, 409, 500}, NEW job \in JobIds \cup {None},
         NEW replayed \in {"true", "false"}, Answer(h, code, job, replayed)
  PROVE  /\ handler' \in [Handlers ->
              [pc : {"idle", "reserve", "refuse", "replay", "insert_job", "insert_read"},
               req : Requests \cup {None}, job : JobIds \cup {None}]]
         /\ answers' \subseteq [req : Requests, code : {202, 400, 409, 500},
                                job : JobIds \cup {None}, replayed : {"true", "false"}]
         /\ handler' = [handler EXCEPT ![h] = Idle]
         /\ Busy'
  <1>1. handler[h].req \in Requests
    BY DEF Busy
  <1>2. Idle \in [pc : {"idle", "reserve", "refuse", "replay", "insert_job", "insert_read"},
                  req : Requests \cup {None}, job : JobIds \cup {None}]
    BY DEF Idle
  <1>3. handler' = [handler EXCEPT ![h] = Idle]
    BY DEF Answer
  <1>4. Busy'
    BY <1>3 DEF Busy, Idle, TypeOK
  <1> QED
    BY <1>1, <1>2, <1>3, <1>4 DEF Answer, TypeOK

\* A handler that moves on inside its request stays well typed.
LEMMA GotoType ==
  ASSUME TypeOK, Busy, NEW h \in Handlers, handler[h].pc # "idle",
         NEW pc \in {"replay", "insert_job", "insert_read"},
         NEW job \in JobIds \cup {None}, Goto(h, pc, job)
  PROVE  /\ handler' \in [Handlers ->
              [pc : {"idle", "reserve", "refuse", "replay", "insert_job", "insert_read"},
               req : Requests \cup {None}, job : JobIds \cup {None}]]
         /\ handler'[h] = [pc |-> pc, req |-> handler[h].req, job |-> job]
         /\ \A g \in Handlers : g # h => handler'[g] = handler[g]
         /\ Busy'
  <1>1. handler[h].req \in Requests
    BY DEF Busy
  <1>2. /\ handler'[h] = [pc |-> pc, req |-> handler[h].req, job |-> job]
        /\ \A g \in Handlers : g # h => handler'[g] = handler[g]
    BY DEF Goto, TypeOK
  <1>3. Busy'
    BY <1>1, <1>2 DEF Busy
  <1> QED
    BY <1>1, <1>2, <1>3 DEF Goto, TypeOK

LEMMA FailedType ==
  ASSUME TypeInv, NEW h \in Handlers, handler[h].pc # "idle", Failed(h),
         UNCHANGED <<idem, jobs, read, settled>>
  PROVE  TypeInv'
  <1>1. Answer(h, 500, None, "false")
    BY DEF Failed
  <1>2. handler' = [handler EXCEPT ![h] = Idle] /\ Busy'
    BY <1>1, AnswerType DEF TypeInv
  <1>3. faults' \in 0..MaxFaults
    BY IntakeAssumption DEF Failed, Fault, TypeInv, TypeOK
  <1>4. TypeOK'
    BY <1>1, <1>3, AnswerType DEF TypeInv, TypeOK
  <1>5. Frames'
    BY <1>2 DEF TypeInv, Frames, TypeOK, Idle
  <1> QED
    BY <1>2, <1>4, <1>5 DEF TypeInv

LEMMA TypeInitially == Init => TypeInv
  BY IntakeAssumption DEF Init, TypeInv, TypeOK, Busy, Frames, Idle

LEMMA TypeStep ==
  ASSUME TypeInv, [Next]_vars
  PROVE  TypeInv'
  <1> USE DEF TypeInv
  <1>1. ASSUME NEW h \in Handlers, Receive(h) PROVE TypeInv'
    BY <1>1 DEF Receive, TypeOK, Busy, Frames
  <1>2. ASSUME NEW h \in Handlers, Refuse(h) PROVE TypeInv'
    <2>1. handler' = [handler EXCEPT ![h] = Idle] /\ Busy'
      BY <1>2, AnswerType DEF Refuse
    <2>2. TypeOK'
      BY <1>2, AnswerType DEF Refuse, TypeOK
    <2> QED
      BY <1>2, <2>1, <2>2 DEF Refuse, Frames, TypeOK, Idle
  <1>3. ASSUME NEW h \in Handlers, Reserve(h) PROVE TypeInv'
    <2> DEFINE req == handler[h].req
    <2>1. handler[h].pc # "idle" /\ req \in Requests
      BY <1>3 DEF Reserve, Busy
    <2>2. CASE Failed(h) /\ UNCHANGED idem
      BY <1>3, <2>1, <2>2, FailedType DEF Reserve
    <2>3. ASSUME NEW i \in JobIds,
                 idem' = [idem EXCEPT ![Scope(req)] =
                            [print |-> Fingerprint(req), job |-> i,
                             maxAttempts |-> Attempts(req)]],
                 Goto(h, "insert_job", i),
                 UNCHANGED <<answers, faults, jobs, read, settled>>
          PROVE  TypeInv'
      <3>1. [print |-> Fingerprint(req), job |-> i, maxAttempts |-> Attempts(req)] \in IdemRow
        BY <2>1, RequestFields DEF IdemRow
      <3>2. \A s \in Paths \X Keys : idem[s] # None => idem'[s] # None
        BY <2>1, <2>3, <3>1, RequestFields, IntakeAssumption DEF TypeOK
      <3>3. idem' \in [Paths \X Keys -> IdemRow \cup {None}]
        BY <2>3, <3>1 DEF TypeOK
      <3>4. TypeOK' /\ Busy'
        BY <2>1, <2>3, <3>3, GotoType DEF TypeOK
      <3>5. Frames'
        <4>0. /\ handler'[h] = [pc |-> "insert_job", req |-> handler[h].req, job |-> i]
              /\ \A g \in Handlers : g # h => handler'[g] = handler[g]
          BY <2>3 DEF Goto, TypeOK
        <4>1. ASSUME NEW g \in Handlers, handler'[g].pc = "replay"
              PROVE  idem'[Scope(handler'[g].req)] # None
          <5>1. g # h /\ handler'[g] = handler[g]
            BY <4>0, <4>1
          <5>2. handler[g].req \in Requests /\ idem[Scope(handler[g].req)] # None
            BY <4>1, <5>1 DEF Busy, Frames
          <5> QED
            BY <3>2, <5>1, <5>2, RequestFields
        <4>2. \A g \in Handlers : handler'[g].pc \in {"insert_job", "insert_read"} =>
                handler'[g].job \in JobIds
          BY <4>0 DEF Frames
        <4> QED
          BY <2>3, <4>1, <4>2 DEF Frames, Scope
      <3> QED
        BY <3>4, <3>5
    <2>4. CASE ~KeyFree(req) /\ Goto(h, "replay", None) /\ UNCHANGED <<idem, answers, faults>>
      <3>1. TypeOK' /\ Busy'
        BY <1>3, <2>1, <2>4, GotoType DEF Reserve, TypeOK
      <3>2. Frames'
        <4>0. /\ handler'[h] = [pc |-> "replay", req |-> handler[h].req, job |-> None]
              /\ \A g \in Handlers : g # h => handler'[g] = handler[g]
          BY <2>4 DEF Goto, TypeOK
        <4>1. ASSUME NEW g \in Handlers, handler'[g].pc = "replay"
              PROVE  idem[Scope(handler'[g].req)] # None
          <5>1. handler'[g].req = handler[g].req /\ (g # h => handler'[g] = handler[g])
            BY <4>0
          <5> QED
            BY <2>4, <4>1, <5>1 DEF Frames, KeyFree
        <4>2. \A g \in Handlers : handler'[g].pc \in {"insert_job", "insert_read"} =>
                handler'[g].job \in JobIds
          BY <4>0 DEF Frames
        <4> QED
          BY <1>3, <2>4, <4>1, <4>2 DEF Reserve, Frames, Scope
      <3> QED
        BY <3>1, <3>2
    <2> QED
      BY <1>3, <2>2, <2>3, <2>4 DEF Reserve
  <1>4. ASSUME NEW h \in Handlers, Replay(h) PROVE TypeInv'
    <2> DEFINE stored == idem[Scope(handler[h].req)]
    <2>1. handler[h].pc # "idle" /\ stored \in IdemRow
      BY <1>4, RequestFields DEF Replay, Busy, Frames, TypeOK
    <2>2. CASE Failed(h)
      BY <1>4, <2>1, <2>2, FailedType DEF Replay
    <2>3. ASSUME NEW code \in {202, 409}, NEW b \in {"true", "false"},
                 Answer(h, code, stored.job, b), UNCHANGED faults
          PROVE  TypeInv'
      <3>1. stored.job \in JobIds
        BY <2>1 DEF IdemRow
      <3>2. handler' = [handler EXCEPT ![h] = Idle] /\ Busy'
        BY <2>1, <2>3, <3>1, AnswerType
      <3>3. TypeOK'
        BY <1>4, <2>1, <2>3, <3>1, AnswerType DEF Replay, TypeOK
      <3> QED
        BY <1>4, <3>2, <3>3 DEF Replay, Frames, TypeOK, Idle
    <2> QED
      BY <1>4, <2>2, <2>3 DEF Replay
  <1>5. ASSUME NEW h \in Handlers, InsertJob(h) PROVE TypeInv'
    <2> DEFINE req == handler[h].req
               row == [path |-> req.path, key |-> req.key, body |-> req.body,
                       maxAttempts |-> Attempts(req), state |-> "queued"]
    <2>1. handler[h].pc # "idle" /\ req \in Requests /\ handler[h].job \in JobIds
      BY <1>5 DEF InsertJob, Busy, Frames
    <2>2. CASE Failed(h) /\ UNCHANGED jobs
      BY <1>5, <2>1, <2>2, FailedType DEF InsertJob
    <2>3. CASE Answer(h, 500, None, "false") /\ UNCHANGED <<jobs, faults>>
      <3>1. handler' = [handler EXCEPT ![h] = Idle] /\ Busy'
        BY <2>1, <2>3, AnswerType
      <3>2. TypeOK'
        BY <1>5, <2>1, <2>3, AnswerType DEF InsertJob, TypeOK
      <3>3. Frames'
        BY <1>5, <2>3, <3>1 DEF InsertJob, Frames, TypeOK, Idle
      <3> QED
        BY <3>1, <3>2, <3>3
    <2>4. CASE /\ jobs' = [jobs EXCEPT ![handler[h].job] = row]
               /\ Goto(h, "insert_read", handler[h].job)
               /\ UNCHANGED <<answers, faults>>
      <3>1. row \in JobRow
        BY <2>1, RequestFields DEF JobRow, Request
      <3>2. jobs' \in [JobIds -> JobRow \cup {None}]
        BY <2>4, <3>1 DEF TypeOK
      <3>3. \A i \in JobIds : jobs[i] # None => jobs'[i] # None
        BY <2>1, <2>4, <3>1, IntakeAssumption DEF TypeOK
      <3>4. TypeOK' /\ Busy'
        BY <1>5, <2>1, <2>4, <3>2, GotoType DEF InsertJob, TypeOK
      <3>5. Frames'
        <4>1. /\ handler'[h] = [pc |-> "insert_read", req |-> handler[h].req,
                               job |-> handler[h].job]
              /\ \A g \in Handlers : g # h => handler'[g] = handler[g]
          BY <2>4 DEF Goto, TypeOK
        <4>2. \A k \in settled : jobs'[k] # None
          BY <3>3 DEF Frames, TypeOK
        <4>3. UNCHANGED <<idem, settled>>
          BY <1>5 DEF InsertJob
        <4> QED
          BY <2>1, <4>1, <4>2, <4>3 DEF Frames, Scope
      <3> QED
        BY <3>4, <3>5
    <2> QED
      BY <1>5, <2>2, <2>3, <2>4 DEF InsertJob
  <1>6. ASSUME NEW h \in Handlers, InsertRead(h) PROVE TypeInv'
    <2>1. handler[h].pc # "idle" /\ handler[h].job \in JobIds
      BY <1>6 DEF InsertRead, Frames
    <2>2. CASE Failed(h) /\ UNCHANGED read
      BY <1>6, <2>1, <2>2, FailedType DEF InsertRead
    <2>3. ASSUME NEW code \in {202, 500}, NEW job \in JobIds \cup {None},
                 Answer(h, code, job, "false"), UNCHANGED faults,
                 \/ read' = [read EXCEPT ![handler[h].job] = "queued"]
                 \/ UNCHANGED read
          PROVE  TypeInv'
      <3>1. handler' = [handler EXCEPT ![h] = Idle] /\ Busy'
        BY <2>1, <2>3, AnswerType
      <3>2. TypeOK'
        BY <1>6, <2>1, <2>3, AnswerType DEF InsertRead, TypeOK
      <3> QED
        BY <1>6, <3>1, <3>2 DEF InsertRead, Frames, TypeOK, Idle
    <2> QED
      BY <1>6, <2>1, <2>2, <2>3 DEF InsertRead
  <1>7. ASSUME NEW h \in Handlers, Abort(h) PROVE TypeInv'
    <2>1. Idle \in [pc : {"idle", "reserve", "refuse", "replay", "insert_job", "insert_read"},
                    req : Requests \cup {None}, job : JobIds \cup {None}]
      BY DEF Idle
    <2>2. faults' \in 0..MaxFaults
      BY <1>7, IntakeAssumption DEF Abort, Fault, TypeOK
    <2>3. TypeOK'
      BY <1>7, <2>1, <2>2 DEF Abort, TypeOK
    <2> QED
      BY <1>7, <2>3 DEF Abort, TypeOK, Busy, Frames, Idle
  <1>8. ASSUME NEW i \in JobIds, Finalise(i) PROVE TypeInv'
    <2>1. PICK s \in Ended :
            jobs' = [jobs EXCEPT ![i] =
                       [path |-> @.path, key |-> @.key, body |-> @.body,
                        maxAttempts |-> @.maxAttempts, state |-> s]]
      BY <1>8 DEF Finalise, Ended
    <2>2. jobs[i] \in JobRow
      BY <1>8 DEF Finalise, TypeOK
    <2>3. jobs'[i] \in JobRow /\ \A k \in JobIds : k # i => jobs'[k] = jobs[k]
      BY <2>1, <2>2 DEF JobRow, TypeOK, Ended
    <2>4. jobs' \in [JobIds -> JobRow \cup {None}]
      BY <2>1, <2>3 DEF TypeOK
    <2>5. TypeOK'
      BY <1>8, <2>4 DEF Finalise, TypeOK
    <2>6. \A k \in settled' : jobs'[k] # None
      BY <1>8, <2>3, IntakeAssumption DEF Finalise, Frames, TypeOK
    <2> QED
      BY <1>8, <2>5, <2>6 DEF Finalise, Busy, Frames
  <1>9. ASSUME NEW i \in JobIds, Project(i) PROVE TypeInv'
    <2>1. jobs[i] \in JobRow
      BY <1>9 DEF Project, Frames, TypeOK
    <2>2. jobs[i].state \in {"queued", "succeeded", "jobs_exhausted"}
      BY <2>1 DEF JobRow
    <2>3. faults' \in 0..MaxFaults
      BY <1>9, IntakeAssumption DEF Project, Fault, TypeOK
    <2>4. TypeOK'
      BY <1>9, <2>2, <2>3 DEF Project, TypeOK
    <2> QED
      BY <1>9, <2>4 DEF Project, Busy, Frames
  <1>10. CASE UNCHANGED vars
    BY <1>10 DEF vars, TypeOK, Busy, Frames
  <1> QED
    BY <1>1, <1>2, <1>3, <1>4, <1>5, <1>6, <1>7, <1>8, <1>9, <1>10 DEF Next

\* The tables, the handlers' locals and the answers keep their types.
THEOREM IntakeTypeCorrect == Spec => []TypeOK
  <1>1. Spec => []TypeInv
    BY TypeInitially, TypeStep, PTL DEF Spec
  <1> QED
    BY <1>1, PTL DEF TypeInv

-----------------------------------------------------------------------------
(* What a key stands for.                                                  *)

\* The key of req is reserved, for job i and req's own payload.
ReservedFor(req, i) ==
  /\ idem[Scope(req)] # None
  /\ idem[Scope(req)].job = i
  /\ idem[Scope(req)].print = Fingerprint(req)

\* No two keys name one job.
KeysNameOneJob ==
  \A s, t \in Paths \X Keys :
    idem[s] # None /\ idem[t] # None /\ idem[s].job = idem[t].job => s = t

\* A handler that still inserts holds the id that the key of its request names.
InsertersHoldKey ==
  \A h \in Handlers : handler[h].pc \in {"insert_job", "insert_read"} =>
    /\ ReservedFor(handler[h].req, handler[h].job)
    /\ idem[Scope(handler[h].req)].maxAttempts = Attempts(handler[h].req)

\* A job whose read row is still to come exists.
JobBeforeRead ==
  \A h \in Handlers : handler[h].pc = "insert_read" => jobs[handler[h].job] # None

\* A client that was accepted was told of the job its key names.
AcceptsFollowKeys ==
  \A a \in answers : a.code = 202 => ReservedFor(a.req, a.job)

\* The engine projects the end of a job once, and only of a job that ended.
ProjectionsPending ==
  \A i \in JobIds :
    /\ i \in settled => jobs[i].state \in Ended /\ read[i] \notin Ended
    /\ read[i] \in Ended => jobs[i] # None /\ jobs[i].state \in Ended

\* The strengthening of JobsAreReserved, AcceptedAlike, FirstAcceptIsDurable and
\* ReadNeverRewinds that every step preserves.
IntakeInv ==
  /\ KeysNameOneJob
  /\ InsertersHoldKey
  /\ JobsAreReserved
  /\ JobBeforeRead
  /\ AcceptsFollowKeys
  /\ FirstAcceptIsDurable
  /\ ProjectionsPending

\* No step takes back a reserved key, a job or a read row.
LEMMA RowsStay ==
  ASSUME TypeInv, [Next]_vars
  PROVE  /\ \A s \in Paths \X Keys : idem[s] # None => idem'[s] = idem[s]
         /\ \A i \in JobIds : jobs[i] # None => jobs'[i] # None
         /\ \A i \in JobIds : read[i] # "absent" => read'[i] # "absent"
  <1> USE DEF TypeInv
  <1>1. \A s \in Paths \X Keys : idem[s] # None => idem'[s] = idem[s]
    <2>1. ASSUME NEW h \in Handlers, Reserve(h)
          PROVE  \A s \in Paths \X Keys : idem[s] # None => idem'[s] = idem[s]
      BY <2>1 DEF Reserve, KeyFree, TypeOK
    <2>2. \/ \E h \in Handlers : Reserve(h)
          \/ UNCHANGED idem
      BY DEF Next, vars, Receive, Refuse, Replay, InsertJob, InsertRead, Abort, Finalise, Project
    <2> QED
      BY <2>1, <2>2
  <1>2. TypeInv'
    BY TypeStep
  <1>3. \A i \in JobIds : jobs[i] # None => jobs'[i] # None
    <2>1. ASSUME NEW h \in Handlers, InsertJob(h), NEW i \in JobIds, jobs[i] # None
          PROVE  jobs'[i] # None
      <3>1. handler[h].job \in JobIds /\ handler[h].req \in Requests
        BY <2>1 DEF InsertJob, Frames, Busy
      <3> DEFINE row == [path |-> handler[h].req.path, key |-> handler[h].req.key,
                         body |-> handler[h].req.body,
                         maxAttempts |-> Attempts(handler[h].req), state |-> "queued"]
      <3>2. row \in JobRow /\ row # None
        BY <3>1, RequestFields, IntakeAssumption DEF JobRow, Request
      <3>3. UNCHANGED jobs \/ jobs' = [jobs EXCEPT ![handler[h].job] = row]
        BY <2>1 DEF InsertJob
      <3> HIDE DEF row
      <3> QED
        BY <2>1, <3>1, <3>2, <3>3 DEF TypeOK
    <2>2. ASSUME NEW i \in JobIds, Finalise(i), NEW k \in JobIds, jobs[k] # None
          PROVE  jobs'[k] # None
      <3>1. i \in settled'
        BY <2>2 DEF Finalise
      <3>2. jobs'[i] # None
        BY <1>2, <3>1 DEF Frames
      <3> QED
        BY <2>2, <3>2 DEF Finalise, TypeOK
    <2>3. \/ \E h \in Handlers : InsertJob(h)
          \/ \E i \in JobIds : Finalise(i)
          \/ UNCHANGED jobs
      BY DEF Next, vars, Receive, Refuse, Reserve, Replay, InsertRead, Abort, Project
    <2> QED
      BY <2>1, <2>2, <2>3
  <1>4. \A i \in JobIds : read[i] # "absent" => read'[i] # "absent"
    <2>1. ASSUME NEW h \in Handlers, InsertRead(h), NEW i \in JobIds, read[i] # "absent"
          PROVE  read'[i] # "absent"
      BY <2>1 DEF InsertRead, TypeOK
    <2>2. ASSUME NEW i \in JobIds, Project(i), NEW k \in JobIds, read[k] # "absent"
          PROVE  read'[k] # "absent"
      <3>1. jobs[i] \in JobRow
        BY <2>2 DEF Project, Frames, TypeOK
      <3> QED
        BY <2>2, <3>1 DEF Project, TypeOK, JobRow
    <2>3. \/ \E h \in Handlers : InsertRead(h)
          \/ \E i \in JobIds : Project(i)
          \/ UNCHANGED read
      BY DEF Next, vars, Receive, Refuse, Reserve, Replay, InsertJob, Abort, Finalise
    <2> QED
      BY <2>1, <2>2, <2>3
  <1> QED
    BY <1>1, <1>3, <1>4

\* What a key is reserved for it stays reserved for.
LEMMA ReservationsStay ==
  ASSUME TypeInv, [Next]_vars, NEW req \in Requests, NEW i, ReservedFor(req, i)
  PROVE  /\ idem'[Scope(req)] = idem[Scope(req)]
         /\ idem'[Scope(req)] # None
         /\ idem'[Scope(req)].job = i
         /\ idem'[Scope(req)].print = Fingerprint(req)
  <1>1. idem'[Scope(req)] = idem[Scope(req)]
    BY RowsStay, RequestFields DEF ReservedFor
  <1> QED
    BY <1>1 DEF ReservedFor

\* Where a handler that has to insert came from.
LEMMA InserterSteps ==
  ASSUME TypeInv, [Next]_vars, NEW h \in Handlers,
         handler'[h].pc \in {"insert_job", "insert_read"}
  PROVE  \/ handler'[h] = handler[h]
         \/ /\ Reserve(h)
            /\ handler'[h].pc = "insert_job"
            /\ handler'[h].req = handler[h].req
            /\ idem'[Scope(handler[h].req)] =
                 [print |-> Fingerprint(handler[h].req), job |-> handler'[h].job,
                  maxAttempts |-> Attempts(handler[h].req)]
         \/ /\ handler[h].pc = "insert_job"
            /\ handler'[h].pc = "insert_read"
            /\ handler'[h].req = handler[h].req
            /\ handler'[h].job = handler[h].job
            /\ jobs'[handler[h].job] # None
  <1> USE DEF TypeInv
  <1> DEFINE Goal == \/ handler'[h] = handler[h]
         \/ /\ Reserve(h)
            /\ handler'[h].pc = "insert_job"
            /\ handler'[h].req = handler[h].req
            /\ idem'[Scope(handler[h].req)] =
                 [print |-> Fingerprint(handler[h].req), job |-> handler'[h].job,
                  maxAttempts |-> Attempts(handler[h].req)]
         \/ /\ handler[h].pc = "insert_job"
            /\ handler'[h].pc = "insert_read"
            /\ handler'[h].req = handler[h].req
            /\ handler'[h].job = handler[h].job
            /\ jobs'[handler[h].job] # None
  <1>1. ASSUME NEW g \in Handlers, handler' = [handler EXCEPT ![g] = Idle] PROVE Goal
    BY <1>1 DEF TypeOK, Idle
  <1>2. ASSUME NEW g \in Handlers, Receive(g) PROVE Goal
    BY <1>2 DEF Receive, TypeOK
  <1>3. ASSUME NEW g \in Handlers, Reserve(g) PROVE Goal
    <2>1. CASE handler' = [handler EXCEPT ![g] = Idle]
      BY <1>1, <2>1
    <2>2. CASE Goto(g, "replay", None)
      BY <2>2 DEF Goto, TypeOK
    <2>3. ASSUME NEW i \in JobIds, Goto(g, "insert_job", i),
                 idem' = [idem EXCEPT ![Scope(handler[g].req)] =
                            [print |-> Fingerprint(handler[g].req), job |-> i,
                             maxAttempts |-> Attempts(handler[g].req)]]
          PROVE  Goal
      <3>1. Scope(handler[g].req) \in Paths \X Keys
        BY <1>3, RequestFields DEF Reserve, Busy
      <3>2. idem'[Scope(handler[g].req)] =
              [print |-> Fingerprint(handler[g].req), job |-> i,
               maxAttempts |-> Attempts(handler[g].req)]
        BY <2>3, <3>1 DEF TypeOK
      <3>3. /\ handler'[g] = [pc |-> "insert_job", req |-> handler[g].req, job |-> i]
            /\ g # h => handler'[h] = handler[h]
        BY <2>3 DEF Goto, TypeOK
      <3> QED
        BY <1>3, <3>2, <3>3
    <2> QED
      BY <1>3, <2>1, <2>2, <2>3 DEF Reserve, Failed, Answer
  <1>4. ASSUME NEW g \in Handlers, InsertJob(g) PROVE Goal
    <2>1. CASE handler' = [handler EXCEPT ![g] = Idle]
      BY <1>1, <2>1
    <2> DEFINE row == [path |-> handler[g].req.path, key |-> handler[g].req.key,
                       body |-> handler[g].req.body,
                       maxAttempts |-> Attempts(handler[g].req), state |-> "queued"]
    <2>2. CASE /\ jobs' = [jobs EXCEPT ![handler[g].job] = row]
               /\ Goto(g, "insert_read", handler[g].job)
      <3>1. handler[g].job \in JobIds /\ handler[g].req \in Requests
        BY <1>4 DEF InsertJob, Frames, Busy
      <3>2. row \in JobRow /\ row # None
        BY <3>1, RequestFields, IntakeAssumption DEF JobRow, Request
      <3>3. jobs'[handler[g].job] = row
        BY <2>2, <3>1 DEF TypeOK
      <3>4. /\ handler'[g] = [pc |-> "insert_read", req |-> handler[g].req,
                              job |-> handler[g].job]
            /\ g # h => handler'[h] = handler[h]
        BY <2>2 DEF Goto, TypeOK
      <3>5. handler[g].pc = "insert_job"
        BY <1>4 DEF InsertJob
      <3> HIDE DEF row
      <3> QED
        BY <3>2, <3>3, <3>4, <3>5
    <2> QED
      BY <1>4, <2>1, <2>2 DEF InsertJob, Failed, Answer
  <1>5. \/ \E g \in Handlers : handler' = [handler EXCEPT ![g] = Idle]
        \/ \E g \in Handlers : Receive(g) \/ Reserve(g) \/ InsertJob(g)
        \/ UNCHANGED handler
    BY DEF Next, vars, Refuse, Replay, InsertRead, Abort, Finalise, Project, Failed, Answer
  <1>6. CASE UNCHANGED handler
    BY <1>6
  <1> QED
    BY <1>1, <1>2, <1>3, <1>4, <1>5, <1>6

\* Where an acceptance comes from.
LEMMA AcceptSteps ==
  ASSUME TypeInv, [Next]_vars, NEW a \in answers', a \notin answers, a.code = 202
  PROVE  \E h \in Handlers :
           /\ a.req = handler[h].req
           /\ \/ /\ a.replayed = "true"
                 /\ a.req \in Requests
                 /\ ReservedFor(a.req, a.job)
              \/ /\ handler[h].pc = "insert_read"
                 /\ a.job = handler[h].job
                 /\ read'[a.job] # "absent"
  <1> USE DEF TypeInv
  <1>1. ASSUME NEW h \in Handlers, Replay(h)
        PROVE  /\ a.req = handler[h].req
               /\ a.replayed = "true"
               /\ a.req \in Requests
               /\ ReservedFor(a.req, a.job)
    <2> DEFINE stored == idem[Scope(handler[h].req)]
    <2>1. /\ Answer(h, 202, stored.job, "true")
          /\ stored.print = Fingerprint(handler[h].req)
      BY <1>1 DEF Replay, Answer, Failed
    <2>2. a = [req |-> handler[h].req, code |-> 202, job |-> stored.job, replayed |-> "true"]
      BY <2>1 DEF Answer
    <2>3. stored # None /\ handler[h].req \in Requests
      BY <1>1 DEF Replay, Frames, Busy
    <2> QED
      BY <2>1, <2>2, <2>3 DEF ReservedFor
  <1>2. ASSUME NEW h \in Handlers, InsertRead(h)
        PROVE  /\ a.req = handler[h].req
               /\ handler[h].pc = "insert_read"
               /\ a.job = handler[h].job
               /\ read'[a.job] # "absent"
    <2>1. /\ Answer(h, 202, handler[h].job, "false")
          /\ read' = [read EXCEPT ![handler[h].job] = "queued"]
          /\ handler[h].pc = "insert_read"
      BY <1>2 DEF InsertRead, Answer, Failed
    <2>2. a = [req |-> handler[h].req, code |-> 202, job |-> handler[h].job,
               replayed |-> "false"]
      BY <2>1 DEF Answer
    <2>3. handler[h].job \in JobIds
      BY <2>1 DEF Frames
    <2>4. read'[handler[h].job] = "queued"
      BY <2>1, <2>3 DEF TypeOK
    <2> QED
      BY <2>1, <2>2, <2>4
  <1>3. ASSUME NEW h \in Handlers, NEW code \in {400, 500}, Answer(h, code, None, "false")
        PROVE  FALSE
    BY <1>3 DEF Answer
  <1>4. ASSUME NEW h \in Handlers, Refuse(h) \/ Reserve(h) \/ InsertJob(h)
        PROVE  FALSE
    <2>1. \/ \E code \in {400, 500} : Answer(h, code, None, "false")
          \/ UNCHANGED answers
      BY <1>4 DEF Refuse, Reserve, InsertJob, Failed
    <2> QED
      BY <1>3, <2>1
  <1>5. \/ \E h \in Handlers : \/ Refuse(h) \/ Reserve(h) \/ InsertJob(h)
                               \/ Replay(h) \/ InsertRead(h)
        \/ UNCHANGED answers
    BY DEF Next, vars, Receive, Abort, Finalise, Project
  <1> QED
    BY <1>1, <1>2, <1>4, <1>5

-----------------------------------------------------------------------------
(* Every step preserves the strengthening, conjunct by conjunct.           *)

LEMMA IntakeInitially == Init => IntakeInv
  BY DEF Init, IntakeInv, KeysNameOneJob, InsertersHoldKey, JobsAreReserved, JobBeforeRead,
         AcceptsFollowKeys, FirstAcceptIsDurable, ProjectionsPending, Ended, Idle

LEMMA KeysStep ==
  ASSUME TypeInv, KeysNameOneJob, [Next]_vars
  PROVE  KeysNameOneJob'
  <1> USE DEF TypeInv
  <1>1. CASE UNCHANGED idem
    BY <1>1 DEF KeysNameOneJob
  <1>2. ASSUME NEW h \in Handlers, NEW i \in JobIds \ UsedIds,
               handler[h].pc = "reserve",
               idem' = [idem EXCEPT ![Scope(handler[h].req)] =
                          [print |-> Fingerprint(handler[h].req), job |-> i,
                           maxAttempts |-> Attempts(handler[h].req)]]
        PROVE  KeysNameOneJob'
    <2> DEFINE key == Scope(handler[h].req)
    <2>1. key \in Paths \X Keys
      BY <1>2, RequestFields DEF Busy
    <2>2. \A t \in Paths \X Keys : idem[t] # None => idem[t].job # i
      BY <1>2 DEF UsedIds
    <2>3. idem'[key].job = i /\ \A t \in Paths \X Keys : t # key => idem'[t] = idem[t]
      BY <1>2, <2>1 DEF TypeOK
    <2> HIDE DEF key
    <2> QED
      BY <2>1, <2>2, <2>3 DEF KeysNameOneJob
  <1>3. \/ UNCHANGED idem
        \/ \E h \in Handlers : Reserve(h)
    BY DEF Next, vars, Receive, Refuse, Replay, InsertJob, InsertRead, Abort, Finalise, Project
  <1> QED
    BY <1>1, <1>2, <1>3 DEF Reserve

LEMMA InsertersStep ==
  ASSUME TypeInv, InsertersHoldKey, [Next]_vars
  PROVE  InsertersHoldKey'
  <1>1. SUFFICES ASSUME NEW h \in Handlers, handler'[h].pc \in {"insert_job", "insert_read"}
                 PROVE  /\ idem'[Scope(handler'[h].req)] # None
                        /\ idem'[Scope(handler'[h].req)].job = handler'[h].job
                        /\ idem'[Scope(handler'[h].req)].print = Fingerprint(handler'[h].req)
                        /\ idem'[Scope(handler'[h].req)].maxAttempts = Attempts(handler'[h].req)
    BY DEF InsertersHoldKey, ReservedFor, Scope, Fingerprint, Attempts
  <1>2. CASE /\ handler[h].pc \in {"insert_job", "insert_read"}
             /\ handler'[h].req = handler[h].req
             /\ handler'[h].job = handler[h].job
    <2>1. handler[h].req \in Requests
      BY <1>2 DEF TypeInv, Busy
    <2>2. /\ ReservedFor(handler[h].req, handler[h].job)
          /\ idem[Scope(handler[h].req)].maxAttempts = Attempts(handler[h].req)
      BY <1>2 DEF InsertersHoldKey
    <2> QED
      BY <1>2, <2>1, <2>2, ReservationsStay
  <1>3. CASE /\ Reserve(h)
             /\ handler'[h].req = handler[h].req
             /\ idem'[Scope(handler[h].req)] =
                  [print |-> Fingerprint(handler[h].req), job |-> handler'[h].job,
                   maxAttempts |-> Attempts(handler[h].req)]
    <2>1. handler[h].req \in Requests
      BY <1>3 DEF Reserve, TypeInv, Busy
    <2>2. handler'[h].job \in JobIds
      BY <1>1, TypeStep DEF TypeInv, Frames
    <2>3. idem'[Scope(handler[h].req)] \in IdemRow
      BY <1>3, <2>1, <2>2, RequestFields DEF IdemRow
    <2> QED
      BY <1>3, <2>3, IntakeAssumption
  <1> QED
    BY <1>1, <1>2, <1>3, InserterSteps

LEMMA JobBeforeReadStep ==
  ASSUME TypeInv, JobBeforeRead, [Next]_vars
  PROVE  JobBeforeRead'
  <1> SUFFICES ASSUME NEW h \in Handlers, handler'[h].pc = "insert_read"
               PROVE  jobs'[handler'[h].job] # None
    BY DEF JobBeforeRead
  <1>1. CASE handler'[h] = handler[h]
    BY <1>1, RowsStay DEF JobBeforeRead, TypeInv, Frames
  <1> QED
    BY <1>1, InserterSteps

LEMMA AcceptsStep ==
  ASSUME TypeInv, InsertersHoldKey, AcceptsFollowKeys, [Next]_vars
  PROVE  AcceptsFollowKeys'
  <1> SUFFICES ASSUME NEW a \in answers', a.code = 202
               PROVE  /\ idem'[Scope(a.req)] # None
                      /\ idem'[Scope(a.req)].job = a.job
                      /\ idem'[Scope(a.req)].print = Fingerprint(a.req)
    BY DEF AcceptsFollowKeys, ReservedFor, Scope, Fingerprint
  <1>1. a.req \in Requests
    BY TypeStep DEF TypeInv, TypeOK
  <1>2. ReservedFor(a.req, a.job)
    <2>1. CASE a \in answers
      BY <2>1 DEF AcceptsFollowKeys
    <2>2. CASE a \notin answers
      BY <2>2, AcceptSteps DEF InsertersHoldKey
    <2> QED
      BY <2>1, <2>2
  <1> QED
    BY <1>1, <1>2, ReservationsStay

LEMMA DurableStep ==
  ASSUME TypeInv, JobBeforeRead, FirstAcceptIsDurable, AcceptsFollowKeys, [Next]_vars
  PROVE  FirstAcceptIsDurable'
  <1> SUFFICES ASSUME NEW a \in answers', a.code = 202, a.replayed = "false"
               PROVE  jobs'[a.job] # None /\ read'[a.job] # "absent"
    BY DEF FirstAcceptIsDurable
  <1>1. CASE a \in answers
    <2>1. jobs[a.job] # None /\ read[a.job] # "absent"
      BY <1>1 DEF FirstAcceptIsDurable
    <2>2. a.job \in JobIds
      <3>1. ReservedFor(a.req, a.job) /\ a.req \in Requests
        BY <1>1 DEF AcceptsFollowKeys, TypeInv, TypeOK
      <3>2. idem[Scope(a.req)] \in IdemRow
        BY <3>1, RequestFields DEF ReservedFor, TypeInv, TypeOK
      <3> QED
        BY <3>1, <3>2 DEF ReservedFor, IdemRow
    <2> QED
      BY <2>1, <2>2, RowsStay
  <1>2. CASE a \notin answers
    <2>1. PICK h \in Handlers : /\ handler[h].pc = "insert_read"
                                /\ a.job = handler[h].job
                                /\ read'[a.job] # "absent"
      BY <1>2, AcceptSteps
    <2>2. a.job \in JobIds /\ jobs[a.job] # None
      BY <2>1 DEF JobBeforeRead, TypeInv, Frames
    <2> QED
      BY <2>1, <2>2, RowsStay
  <1> QED
    BY <1>1, <1>2

\* An insert into jobs finds its id unused: a row under it would hold the key.
LEMMA InsertFindsNoRow ==
  ASSUME TypeInv, KeysNameOneJob, InsertersHoldKey, JobsAreReserved,
         NEW h \in Handlers, handler[h].pc = "insert_job", ~KeyTaken(handler[h].req.key)
  PROVE  jobs[handler[h].job] = None
  <1> DEFINE i == handler[h].job
             req == handler[h].req
             row == jobs[i]
  <1> SUFFICES ASSUME row # None PROVE FALSE
    OBVIOUS
  <1>1. i \in JobIds /\ req \in Requests /\ ReservedFor(req, i)
    BY DEF TypeInv, Frames, Busy, InsertersHoldKey
  <1>2. row \in JobRow
    BY <1>1 DEF TypeInv, TypeOK
  <1>3. <<row.path, row.key>> \in Paths \X Keys
    BY <1>2 DEF JobRow
  <1>4. idem[<<row.path, row.key>>] # None /\ idem[<<row.path, row.key>>].job = i
    BY <1>1 DEF JobsAreReserved
  <1>5. Scope(req) \in Paths \X Keys /\ idem[Scope(req)] # None /\ idem[Scope(req)].job = i
    BY <1>1, RequestFields DEF ReservedFor
  <1>6. Scope(req) = <<row.path, row.key>>
    BY <1>3, <1>4, <1>5 DEF KeysNameOneJob
  <1>7. row.key = req.key
    BY <1>6 DEF Scope
  <1> QED
    BY <1>1, <1>7 DEF KeyTaken

\* How a row of jobs comes to be what it is after a step.
LEMMA JobRowSteps ==
  ASSUME TypeInv, [Next]_vars, NEW i \in JobIds, jobs'[i] # None
  PROVE  \/ jobs'[i] = jobs[i]
         \/ /\ jobs[i] # None
            /\ jobs'[i].path = jobs[i].path
            /\ jobs'[i].key = jobs[i].key
            /\ jobs'[i].body = jobs[i].body
            /\ jobs'[i].maxAttempts = jobs[i].maxAttempts
            /\ jobs'[i].state \in Ended
         \/ \E h \in Handlers :
              /\ handler[h].pc = "insert_job"
              /\ ~KeyTaken(handler[h].req.key)
              /\ handler[h].job = i
              /\ jobs'[i] = [path |-> handler[h].req.path, key |-> handler[h].req.key,
                             body |-> handler[h].req.body,
                             maxAttempts |-> Attempts(handler[h].req), state |-> "queued"]
  <1>1. ASSUME NEW k \in JobIds, Finalise(k)
        PROVE  \/ jobs'[i] = jobs[i]
               \/ /\ jobs[i] # None
                  /\ jobs'[i].path = jobs[i].path
                  /\ jobs'[i].key = jobs[i].key
                  /\ jobs'[i].body = jobs[i].body
                  /\ jobs'[i].maxAttempts = jobs[i].maxAttempts
                  /\ jobs'[i].state \in Ended
    BY <1>1 DEF Finalise, TypeInv, TypeOK, Ended
  <1>2. ASSUME NEW h \in Handlers, InsertJob(h), jobs'[i] # jobs[i]
        PROVE  /\ handler[h].pc = "insert_job"
               /\ ~KeyTaken(handler[h].req.key)
               /\ handler[h].job = i
               /\ jobs'[i] = [path |-> handler[h].req.path, key |-> handler[h].req.key,
                              body |-> handler[h].req.body,
                              maxAttempts |-> Attempts(handler[h].req), state |-> "queued"]
    BY <1>2 DEF InsertJob, TypeInv, TypeOK
  <1>3. \/ \E k \in JobIds : Finalise(k)
        \/ \E h \in Handlers : InsertJob(h)
        \/ UNCHANGED jobs
    BY DEF Next, vars, Receive, Refuse, Reserve, Replay, InsertRead, Abort, Project
  <1> QED
    BY <1>1, <1>2, <1>3

LEMMA JobsStep ==
  ASSUME TypeInv, KeysNameOneJob, InsertersHoldKey, JobsAreReserved, [Next]_vars
  PROVE  JobsAreReserved'
  <1> DEFINE Good(k, row, i) ==
               /\ k # None /\ k.job = i
               /\ k.print = row.body /\ k.maxAttempts = row.maxAttempts
  <1>1. SUFFICES ASSUME NEW i \in JobIds, jobs'[i] # None
                 PROVE  Good(idem'[<<jobs'[i].path, jobs'[i].key>>], jobs'[i], i)
    BY DEF JobsAreReserved
  <1>2. CASE /\ jobs[i] # None
             /\ jobs'[i].path = jobs[i].path
             /\ jobs'[i].key = jobs[i].key
             /\ jobs'[i].body = jobs[i].body
             /\ jobs'[i].maxAttempts = jobs[i].maxAttempts
    <2> DEFINE s == <<jobs[i].path, jobs[i].key>>
    <2>1. jobs[i] \in JobRow
      BY <1>2 DEF TypeInv, TypeOK
    <2>2. s \in Paths \X Keys
      BY <2>1 DEF JobRow
    <2>3. Good(idem[s], jobs[i], i)
      BY <1>2 DEF JobsAreReserved
    <2>4. idem'[s] = idem[s]
      BY <2>2, <2>3, RowsStay
    <2> QED
      BY <1>2, <2>3, <2>4
  <1>3. ASSUME NEW h \in Handlers,
               handler[h].pc = "insert_job",
               handler[h].job = i,
               jobs'[i] = [path |-> handler[h].req.path, key |-> handler[h].req.key,
                           body |-> handler[h].req.body,
                           maxAttempts |-> Attempts(handler[h].req), state |-> "queued"]
        PROVE  Good(idem'[<<jobs'[i].path, jobs'[i].key>>], jobs'[i], i)
    <2>1. handler[h].req \in Requests
      BY <1>3 DEF TypeInv, Busy
    <2>2. /\ ReservedFor(handler[h].req, i)
          /\ idem[Scope(handler[h].req)].maxAttempts = Attempts(handler[h].req)
      BY <1>3 DEF InsertersHoldKey
    <2>3. /\ idem'[Scope(handler[h].req)] = idem[Scope(handler[h].req)]
          /\ idem'[Scope(handler[h].req)] # None
          /\ idem'[Scope(handler[h].req)].job = i
          /\ idem'[Scope(handler[h].req)].print = Fingerprint(handler[h].req)
      BY <2>1, <2>2, ReservationsStay
    <2>4. <<jobs'[i].path, jobs'[i].key>> = Scope(handler[h].req)
      BY <1>3 DEF Scope
    <2>5. jobs'[i].body = Fingerprint(handler[h].req)
      BY <1>3 DEF Fingerprint
    <2>6. jobs'[i].maxAttempts = Attempts(handler[h].req)
      BY <1>3
    <2> QED
      BY <2>2, <2>3, <2>4, <2>5, <2>6
  <1>4. CASE jobs'[i] = jobs[i]
    BY <1>1, <1>2, <1>4
  <1> HIDE DEF Good
  <1> QED
    BY <1>1, <1>2, <1>3, <1>4, JobRowSteps

LEMMA ProjectionsStep ==
  ASSUME TypeInv, KeysNameOneJob, InsertersHoldKey, JobsAreReserved, ProjectionsPending,
         [Next]_vars
  PROVE  ProjectionsPending'
  <1> USE DEF TypeInv
  <1>1. ASSUME NEW h \in Handlers, InsertJob(h) PROVE ProjectionsPending'
    <2>1. CASE UNCHANGED jobs
      BY <1>1, <2>1 DEF InsertJob, ProjectionsPending
    <2>2. CASE ~KeyTaken(handler[h].req.key) /\ \E row : jobs' = [jobs EXCEPT ![handler[h].job] = row]
      <3>1. jobs[handler[h].job] = None /\ handler[h].job \in JobIds
        BY <1>1, <2>2, InsertFindsNoRow DEF InsertJob, Frames
      <3>2. handler[h].job \notin settled /\ read[handler[h].job] \notin Ended
        BY <3>1 DEF Frames, ProjectionsPending
      <3>3. \A k \in JobIds : k # handler[h].job => jobs'[k] = jobs[k]
        BY <2>2 DEF TypeOK
      <3> QED
        BY <1>1, <3>2, <3>3 DEF InsertJob, ProjectionsPending
    <2> QED
      BY <1>1, <2>1, <2>2 DEF InsertJob
  <1>2. ASSUME NEW h \in Handlers, InsertRead(h) PROVE ProjectionsPending'
    BY <1>2 DEF InsertRead, ProjectionsPending, TypeOK, Ended
  <1>3. ASSUME NEW k \in JobIds, Finalise(k) PROVE ProjectionsPending'
    <2>1. jobs[k] \in JobRow /\ jobs[k].state = "queued"
      BY <1>3 DEF Finalise, TypeOK
    <2>2. read[k] \notin Ended
      BY <2>1 DEF ProjectionsPending, Ended
    <2>3. jobs'[k].state \in Ended /\ \A i \in JobIds : i # k => jobs'[i] = jobs[i]
      BY <1>3 DEF Finalise, TypeOK, Ended
    <2> QED
      BY <1>3, <2>2, <2>3 DEF Finalise, ProjectionsPending
  <1>4. ASSUME NEW k \in JobIds, Project(k) PROVE ProjectionsPending'
    <2>1. jobs[k] # None /\ jobs[k].state \in Ended
      BY <1>4 DEF Project, Frames, ProjectionsPending
    <2>2. /\ read'[k] = jobs[k].state \/ read'[k] = read[k]
          /\ \A i \in JobIds : i # k => read'[i] = read[i]
      BY <1>4 DEF Project, TypeOK
    <2> QED
      BY <1>4, <2>1, <2>2 DEF Project, ProjectionsPending
  <1>5. CASE UNCHANGED <<jobs, read, settled>>
    BY <1>5 DEF ProjectionsPending
  <1>6. \/ \E h \in Handlers : InsertJob(h) \/ InsertRead(h)
        \/ \E k \in JobIds : Finalise(k) \/ Project(k)
        \/ UNCHANGED <<jobs, read, settled>>
    BY DEF Next, vars, Receive, Refuse, Reserve, Replay, Abort
  <1> QED
    BY <1>1, <1>2, <1>3, <1>4, <1>5, <1>6

LEMMA IntakeStep ==
  ASSUME TypeInv, IntakeInv, [Next]_vars
  PROVE  IntakeInv'
  BY KeysStep, InsertersStep, JobsStep, JobBeforeReadStep, AcceptsStep, DurableStep,
     ProjectionsStep DEF IntakeInv

LEMMA IntakeInvariant == Spec => [](TypeInv /\ IntakeInv)
  <1>1. Init => TypeInv /\ IntakeInv
    BY TypeInitially, IntakeInitially
  <1>2. TypeInv /\ IntakeInv /\ [Next]_vars => (TypeInv /\ IntakeInv)'
    BY TypeStep, IntakeStep
  <1> QED
    BY <1>1, <1>2, PTL DEF Spec

-----------------------------------------------------------------------------
(* The theorems.                                                           *)

\* A job is created only by the request that reserved its key, with the payload
\* and the attempts that createJobWithDB stored under the key.
THEOREM KeysComeFirst == Spec => []JobsAreReserved
  BY IntakeInvariant, PTL DEF IntakeInv

\* Clients that were accepted under one key were told of one job, that of their
\* own payload, however many handlers createJobWithDB ran in and whichever of its
\* statements failed.
THEOREM KeysAreIdempotent == Spec => []AcceptedAlike
  <1>1. AcceptsFollowKeys => AcceptedAlike
    BY DEF AcceptsFollowKeys, AcceptedAlike, ReservedFor, Fingerprint
  <1> QED
    BY <1>1, IntakeInvariant, PTL DEF IntakeInv

\* A 202 without Idempotency-Replayed is sent after both rows are in place, and
\* nothing takes them away.
THEOREM FirstAcceptsAreDurable == Spec => []FirstAcceptIsDurable
  BY IntakeInvariant, PTL DEF IntakeInv

\* Neither a late jobs_read insert nor a later projection changes the end that
\* the runner projected for a job.
THEOREM ProjectedEndsStay == Spec => ReadNeverRewinds
  <1> DEFINE Stays == \A i \in JobIds :
               read[i] \in {"succeeded", "jobs_exhausted"} => read'[i] = read[i]
  <1>1. TypeInv /\ IntakeInv /\ [Next]_vars => [Stays]_vars
    <2> SUFFICES ASSUME TypeInv, IntakeInv, Next,
                        NEW i \in JobIds, read[i] \in Ended
                 PROVE  read'[i] = read[i]
      BY DEF Ended
    <2>1. ASSUME NEW h \in Handlers, InsertRead(h) PROVE read'[i] = read[i]
      BY <2>1 DEF InsertRead, ReadRowFree, TypeInv, TypeOK, Ended
    <2>2. ASSUME NEW k \in JobIds, Project(k) PROVE read'[i] = read[i]
      BY <2>2 DEF Project, IntakeInv, ProjectionsPending, TypeInv, TypeOK
    <2>3. \/ \E h \in Handlers : InsertRead(h)
          \/ \E k \in JobIds : Project(k)
          \/ UNCHANGED read
      BY DEF Next, Receive, Refuse, Reserve, Replay, InsertJob, Abort, Finalise
    <2> QED
      BY <2>1, <2>2, <2>3
  <1> QED
    BY <1>1, IntakeInvariant, PTL DEF Spec, ReadNeverRewinds
=============================================================================
