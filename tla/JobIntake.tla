------------------------------ MODULE JobIntake ------------------------------
(***************************************************************************)
(* POST /v1/jobs over a database: CreateJob and createJobWithDB of         *)
(* internal/transport/http/job_handler.go. A request reserves its          *)
(* idempotency key, then inserts the jobs row, then the jobs_read row, in  *)
(* three statements that each commit on their own. Handlers run            *)
(* concurrently, with each other and with the engine, which can run a job  *)
(* and project it before its handler has written the jobs_read row.        *)
(* One tenant: tenants share nothing but the process.                      *)
(***************************************************************************)
EXTENDS Naturals, FiniteSets

CONSTANTS
  Handlers,     \* request handlers that run at the same time
  Requests,     \* requests clients send, as records (see Request)
  Paths, Keys, Bodies,
  JobIds,       \* job ids uuid.NewString() can return
  None,         \* no row, no request, no job
  MaxAnswers,   \* bound: no request is received after as many different answers
  MaxFaults     \* bound: failed statements and aborted requests

\* What a handler tells apart in a request: "body" is everything the fingerprint
\* covers, "wellFormed" that every field passes its check.
Request == [path : Paths, key : Keys, body : Bodies,
            maxAttempts : Nat, wellFormed : BOOLEAN]

\* A row of jobs and a row of idempotency_keys.
JobRow == [path : Paths, key : Keys, body : Bodies, maxAttempts : Nat,
           state : {"queued", "succeeded", "jobs_exhausted"}]

IdemRow == [print : Bodies, job : JobIds, maxAttempts : Nat]

ASSUME IntakeAssumption ==
  /\ Requests \subseteq Request
  /\ MaxAnswers \in Nat /\ MaxFaults \in Nat
  /\ None \notin JobIds \cup Requests
  /\ None \notin JobRow
  /\ None \notin IdemRow

VARIABLES
  idem,     \* idempotency_keys, by (path, key)
  jobs,     \* the jobs table, by id
  read,     \* the state column of jobs_read, by id
  handler,  \* program counter and locals of each handler
  settled,  \* jobs the engine has finalised and not yet projected
  answers,  \* responses clients have received
  faults    \* failed statements and aborted requests so far

vars == <<idem, jobs, read, handler, settled, answers, faults>>

\* Mutants of Fingerprint: max_attempts is part of the payload; or the path is
\* all of it.
FingerprintWithAttempts(req) == <<req.body, req.maxAttempts>>
FingerprintOfPath(req) == req.path

\* createJobFingerprint covers path, params, callback, schedule and first run,
\* and leaves max_attempts out.
Fingerprint(req) == req.body

\* An absent or invalid max_attempts becomes 3.
Attempts(req) == IF req.maxAttempts < 1 THEN 3 ELSE req.maxAttempts

Scope(req) == <<req.path, req.key>>

Idle == [pc |-> "idle", req |-> None, job |-> None]

Init ==
  /\ idem = [s \in Paths \X Keys |-> None]
  /\ jobs = [i \in JobIds |-> None]
  /\ read = [i \in JobIds |-> "absent"]
  /\ handler = [h \in Handlers |-> Idle]
  /\ settled = {}
  /\ answers = {}
  /\ faults = 0

Fault == faults < MaxFaults /\ faults' = faults + 1

\* The handler answers, with the Idempotency-Replayed header, and is free for the
\* next request.
Answer(h, code, job, replayed) ==
  /\ answers' = answers \cup {[req |-> handler[h].req, code |-> code,
                               job |-> job, replayed |-> replayed]}
  /\ handler' = [handler EXCEPT ![h] = Idle]

Failed(h) == Fault /\ Answer(h, 500, None, "false")

Goto(h, pc, job) ==
  handler' = [handler EXCEPT ![h] = [pc |-> pc, req |-> @.req, job |-> job]]

\* Job ids in use: uuid.NewString() repeats none.
UsedIds ==
  {i \in JobIds : jobs[i] # None}
    \cup {idem[s].job : s \in {t \in Paths \X Keys : idem[t] # None}}
    \cup {handler[h].job : h \in Handlers}

-----------------------------------------------------------------------------
\* A request arrives. CreateJob checks its fields before it looks at the
\* database, and answers 400 when one is wrong.
Receive(h) ==
  /\ handler[h].pc = "idle"
  /\ Cardinality(answers) < MaxAnswers
  /\ \E req \in Requests :
       handler' = [handler EXCEPT ![h] =
                     [pc |-> IF req.wellFormed THEN "reserve" ELSE "refuse",
                      req |-> req, job |-> None]]
  /\ UNCHANGED <<idem, jobs, read, settled, answers, faults>>

Refuse(h) ==
  /\ handler[h].pc = "refuse"
  /\ Answer(h, 400, None, "false")
  /\ UNCHANGED <<idem, jobs, read, settled, faults>>

\* Mutant of KeyFree: ON CONFLICT DO UPDATE, the last request wins.
KeyAlwaysFree(req) == TRUE

\* ON CONFLICT (tenant_id, path_key, idempotency_key) DO NOTHING inserts.
KeyFree(req) == idem[Scope(req)] = None

\* INSERT INTO idempotency_keys, with the response the key will replay for ever.
Reserve(h) ==
  LET req == handler[h].req IN
  /\ handler[h].pc = "reserve"
  /\ \/ /\ KeyFree(req)
        /\ \E i \in JobIds \ UsedIds :
             /\ idem' = [idem EXCEPT ![Scope(req)] =
                           [print |-> Fingerprint(req), job |-> i,
                            maxAttempts |-> Attempts(req)]]
             /\ Goto(h, "insert_job", i)
        /\ UNCHANGED <<answers, faults>>
     \/ /\ ~KeyFree(req)
        /\ Goto(h, "replay", None)
        /\ UNCHANGED <<idem, answers, faults>>
     \/ Failed(h) /\ UNCHANGED idem
  /\ UNCHANGED <<jobs, read, settled>>

\* fetchExistingIdempotencyRecord: replay the stored response, or 409 when the
\* key was reserved for another payload.
Replay(h) ==
  LET stored == idem[Scope(handler[h].req)] IN
  /\ handler[h].pc = "replay"
  /\ \/ /\ IF stored.print = Fingerprint(handler[h].req)
           THEN Answer(h, 202, stored.job, "true")
           ELSE Answer(h, 409, stored.job, "false")
        /\ UNCHANGED faults
     \/ Failed(h)
  /\ UNCHANGED <<idem, jobs, read, settled>>

\* jobs_tenant_idem_uidx: one jobs row per tenant and key, whatever its path.
KeyTaken(k) == \E i \in JobIds : jobs[i] # None /\ jobs[i].key = k

\* Mutant of InsertJob: its error is ignored, as that of the projections is.
InsertJobErrorIgnored(h) ==
  LET req == handler[h].req IN
  /\ handler[h].pc = "insert_job"
  /\ \/ /\ ~KeyTaken(req.key)
        /\ jobs' = [jobs EXCEPT ![handler[h].job] =
                      [path |-> req.path, key |-> req.key, body |-> req.body,
                       maxAttempts |-> Attempts(req), state |-> "queued"]]
     \/ KeyTaken(req.key) /\ UNCHANGED jobs
  /\ Goto(h, "insert_read", handler[h].job)
  /\ UNCHANGED <<idem, read, settled, answers, faults>>

\* INSERT INTO jobs.
InsertJob(h) ==
  LET req == handler[h].req IN
  /\ handler[h].pc = "insert_job"
  /\ \/ /\ ~KeyTaken(req.key)
        /\ jobs' = [jobs EXCEPT ![handler[h].job] =
                      [path |-> req.path, key |-> req.key, body |-> req.body,
                       maxAttempts |-> Attempts(req), state |-> "queued"]]
        /\ Goto(h, "insert_read", handler[h].job)
        /\ UNCHANGED <<answers, faults>>
     \/ /\ KeyTaken(req.key)
        /\ Answer(h, 500, None, "false")
        /\ UNCHANGED <<jobs, faults>>
     \/ Failed(h) /\ UNCHANGED jobs
  /\ UNCHANGED <<idem, read, settled>>

\* Mutant of ReadRowFree: the insert replaces the row the engine projected.
ReadRowAlwaysFree(i) == TRUE

\* The primary key of jobs_read.
ReadRowFree(i) == read[i] = "absent"

\* INSERT INTO jobs_read: a plain insert, which fails when the engine has already
\* projected the job. The client is told 500 although the job has run.
InsertRead(h) ==
  LET i == handler[h].job IN
  /\ handler[h].pc = "insert_read"
  /\ \/ /\ ReadRowFree(i)
        /\ read' = [read EXCEPT ![i] = "queued"]
        /\ Answer(h, 202, i, "false")
        /\ UNCHANGED faults
     \/ ~ReadRowFree(i) /\ Answer(h, 500, None, "false") /\ UNCHANGED <<read, faults>>
     \/ Failed(h) /\ UNCHANGED read
  /\ UNCHANGED <<idem, jobs, settled>>

\* The process stops, or the client's connection and with it the context of the
\* request: the handler goes no further and nobody is answered.
Abort(h) ==
  /\ handler[h].pc # "idle"
  /\ Fault
  /\ handler' = [handler EXCEPT ![h] = Idle]
  /\ UNCHANGED <<idem, jobs, read, settled, answers>>

-----------------------------------------------------------------------------
(* The engine, as far as intake can see it (JobLifecycle is the whole).    *)

\* A run of the job is finalised.
Finalise(i) ==
  /\ jobs[i] # None /\ jobs[i].state = "queued"
  /\ \E s \in {"succeeded", "jobs_exhausted"} :
       jobs' = [jobs EXCEPT ![i] =
                  [path |-> @.path, key |-> @.key, body |-> @.body,
                   maxAttempts |-> @.maxAttempts, state |-> s]]
  /\ settled' = settled \cup {i}
  /\ UNCHANGED <<idem, read, handler, answers, faults>>

\* The projection that follows it is an upsert, whose error is ignored.
Project(i) ==
  /\ i \in settled
  /\ settled' = settled \ {i}
  /\ \/ read' = [read EXCEPT ![i] = jobs[i].state] /\ UNCHANGED faults
     \/ Fault /\ UNCHANGED read
  /\ UNCHANGED <<idem, jobs, handler, answers>>

Next ==
  \/ \E h \in Handlers :
       \/ Receive(h) \/ Refuse(h) \/ Reserve(h) \/ Replay(h)
       \/ InsertJob(h) \/ InsertRead(h) \/ Abort(h)
  \/ \E i \in JobIds : Finalise(i) \/ Project(i)

Spec == Init /\ [][Next]_vars

-----------------------------------------------------------------------------
(* Properties.                                                             *)

\* Types of the tables, of every handler's locals and of the answers.
TypeOK ==
  /\ idem \in [Paths \X Keys -> IdemRow \cup {None}]
  /\ jobs \in [JobIds -> JobRow \cup {None}]
  /\ read \in [JobIds -> {"absent", "queued", "succeeded", "jobs_exhausted"}]
  /\ handler \in [Handlers ->
       [pc : {"idle", "reserve", "refuse", "replay", "insert_job", "insert_read"},
        req : Requests \cup {None}, job : JobIds \cup {None}]]
  /\ settled \subseteq JobIds
  /\ answers \subseteq [req : Requests, code : {202, 400, 409, 500},
                        job : JobIds \cup {None}, replayed : {"true", "false"}]
  /\ faults \in 0..MaxFaults

\* All clients that were accepted under one key are told of the same job, and it
\* is the job of their own payload, however their requests overlapped, failed or
\* were retried (the unique key of idempotency_keys, and the fingerprint).
AcceptedAlike ==
  \A a, b \in answers :
    a.code = 202 /\ b.code = 202 /\ Scope(a.req) = Scope(b.req) =>
      a.job = b.job /\ a.req.body = b.req.body

\* A job is created only by the request that reserved its key: it has the path,
\* payload and attempts that every replay of the key reports.
JobsAreReserved ==
  \A i \in JobIds : jobs[i] # None =>
    /\ idem[<<jobs[i].path, jobs[i].key>>] # None
    /\ idem[<<jobs[i].path, jobs[i].key>>].job = i
    /\ idem[<<jobs[i].path, jobs[i].key>>].print = jobs[i].body
    /\ idem[<<jobs[i].path, jobs[i].key>>].maxAttempts = jobs[i].maxAttempts

\* A first acceptance is durable: its job and its read row exist.
FirstAcceptIsDurable ==
  \A a \in answers : a.code = 202 /\ a.replayed = "false" =>
    jobs[a.job] # None /\ read[a.job] # "absent"

\* The late jobs_read insert of a handler never takes back an end that the
\* engine has projected.
ReadNeverRewinds ==
  [][\A i \in JobIds : read[i] \in {"succeeded", "jobs_exhausted"} => read'[i] = read[i]]_vars

-----------------------------------------------------------------------------
(* What the design documents say of the same code.                         *)

\* "By sharing the same transaction scope as the job creation, it guarantees
\* atomicity between idempotency checks and job persistence" (d01): a job that
\* was accepted exists, or is still being inserted by the request that made it.
AcceptedJobsExist ==
  \A a \in answers : a.code = 202 =>
    jobs[a.job] # None \/ \E h \in Handlers : handler[h].job = a.job
=============================================================================
