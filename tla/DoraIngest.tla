------------------------------ MODULE DoraIngest ------------------------------
(***************************************************************************)
(* The DORA endpoints of internal/transport/http/dora_handler.go at work   *)
(* together: webhooks that are stored or dead-lettered, dead letters that  *)
(* are replayed, and the queries. A handler takes one step per connection  *)
(* it acquires and per statement it runs; none of them opens a             *)
(* transaction. The connections come from one pool, whose Acquire waits    *)
(* until one is free or the request's context ends.                        *)
(***************************************************************************)
EXTENDS DoraStore

CONSTANTS
  DoraHandlers,  \* concurrent requests
  Hooks,         \* webhooks the providers send
  Services,      \* service_ref values of requests; Blank stands for a missing one
  Reported,      \* deployments the engine's metrics writer inserts meanwhile
  Queries,       \* requests for a query: endpoint and scope of the caller
  Seeds,         \* what the tables may hold at the start: rows and letters
  PoolSize,      \* connections in the pool
  Now,           \* nowFn() and time.Now()
  WindowDays,    \* window_days
  Limit,         \* limit of a list
  Unknown,       \* the service "unknown" of a replay without service_ref
  MaxRequests,   \* bound: requests received
  MaxDoraFaults  \* bound: statements that fail

GitProviders == {"github", "gitlab"}

IsPush(hook) == hook.provider \in GitProviders /\ hook.event = "push"

\* The index that guards source events is keyed by the webhook that a row comes from.
KeyedBy(r, hook) ==
  /\ r.src = hook.provider /\ hook.delivery # Blank
  /\ IF r.type = "commit.pushed"
     THEN /\ IsPush(hook)
          /\ \E i \in NamedCommits(hook) :
               hook.commits[i].sha = r.corr /\ r.sid = PushSourceID(hook.delivery, r.corr, i)
     ELSE r.sid = SourceID(hook.delivery, <<r.type, r.corr>>)

\* A row of dora_webhook_dead_letter.
DeadLetter(hook, code) ==
  [provider |-> hook.provider, hook |-> hook, code |-> code, replayed |-> FALSE]

Listed(seq) == Len(seq) \in Nat /\ seq = [i \in 1..Len(seq) |-> seq[i]]

\* The commits of a push are a list. Under one delivery id a provider names a
\* commit at one place: it sends one push under it, with no commit twice.
ASSUME HooksAssumption ==
  \A g \in Hooks : IsPush(g) =>
    /\ Listed(g.commits)
    /\ \A h \in Hooks : IsPush(h) /\ h.provider = g.provider /\ h.delivery = g.delivery /\ g.delivery # Blank =>
         \A i \in NamedCommits(g), k \in NamedCommits(h) : g.commits[i].sha = h.commits[k].sha => i = k

\* The tables start as earlier requests may have left them: rows under the keys
\* of known webhooks, none twice, and dead letters that wait for their replay.
ASSUME SeedsAssumption ==
  \A s \in Seeds :
    /\ Listed(s.rows) /\ Listed(s.letters)
    /\ \A i \in DOMAIN s.rows : s.rows[i].sid # Blank => \E hook \in Hooks : KeyedBy(s.rows[i], hook)
    /\ \A i, j \in DOMAIN s.rows : i # j => ~SameSourceEvent(s.rows[i], s.rows[j])
    /\ \A d \in DOMAIN s.letters : \E hook \in Hooks : s.letters[d] = DeadLetter(hook, s.letters[d].code)

ASSUME QueriesAssumption ==
  \A q \in Queries : /\ q.op \in {"replay", "summary", "group", "deployments", "list", "get"}
                    /\ q.scope \in {"denied", "brand", "group"}

\* The writer leaves source_event_id NULL (MetricsWriter models it in full).
ASSUME ReportedAssumption == \A row \in Reported : row.type \in Deployments /\ row.sid = Blank

VARIABLES
  doraEvents,   \* rows of dora_events, oldest first
  deadLetters,  \* rows of dora_webhook_dead_letter, oldest first
  doraReq,      \* per handler: the request and the locals of the function
  doraAnswers,  \* answers given
  doraFaults,   \* statements that failed
  doraServed    \* requests received

ingestVars == <<doraEvents, deadLetters, doraReq, doraAnswers, doraFaults, doraServed>>

NoRequest ==
  [op |-> "none", pc |-> "idle", hook |-> Blank, svc |-> Blank, row |-> 0, events |-> << >>,
   i |-> 1, held |-> 0, gone |-> FALSE, status |-> "none", scope |-> "none", stats |-> Blank,
   first |-> << >>]

IngestInit ==
  /\ \E s \in Seeds : doraEvents = s.rows /\ deadLetters = s.letters
  /\ doraReq = [h \in DoraHandlers |-> NoRequest]
  /\ doraAnswers = {}
  /\ doraFaults = 0 /\ doraServed = 0

Set(h, r) == doraReq' = [doraReq EXCEPT ![h] = r]

\* The first status written is the answer: a second c.JSON comes too late.
\* Answering runs the deferred Release of every connection held.
FinishWith(h, status, dl, stats) ==
  /\ Set(h, NoRequest)
  /\ doraAnswers' = doraAnswers \cup
       {[nth |-> Cardinality(doraAnswers) + 1, op |-> doraReq[h].op, hook |-> doraReq[h].hook, svc |-> doraReq[h].svc,
         row |-> doraReq[h].row, stats |-> stats, dl |-> dl,
         status |-> IF doraReq[h].status \in {"403", "503"} THEN doraReq[h].status ELSE status]}

Finish(h, status, dl) == FinishWith(h, status, dl, Blank)

Goto(h, pc) == Set(h, [doraReq[h] EXCEPT !.pc = pc]) /\ UNCHANGED doraAnswers

\* failWithDeadLetter is called: the requested code is kept for the answer.
Fail(h, code) ==
  Set(h, [doraReq[h] EXCEPT !.pc = "fail", !.status = code]) /\ UNCHANGED doraAnswers

At(h, op, pc) == doraReq[h].op = op /\ doraReq[h].pc = pc
Free == PoolSize - FoldSet(LAMBDA h, n : n + doraReq[h].held, 0, DoraHandlers)

\* A statement of handler h goes through, or fails: its context has ended, or
\* the database refuses it.
Works(h) == ~doraReq[h].gone /\ UNCHANGED doraFaults
Breaks(h) ==
  \/ doraReq[h].gone /\ UNCHANGED doraFaults
  \/ doraFaults < MaxDoraFaults /\ doraFaults' = doraFaults + 1

UNCHANGED_TABLES == UNCHANGED <<doraEvents, deadLetters>>

-----------------------------------------------------------------------------
(* Webhooks.                                                               *)

\* What comes of the hook before the database is needed.
Outcome(hook, svc) ==
  LET n == Normalize(hook, svc, Now)
  IN CASE hook.provider \notin Registered -> "normalizer_not_found"
       [] hook.provider \in Registered /\ ~n.ok -> "normalizer_error"
       [] OTHER -> IF \E i \in DOMAIN n.events : ~ValidEvent(n.events[i])
                   THEN "validation_error" ELSE "events"

Begin(h, r) ==
  /\ doraReq[h].pc = "idle" /\ doraServed < MaxRequests
  /\ doraServed' = doraServed + 1
  /\ Set(h, r)
  /\ UNCHANGED <<doraEvents, deadLetters, doraAnswers, doraFaults>>

\* IngestWebhook up to the database: parameters, normalizer, validation.
IngestWebhook(h, hook, svc) ==
  LET r == [NoRequest EXCEPT !.op = "ingest", !.hook = hook, !.svc = svc]
  IN Begin(h,
       IF svc = Blank THEN [r EXCEPT !.pc = "done", !.status = "400"]
       ELSE IF Outcome(hook, svc) # "events" THEN [r EXCEPT !.pc = "fail", !.status = Outcome(hook, svc)]
       ELSE LET events == Normalize(hook, svc, Now).events
            IN IF events = << >> THEN [r EXCEPT !.pc = "done", !.status = "processed"]
               ELSE [r EXCEPT !.pc = "acquire", !.events = events])

\* An answer that needs no database.
Respond(h) ==
  /\ doraReq[h].pc = "done"
  /\ Finish(h, doraReq[h].status, 0)
  /\ UNCHANGED_TABLES /\ UNCHANGED <<doraFaults, doraServed>>

\* Acquire of the connection a request works with.
AfterAcquire(op) ==
  CASE op = "ingest" -> "insert" [] op = "replay" -> "load"
    [] op = "summary" -> "deployments" [] op = "group" -> "versions" [] OTHER -> "read"

AcquireConn(h) ==
  /\ doraReq[h].pc = "acquire"
  /\ \/ /\ Works(h) /\ Free > 0
        /\ Set(h, [doraReq[h] EXCEPT !.pc = AfterAcquire(doraReq[h].op), !.held = @ + 1])
        /\ UNCHANGED doraAnswers
     \/ /\ Breaks(h)
        /\ IF doraReq[h].op = "ingest" THEN Fail(h, "store_error")
           ELSE Finish(h, IF doraReq[h].op = "group" THEN "503" ELSE "500", 0)
  /\ UNCHANGED_TABLES /\ UNCHANGED doraServed

LastEvent(h) == doraReq[h].i = Len(doraReq[h].events)

\* The next event of a webhook; when it fails the rows before it stay.
InsertEvent(h) ==
  /\ At(h, "ingest", "insert")
  /\ \/ /\ Works(h)
        /\ doraEvents' = InsertRow(doraEvents, doraReq[h].events[doraReq[h].i])
        /\ IF LastEvent(h) THEN Finish(h, "processed", 0)
           ELSE Set(h, [doraReq[h] EXCEPT !.i = @ + 1]) /\ UNCHANGED doraAnswers
     \/ Breaks(h) /\ Fail(h, "store_error") /\ UNCHANGED doraEvents
  /\ UNCHANGED <<deadLetters, doraServed>>

DeadLetterRow(h) == DeadLetter(doraReq[h].hook, doraReq[h].status)

\* Mutant of WriteDeadLetter: it waits for a connection whatever becomes of
\* the request.
WriteDeadLetterDetached(h) ==
  /\ doraReq[h].pc = "fail" /\ Free > 0
  /\ deadLetters' = Append(deadLetters, DeadLetterRow(h))
  /\ Finish(h, doraReq[h].status, Len(deadLetters) + 1)
  /\ UNCHANGED <<doraEvents, doraServed, doraFaults>>

\* Mutant of WriteDeadLetter: the id is handed out although the insert failed.
WriteDeadLetterUnchecked(h) ==
  /\ doraReq[h].pc = "fail"
  /\ \/ /\ Works(h) /\ Free > 0
        /\ deadLetters' = Append(deadLetters, DeadLetterRow(h))
     \/ Breaks(h) /\ UNCHANGED deadLetters
  /\ Finish(h, doraReq[h].status, Len(deadLetters) + 1)
  /\ UNCHANGED <<doraEvents, doraServed>>

\* failWithDeadLetter: on a connection of its own, while the one of the failed
\* insert is still held, the hook is kept for replay. Its service_ref is not.
WriteDeadLetter(h) ==
  /\ doraReq[h].pc = "fail"
  /\ \/ /\ Works(h) /\ Free > 0
        /\ deadLetters' = Append(deadLetters, DeadLetterRow(h))
        /\ Finish(h, doraReq[h].status, Len(deadLetters) + 1)
     \/ Breaks(h) /\ Finish(h, "store_error", 0) /\ UNCHANGED deadLetters
  /\ UNCHANGED <<doraEvents, doraServed>>

-----------------------------------------------------------------------------
(* Replays.                                                                *)

\* Authorisation comes first for every endpoint but the webhooks.
ReplayDeadLetter(h, d, svc, scope) ==
  Begin(h, [NoRequest EXCEPT !.op = "replay", !.pc = "authorize", !.row = d, !.scope = scope,
                             !.svc = IF svc = Blank THEN Unknown ELSE svc])

\* The row is read and checked, its hook normalised and validated.
LoadDeadLetter(h) ==
  /\ At(h, "replay", "load")
  /\ LET d == doraReq[h].row
         row == deadLetters[d]
     IN \/ Breaks(h) /\ Finish(h, "404", 0)
        \/ Works(h) /\ d \notin DOMAIN deadLetters /\ Finish(h, "404", 0)
        \/ /\ Works(h) /\ d \in DOMAIN deadLetters
           /\ CASE row.replayed -> Finish(h, "409", 0)
                [] ~row.replayed /\ Outcome(row.hook, doraReq[h].svc) # "events" -> Finish(h, "422", 0)
                [] OTHER ->
                     LET events == Normalize(row.hook, doraReq[h].svc, Now).events
                     IN /\ Set(h, [doraReq[h] EXCEPT !.hook = row.hook, !.events = events,
                                     !.pc = IF events = << >> THEN "mark" ELSE "replay"])
                        /\ UNCHANGED doraAnswers
  /\ UNCHANGED_TABLES /\ UNCHANGED doraServed

\* The next event of a replayed hook.
ReplayEvent(h) ==
  /\ At(h, "replay", "replay")
  /\ \/ /\ Works(h)
        /\ doraEvents' = InsertRow(doraEvents, doraReq[h].events[doraReq[h].i])
        /\ Set(h, [doraReq[h] EXCEPT !.pc = IF LastEvent(h) THEN "mark" ELSE @,
                                     !.i = IF LastEvent(h) THEN @ ELSE @ + 1])
        /\ UNCHANGED doraAnswers
     \/ Breaks(h) /\ Finish(h, "500", 0) /\ UNCHANGED doraEvents
  /\ UNCHANGED <<deadLetters, doraServed>>

\* Mutant of MarkReplayed: the update does not look at replayed_at.
MarkReplayedAgain(h) ==
  /\ At(h, "replay", "mark") /\ Works(h)
  /\ deadLetters' = [deadLetters EXCEPT ![doraReq[h].row].replayed = TRUE]
  /\ Finish(h, "200", doraReq[h].row)
  /\ UNCHANGED <<doraEvents, doraServed>>

\* UPDATE ... WHERE replayed_at IS NULL: one of several replays succeeds.
MarkReplayed(h) ==
  /\ At(h, "replay", "mark")
  /\ \/ /\ Works(h) /\ ~deadLetters[doraReq[h].row].replayed
        /\ deadLetters' = [deadLetters EXCEPT ![doraReq[h].row].replayed = TRUE]
        /\ Finish(h, "200", doraReq[h].row)
     \/ /\ Works(h) /\ deadLetters[doraReq[h].row].replayed
        /\ Finish(h, "409", 0) /\ UNCHANGED deadLetters
     \/ Breaks(h) /\ Finish(h, "409", 0) /\ UNCHANGED deadLetters
  /\ UNCHANGED <<doraEvents, doraServed>>

-----------------------------------------------------------------------------
(* Queries.                                                                *)

\* GetSummary, GetGroupSummary, GetDeployments, ListDeadLetter, GetDeadLetter.
Query(h, q, svc, d) ==
  Begin(h, [NoRequest EXCEPT !.op = q.op, !.svc = svc, !.row = d, !.scope = q.scope,
                             !.pc = IF svc = Blank THEN "done" ELSE "authorize",
                             !.status = IF svc = Blank THEN "400" ELSE "none"])

\* authorize. A refusal is written as the answer and the handler goes on. A
\* group's map is looked up on a connection of its own, released on return.
Authorize(h) ==
  LET granted == Goto(h, "acquire")
      refused(status) ==
        /\ Set(h, [doraReq[h] EXCEPT !.pc = "acquire",
                     !.status = IF @ = "none" THEN status ELSE @])
        /\ UNCHANGED doraAnswers
  IN /\ doraReq[h].pc = "authorize"
     /\ CASE doraReq[h].scope = "denied" -> refused("403") /\ UNCHANGED doraFaults
          [] doraReq[h].scope = "brand" -> granted /\ UNCHANGED doraFaults
          [] doraReq[h].scope = "group" ->
               \/ Works(h) /\ Free > 0 /\ granted
               \/ Works(h) /\ Free > 0 /\ refused("503")   \* the map is stale
               \/ Breaks(h) /\ refused("503")
     /\ UNCHANGED_TABLES /\ UNCHANGED doraServed

\* GetGroupSummary compares the versions of the group's brands and calls
\* GetSummary, its own connection still held.
GroupVersions(h) ==
  /\ At(h, "group", "versions")
  /\ \/ Works(h) /\ Finish(h, "422", 0)                    \* versions differ
     \/ Breaks(h) /\ Finish(h, "500", 0)
     \/ /\ Works(h) /\ UNCHANGED doraAnswers
        /\ Set(h, [doraReq[h] EXCEPT !.op = "summary", !.pc = "authorize"])
  /\ UNCHANGED_TABLES /\ UNCHANGED doraServed

\* A statement of a summary: any that fails ends it, the next one sees the rows
\* as they are then. first keeps the rows the first of them saw, for the
\* properties only.
SummaryStatement(h, pc, next, stats, first) ==
  /\ At(h, "summary", pc)
  /\ \/ Breaks(h) /\ Finish(h, "500", 0)
     \/ /\ Works(h) /\ UNCHANGED doraAnswers
        /\ Set(h, [doraReq[h] EXCEPT !.pc = next, !.stats = stats, !.first = first])
  /\ UNCHANGED_TABLES /\ UNCHANGED doraServed

\* queryCFRStats of the current window.
CountDeployments(h) ==
  SummaryStatement(h, "deployments", "opened",
    WithDeployments(NoCFRStats, doraEvents, doraReq[h].svc, WindowStart(Now, WindowDays), Now), doraEvents)

CountOpened(h) ==
  SummaryStatement(h, "opened", IF doraReq[h].stats.deployments = 0 THEN "report" ELSE "match",
    WithOpened(doraReq[h].stats, doraEvents, doraReq[h].svc, WindowStart(Now, WindowDays), Now), doraReq[h].first)

MatchIncidents(h) ==
  SummaryStatement(h, "match", IF doraReq[h].stats.opened = 0 THEN "failed" ELSE "report",
    WithMatches(doraReq[h].stats, doraEvents, doraReq[h].svc, WindowStart(Now, WindowDays), Now), doraReq[h].first)

CountFailed(h) ==
  SummaryStatement(h, "failed", "report",
    WithProxy(doraReq[h].stats, doraEvents, doraReq[h].svc, WindowStart(Now, WindowDays), Now), doraReq[h].first)

\* The other numbers, read in one step, and the answer. The views are filled when
\* they are created, before any row, and refreshed by nothing in the code; the
\* links are written elsewhere (MetricsWriter).
Report(h) ==
  LET report == Summary(doraEvents, {}, << >>, doraReq[h].svc, Now, WindowDays, doraReq[h].stats)
  IN /\ At(h, "summary", "report")
     /\ \/ Breaks(h) /\ Finish(h, "500", 0)
        \/ /\ Works(h)
           /\ FinishWith(h, "200", 0, [report |-> report, first |-> doraReq[h].first, last |-> doraEvents])
     /\ UNCHANGED_TABLES /\ UNCHANGED doraServed

\* The other endpoints run one query: deployments, dead letters, one of them.
Read(h) ==
  /\ doraReq[h].pc = "read"
  /\ \/ Breaks(h) /\ Finish(h, IF doraReq[h].op = "get" THEN "404" ELSE "500", 0)
     \/ /\ Works(h)
        /\ CASE doraReq[h].op = "deployments" ->
                  FinishWith(h, "200", 0, Len(NewestDeployments(doraEvents, doraReq[h].svc, Limit)))
             [] doraReq[h].op = "list" ->
                  FinishWith(h, "200", 0, IF Len(deadLetters) < Limit THEN Len(deadLetters) ELSE Limit)
             [] doraReq[h].op = "get" ->
                  Finish(h, IF doraReq[h].row \in DOMAIN deadLetters THEN "200" ELSE "404", 0)
  /\ UNCHANGED_TABLES /\ UNCHANGED doraServed

\* The client or the proxy before it gives up; the request's context ends.
ClientGone(h) ==
  /\ doraReq[h].pc \notin {"idle", "done"} /\ ~doraReq[h].gone
  /\ Set(h, [doraReq[h] EXCEPT !.gone = TRUE])
  /\ UNCHANGED <<doraEvents, deadLetters, doraAnswers, doraFaults, doraServed>>

\* The engine's metrics writer inserts the deployment a job was.
ReportDeployment(row) ==
  /\ doraEvents' = InsertRow(doraEvents, row)
  /\ UNCHANGED <<deadLetters, doraReq, doraAnswers, doraFaults, doraServed>>

Receive(h) ==
  \E svc \in Services :
    \/ \E hook \in Hooks : IngestWebhook(h, hook, svc)
    \/ \E d \in 1..(Len(deadLetters) + 1), q \in Queries :
         \/ q.op = "replay" /\ ReplayDeadLetter(h, d, svc, q.scope)
         \/ q.op # "replay" /\ (q.op # "get" => d = 1) /\ Query(h, q, svc, d)

HandlerStep(h) ==
  \/ Respond(h) \/ AcquireConn(h) \/ InsertEvent(h) \/ WriteDeadLetter(h)
  \/ LoadDeadLetter(h) \/ ReplayEvent(h) \/ MarkReplayed(h)
  \/ Authorize(h) \/ GroupVersions(h) \/ Read(h)
  \/ CountDeployments(h) \/ CountOpened(h) \/ MatchIncidents(h) \/ CountFailed(h) \/ Report(h)

IngestNext ==
  \/ \E h \in DoraHandlers : Receive(h) \/ HandlerStep(h) \/ ClientGone(h)
  \/ \E row \in Reported : ReportDeployment(row)

IngestSpec == IngestInit /\ [][IngestNext]_ingestVars

-----------------------------------------------------------------------------
(* Properties.                                                             *)

\* Every event of the hook has a row, for whatever service it was stored.
Stored(hook, svc) ==
  \A e \in ToSet(Normalize(hook, svc, Now).events) :
    \E i \in DOMAIN doraEvents :
      /\ doraEvents[i].src = e.src /\ doraEvents[i].type = e.type /\ doraEvents[i].corr = e.corr

\* A sender told "processed" finds every commit and incident of its webhook in
\* dora_events, and one handed a dead_letter_id finds its whole webhook under
\* that id with the code it was given, whichever statements failed and whatever
\* other requests did (IngestWebhook, failWithDeadLetter).
WebhooksAreKept ==
  \A a \in doraAnswers : a.op = "ingest" =>
    /\ a.status = "processed" => Stored(a.hook, a.svc)
    /\ a.dl # 0 => /\ a.dl \in DOMAIN deadLetters
                   /\ deadLetters[a.dl].hook = a.hook /\ deadLetters[a.dl].code = a.status

\* A dead letter marked as replayed has all its events in dora_events, and of
\* the replays that raced for it one alone was told so (ReplayDeadLetter).
ReplayedMeansStored ==
  /\ \A d \in DOMAIN deadLetters : deadLetters[d].replayed => Stored(deadLetters[d].hook, Unknown)
  /\ \A a, b \in doraAnswers :
       a.op = "replay" /\ b.op = "replay" /\ a.dl = b.dl /\ a.dl # 0 => a = b

\* However often a webhook with a delivery id is sent, half stored, dead
\* lettered and replayed, and for whatever services, each of its commits or
\* incidents is one row (the source event id and its unique index).
DeliveredOnce ==
  \A i, j \in DOMAIN doraEvents :
    LET r == doraEvents[i]
        q == doraEvents[j]
    IN /\ i # j /\ r.sid # Blank /\ q.sid # Blank
       /\ r.src = q.src /\ r.type = q.type /\ r.corr = q.corr
       => Head(r.sid) # Head(q.sid)

\* A change failure rate counts what the table held at some moment between the
\* two given ones: its deployments, its incidents, and its failures, each
\* deployment once. What it exceeds 100% by was deployed in between.
CFRIsCurrent(cfr, svc, first, last) ==
  LET From == WindowStart(Now, WindowDays)
      deployed(rows) == Cardinality(Within(rows, svc, Deployments, From, Now))
      opened(rows) == Cardinality(Within(rows, svc, {"incident.opened"}, From, Now))
      failed(rows) == Cardinality(Within(rows, svc, {"deployment.failed"}, From, Now))
      failing(rows) == Cardinality(FailingDeployments(rows, svc, From, Now))
  IN /\ cfr.deployments \in deployed(first)..deployed(last)
     /\ cfr.opened \in opened(first)..opened(last)
     /\ CASE cfr.deployments = 0 -> cfr.failing = 0
          [] cfr.deployments > 0 /\ cfr.opened = 0 -> cfr.failing \in failed(first)..failed(last)
          [] cfr.deployments > 0 /\ cfr.opened > 0 -> cfr.failing \in failing(first)..failing(last)
     /\ cfr.failing <= cfr.deployments + (deployed(last) - deployed(first))

\* The statements of a summary see no common snapshot, and the rate divides by a
\* count that is older than the matches. Still every number of it was true at
\* some moment of the request, no deployment failed twice, by its key and by the
\* hour, and a rate above 100% takes a deployment reported between the
\* statements (queryCFRStats).
SummaryIsCurrent ==
  \A a \in doraAnswers : a.op = "summary" /\ a.status = "200" =>
    CFRIsCurrent(a.stats.report.cfr, a.svc, a.stats.first, a.stats.last)

\* Every request ends (the requests are finitely many), also when all connections
\* are held by handlers that wait for one more: the wait obeys the request's
\* context (writeDeadLetter, GetGroupSummary).
RequestsEnd ==
  (\E h \in DoraHandlers : doraReq[h].pc # "idle") ~> (\A h \in DoraHandlers : doraReq[h].pc = "idle")
=============================================================================
