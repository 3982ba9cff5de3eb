----------------------------- MODULE MCServices -----------------------------
(* Small instances, for TLC, of services that share no state with the job   *)
(* engine nor with one another. A behaviour runs one of them, its part.     *)
EXTENDS DoraIngest, MetricsWriter, Edge, DecisionApi

CONSTANTS p1, p2

VARIABLE part

Hook(provider, event, delivery) ==
  [provider |-> provider, event |-> event, delivery |-> delivery, json |-> TRUE]

Push(provider, delivery, commits) ==
  Hook(provider, "push", delivery) @@ [commits |-> commits]

Commit(sha, at) == [sha |-> sha, at |-> at]

Alert(provider, event, delivery, id, created) ==
  Hook(provider, event, delivery) @@ [id |-> id, created |-> created, updated |-> Blank]

TwoCommits == Push("github", "d1", <<Commit("a", 12), Commit("b", Blank)>>)

\* Two commits in one push, and one without a sha; times that do not parse or are
\* zero; a merge request without a delivery id; incidents; an event of no interest.
SomeHooks ==
  {TwoCommits,
   Push("gitlab", "d2", <<Commit(Blank, 1), Commit("a", Garbled)>>),
   Push("gitlab", "d8", <<Commit("a", ZeroTime)>>),
   Hook("gitlab", "merge", Blank) @@ [merged |-> TRUE, mergeSha |-> Blank, headSha |-> "b", at |-> 13],
   Alert("opsgenie", "create", "d4", "job1", 14),
   Alert("datadog", "any", "d5", "other", 15) @@ [hint |-> {"trigger"}, status |-> {}],
   Hook("github", "ping", "d6")}

\* A deployment of job1; a push of which one commit was stored
\* before it was dead-lettered.
SomeSeeds ==
  {[rows |-> <<Row("deployment.succeeded", "release-engine", "svc", "job1", Blank, 13)>>,
    letters |-> << >>],
   [rows |-> <<Normalize(TwoCommits, "svc", Now).events[1]>>,
    letters |-> <<[provider |-> "github", hook |-> TwoCommits,
                   code |-> "store_error", replayed |-> FALSE]>>]}

\* A deployment that failed an hour before the incidents.
SomeReported == {Row("deployment.failed", "release-engine", "svc", "job2", Blank, 14)}

SomeQueries ==
  {[op |-> "replay", scope |-> "brand"],
   [op |-> "group", scope |-> "group"], [op |-> "summary", scope |-> "brand"],
   [op |-> "deployments", scope |-> "brand"], [op |-> "list", scope |-> "denied"],
   [op |-> "get", scope |-> "brand"]}

JobEnd(job, event, shas, ts) == [job |-> job, event |-> event, svc |-> "svc", shas |-> shas, ts |-> ts]

\* A job whose end is reported twice, another that failed, and one that started.
SomeEvents ==
  [w \in 1..4 |->
     CASE w = 1 -> JobEnd("job1", "job_completed", {"a", Blank}, 3)
       [] w = 2 -> JobEnd("job1", "job_completed", {"b"}, 4)
       [] w = 3 -> JobEnd("job2", "job_failed", {"a"}, 4)
       [] w = 4 -> JobEnd("job2", "job_started", {}, 2)]

\* No header; a kid that is not published yet; a token that has expired; and one
\* without a tenant.
SomeBearers ==
  {[kid |-> "none", valid |-> FALSE, tenant |-> "t1"], [kid |-> "k1", valid |-> TRUE, tenant |-> "t1"],
   [kid |-> "k2", valid |-> TRUE, tenant |-> ""], [kid |-> "k1", valid |-> FALSE, tenant |-> "t1"]}

SomeGates == {[id |-> 1, job |-> "j1"], [id |-> 2, job |-> "j2"]}

\* The platform team may approve anything, bob only the steps of the first job.
SomeAuthority(approver, s) == approver = "cay" \/ s.job = "j1"

Decision(id, decision, approver, key) ==
  [step |-> CHOOSE s \in SomeGates : s.id = id, decision |-> decision, approver |-> approver, key |-> key]

\* One key for the steps of two jobs, both decisions under it, a decision with no
\* key, one against it under another key, one without authority, and one that is
\* no decision.
SomeDecisions ==
  {Decision(1, "approved", "bob", "k"), Decision(2, "approved", "cay", "k"),
   Decision(2, "rejected", "cay", "k"), Decision(1, "approved", "cay", ""),
   Decision(1, "rejected", "cay", "l"), Decision(2, "approved", "bob", ""),
   Decision(1, "perhaps", "cay", "")}

-----------------------------------------------------------------------------
vars == <<part, ingestVars, writerVars, edgeVars, decisionVars>>

Init == part \in {"ingest", "writer", "edge", "decision"}
        /\ IngestInit /\ WriterInit /\ EdgeInit /\ DecisionInit
        /\ (part # "ingest" => deadLetters = << >>)

IngestOnly(A) == part = "ingest" /\ A /\ UNCHANGED <<part, writerVars, edgeVars, decisionVars>>
WriterOnly(A) == part = "writer" /\ A /\ UNCHANGED <<part, ingestVars, edgeVars, decisionVars>>

Next ==
  \/ IngestOnly(IngestNext)
  \/ WriterOnly(WriterNext)
  \/ part = "edge" /\ EdgeNext /\ UNCHANGED <<part, ingestVars, writerVars, decisionVars>>
  \/ part = "decision" /\ DecisionNext /\ UNCHANGED <<part, ingestVars, writerVars, edgeVars>>

\* The runtime does not stop: some handler goes on, or some client gives up on one
\* that waits; some worker or some call of Close goes on. Requests and events are
\* finitely many, so this is enough for each of them.
Fairness ==
  /\ WF_vars(IngestOnly(\E h \in DoraHandlers : HandlerStep(h) \/ ClientGone(h)))
  /\ WF_vars(WriterOnly(\/ \E k \in MetricsWorkers : WorkerStep(k)
                        \/ \E c \in Closers : CloseStop(c) \/ CloseWait(c)))

Spec == Init /\ [][Next]_vars /\ Fairness
=============================================================================
