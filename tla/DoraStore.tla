------------------------------ MODULE DoraStore ------------------------------
(***************************************************************************)
(* The DORA events of a tenant as values: the rows of dora_events and the  *)
(* unique indexes that guard them (internal/db/schema.go), the normalizers *)
(* that turn a provider's webhook into events (internal/dora), and the     *)
(* rates the summary endpoint computes from the rows (queryLeadTimeStats,  *)
(* queryCFRStats, queryMTTRStats in dora_handler.go). Texts are model      *)
(* values, times are numbers; the tenant and the environment are fixed.    *)
(***************************************************************************)
EXTENDS Naturals, Sequences, FiniteSets, SequencesExt

CONSTANTS
  Blank,     \* an absent or empty text: a header, an id, a sha
  Garbled,   \* a timestamp that does not parse
  HOUR,      \* interval '1 hour' of the heuristic match
  DAY        \* the bucket of date_trunc('day', ...)

\* time.Time's zero value, which a provider can send and no event may carry.
ZeroTime == 0

Deployments == {"deployment.succeeded", "deployment.failed"}
Commits == {"commit.pushed", "commit.merged"}
EventTypes == Deployments \cup Commits \cup
              {"incident.opened", "incident.resolved", "rollback.completed"}

Row(type, src, svc, corr, sid, ts) ==
  [type |-> type, src |-> src, svc |-> svc, corr |-> corr, sid |-> sid, ts |-> ts]

-----------------------------------------------------------------------------
(* The table.                                                              *)

\* uq_dora_events_source_event: one row per source and source event.
SameSourceEvent(r, e) == e.sid # Blank /\ r.src = e.src /\ r.sid = e.sid

\* uq_dora_events_deploy_dedupe: one row per deployment outcome of a job.
SameDeployment(r, e) ==
  /\ e.type \in Deployments /\ e.corr # Blank
  /\ r.svc = e.svc /\ r.type = e.type /\ r.corr = e.corr

\* Mutant of Conflicts: the index on source events is missing.
ConflictsOnDeploymentOnly(rows, e) ==
  \E i \in DOMAIN rows : SameDeployment(rows[i], e)

\* Mutant of Conflicts: the index on deployments is missing.
ConflictsOnSourceOnly(rows, e) ==
  \E i \in DOMAIN rows : SameSourceEvent(rows[i], e)

Conflicts(rows, e) ==
  \E i \in DOMAIN rows : SameSourceEvent(rows[i], e) \/ SameDeployment(rows[i], e)

\* INSERT ... ON CONFLICT DO NOTHING.
InsertRow(rows, e) == IF Conflicts(rows, e) THEN rows ELSE Append(rows, e)

-----------------------------------------------------------------------------
(* Normalizers. A hook has a provider, the event named by its header, a    *)
(* delivery id (or Blank), whether its body is JSON, and the body's fields. *)

Failure == [ok |-> FALSE, events |-> << >>]
Success(events) == [ok |-> TRUE, events |-> events]

\* The id of an event is that of the delivery with what tells events apart.
SourceID(delivery, parts) == IF delivery = Blank THEN Blank ELSE <<delivery, parts>>

PushSourceID(delivery, sha, i) == SourceID(delivery, <<"commit.pushed", sha, i>>)

\* A missing time is the time of receipt.
TimeOr(at, now) == IF at = Blank THEN now ELSE at

\* The event of the i-th commit of a push.
PushEvent(hook, svc, now, i) ==
  LET c == hook.commits[i]
  IN Row("commit.pushed", hook.provider, svc, c.sha,
         PushSourceID(hook.delivery, c.sha, i), TimeOr(c.at, now))

\* The k-th of a set of numbers.
Nth(S, k) == CHOOSE i \in S : Cardinality({j \in S : j < i}) = k - 1

\* The commits that have a sha.
NamedCommits(hook) == {i \in DOMAIN hook.commits : hook.commits[i].sha # Blank}

\* One event per commit that has a sha; a time that does not parse fails the hook.
NormalizePush(hook, svc, now) ==
  LET named == NamedCommits(hook)
      events == [k \in 1..Cardinality(named) |-> PushEvent(hook, svc, now, Nth(named, k))]
  IN IF ~hook.json \/ \E i \in DOMAIN events : events[i].ts = Garbled THEN Failure
     ELSE Success(events)

\* A merged request is one event; it needs a merge commit or a head.
NormalizeMerge(hook, svc, now) ==
  LET sha == IF hook.mergeSha # Blank THEN hook.mergeSha ELSE hook.headSha
  IN IF ~hook.json THEN Failure
     ELSE IF ~hook.merged THEN Success(<< >>)
     ELSE IF sha = Blank \/ hook.at = Garbled THEN Failure
     ELSE Success(<<Row("commit.merged", hook.provider, svc, sha,
                        SourceID(hook.delivery, <<"commit.merged", sha>>), TimeOr(hook.at, now))>>)

NormalizeGit(hook, svc, now) ==
  CASE hook.event = "push"  -> NormalizePush(hook, svc, now)
    [] hook.event = "merge" -> NormalizeMerge(hook, svc, now)
    [] OTHER                -> Success(<< >>)

\* For incidents a time that does not parse counts as missing.
Lenient(at, otherwise) == IF at \in {Blank, Garbled} THEN otherwise ELSE at

\* The event an incident hook stands for, once its type is known.
Incident(hook, type, svc, now) ==
  LET created == Lenient(hook.created, now)
  IN IF ~hook.json \/ hook.id = Blank THEN Failure
     ELSE IF type = Blank THEN Success(<< >>)
     ELSE Success(<<Row(type, hook.provider, svc, hook.id, SourceID(hook.delivery, <<type, hook.id>>),
                        IF type = "incident.resolved" THEN Lenient(hook.updated, created) ELSE created)>>)

NormalizeOpsgenie(hook, svc, now) ==
  Incident(hook,
           CASE hook.event \in {"create", "created", "opened", "open"} -> "incident.opened"
             [] hook.event \in {"close", "closed", "resolved", "acknowledged"} -> "incident.resolved"
             [] OTHER -> Blank,
           svc, now)

\* hint and status are the sets of words event_type and status contain.
NormalizeDatadog(hook, svc, now) ==
  Incident(hook,
           IF "resolve" \in hook.hint \/ {"resolved", "ok"} \cap hook.status # {} THEN "incident.resolved"
           ELSE IF {"open", "trigger"} \cap hook.hint # {} \/ {"trigger", "alert"} \cap hook.status # {}
           THEN "incident.opened" ELSE Blank,
           svc, now)

\* The providers NewDoraHandler registers.
Registered == {"github", "gitlab", "opsgenie", "datadog"}

Normalize(hook, svc, now) ==
  CASE hook.provider \in {"github", "gitlab"} -> NormalizeGit(hook, svc, now)
    [] hook.provider = "opsgenie"             -> NormalizeOpsgenie(hook, svc, now)
    [] hook.provider = "datadog"              -> NormalizeDatadog(hook, svc, now)

\* What ValidateEvent refuses: the tenant and the source are never blank here.
ValidEvent(e) == e.svc # Blank /\ e.ts # ZeroTime /\ e.type \in EventTypes

-----------------------------------------------------------------------------
(* Rates of a service over [from, to).                                     *)

Within(rows, svc, types, from, to) ==
  {i \in DOMAIN rows : /\ rows[i].svc = svc /\ rows[i].type \in types
                       /\ from <= rows[i].ts /\ rows[i].ts < to}

\* Incidents opened at or after the deployment and before the window's end.
After(rows, svc, d, to) == Within(rows, svc, {"incident.opened"}, rows[d].ts, to)

\* Deployments that an incident names.
ExplicitMatches(rows, svc, from, to) ==
  {d \in Within(rows, svc, Deployments, from, to) :
     /\ rows[d].corr # Blank
     /\ \E i \in After(rows, svc, d, to) : rows[i].corr = rows[d].corr}

\* Mutant of HeuristicMatches: explicit matches are counted again.
HeuristicMatchesAll(rows, svc, from, to) ==
  {d \in Within(rows, svc, Deployments, from, to) :
     \E i \in After(rows, svc, d, to) : rows[i].ts <= rows[d].ts + HOUR}

\* Other deployments that an incident follows within the hour.
HeuristicMatches(rows, svc, from, to) ==
  {d \in Within(rows, svc, Deployments, from, to) :
     /\ d \notin ExplicitMatches(rows, svc, from, to)
     /\ \E i \in After(rows, svc, d, to) : rows[i].ts <= rows[d].ts + HOUR}

\* What queryCFRStats keeps: Percent as the two numbers it divides, and whether
\* failed deployments stand in for incidents.
NoCFRStats == [deployments |-> 0, opened |-> 0, explicit |-> 0, heuristic |-> 0, proxy |-> FALSE, failing |-> 0]

\* Its statements, one by one, each over the rows as they are then.
WithDeployments(s, rows, svc, from, to) ==
  [s EXCEPT !.deployments = Cardinality(Within(rows, svc, Deployments, from, to))]

WithOpened(s, rows, svc, from, to) ==
  [s EXCEPT !.opened = Cardinality(Within(rows, svc, {"incident.opened"}, from, to))]

WithMatches(s, rows, svc, from, to) ==
  LET explicit == Cardinality(ExplicitMatches(rows, svc, from, to))
      heuristic == Cardinality(HeuristicMatches(rows, svc, from, to))
  IN [s EXCEPT !.explicit = explicit, !.heuristic = heuristic, !.failing = explicit + heuristic]

WithProxy(s, rows, svc, from, to) ==
  [s EXCEPT !.proxy = TRUE, !.failing = Cardinality(Within(rows, svc, {"deployment.failed"}, from, to))]

\* All of them over the same rows: without deployments nothing is matched, and
\* without incidents the failed deployments count.
CFRStats(rows, svc, from, to) ==
  LET counted == WithOpened(WithDeployments(NoCFRStats, rows, svc, from, to), rows, svc, from, to)
      matched == WithMatches(counted, rows, svc, from, to)
  IN CASE counted.deployments = 0 -> counted
       [] counted.deployments > 0 /\ counted.opened > 0 -> matched
       [] counted.deployments > 0 /\ counted.opened = 0 -> WithProxy(matched, rows, svc, from, to)

\* The deployments of a window that an incident with their key or within the hour
\* follows: what the two kinds of matches are meant to add up to.
FailingDeployments(rows, svc, from, to) ==
  {d \in Within(rows, svc, Deployments, from, to) :
     \E i \in After(rows, svc, d, to) :
       \/ rows[d].corr # Blank /\ rows[i].corr = rows[d].corr
       \/ rows[i].ts <= rows[d].ts + HOUR}

cfrQuality(s) ==
  CASE s.deployments = 0 -> "no_data"
    [] s.deployments > 0 /\ s.opened = 0 -> IF s.proxy THEN "proxy" ELSE "no_data"
    [] s.deployments > 0 /\ s.opened > 0 ->
         IF s.explicit > 0 /\ s.heuristic = 0 THEN "complete" ELSE "partial"

\* Day a time falls in, as the first moment of that day.
Bucket(t) == (t \div DAY) * DAY

\* dora_incidents_daily: every opened incident joined with every resolution of
\* the same key, by the day of the opening.
ResolvedPairs(rows, svc, from, to) ==
  {pair \in (DOMAIN rows) \X (DOMAIN rows) :
     LET o == rows[pair[1]]  r == rows[pair[2]] IN
     /\ o.type = "incident.opened" /\ r.type = "incident.resolved"
     /\ o.svc = svc /\ o.corr = r.corr
     /\ Bucket(from) <= Bucket(o.ts) /\ Bucket(o.ts) < Bucket(to)}

\* queryMTTRStats and mttrQuality: openings are counted in the table, pairs in
\* the view, which holds the rows of its last refresh.
MTTRQuality(rows, viewRows, svc, from, to) ==
  LET opened == Cardinality(Within(rows, svc, {"incident.opened"}, from, to))
      pairs == Cardinality(ResolvedPairs(viewRows, svc, from, to))
  IN CASE opened = 0 -> "no_data"
       [] opened > 0 /\ (pairs = 0 \/ pairs < opened) -> "partial"
       [] OTHER -> "complete"

\* dora_deployment_frequency_daily, summed over the buckets of the window.
SuccessCount(viewRows, svc, from, to) ==
  Cardinality({i \in DOMAIN viewRows :
                 /\ viewRows[i].svc = svc /\ viewRows[i].type = "deployment.succeeded"
                 /\ from <= Bucket(viewRows[i].ts) /\ Bucket(viewRows[i].ts) < to})

\* queryLeadTimeStats: successful deployments, and those a link ties to a commit.
LeadTimeStats(rows, links, svc, from, to) ==
  [successful |-> Cardinality(Within(rows, svc, {"deployment.succeeded"}, from, to)),
   correlated |-> Cardinality({l.deployment : l \in
                    {k \in links : /\ k.svc = svc /\ k.outcome = "succeeded"
                                   /\ from <= k.ts /\ k.ts < to}}),
   timed |-> {d \in Within(rows, svc, {"deployment.succeeded"}, from, to) :
                \E l \in links : /\ l.deployment = d /\ l.outcome = "succeeded"
                                 /\ \E i \in DOMAIN rows :
                                      /\ rows[i].svc = svc /\ rows[i].type \in Commits
                                      /\ rows[i].corr = l.sha /\ rows[i].ts < to}]

leadTimeQuality(s) ==
  CASE s.successful = 0 \/ s.correlated = 0 \/ s.timed = {} -> "no_data"
    [] OTHER -> IF 100 * s.correlated >= 80 * s.successful THEN "complete" ELSE "partial"

\* The moment a window of so many days begins that ends at the given one.
WindowStart(end, days) == IF end > days * DAY THEN end - days * DAY ELSE 0

\* GetSummary's answer for a window that ends now, whose change failure rate is
\* given, and for the one before it.
Summary(rows, links, viewRows, svc, now, days, cfr) ==
  LET start == WindowStart(now, days)
      prevStart == WindowStart(start, days)
      lead == LeadTimeStats(rows, links, svc, start, now)
  IN [success |-> SuccessCount(viewRows, svc, start, now),
      prevSuccess |-> SuccessCount(viewRows, svc, prevStart, start),
      lead |-> lead, leadQuality |-> leadTimeQuality(lead),
      prevLead |-> LeadTimeStats(rows, links, svc, prevStart, start),
      cfr |-> cfr, cfrQuality |-> cfrQuality(cfr),
      prevCfr |-> CFRStats(rows, svc, prevStart, start),
      mttrQuality |-> MTTRQuality(rows, viewRows, svc, start, now)]

\* GetDeployments: the newest deployments, at most limit of them.
NewestDeployments(rows, svc, limit) ==
  LET all == SelectSeq(rows, LAMBDA r : r.svc = svc /\ r.type \in Deployments)
      sorted == SortSeq(all, LAMBDA q, r : q.ts > r.ts)
  IN SubSeq(sorted, 1, IF Len(sorted) < limit THEN Len(sorted) ELSE limit)
=============================================================================
