---------------------------- MODULE MetricsWriter ----------------------------
(***************************************************************************)
(* The asynchronous metrics writer of observability/metrics_sql_writer.go: *)
(* callers put job events into a bounded channel, workers take them out    *)
(* and write them, and for the end of a job also its deployment row in     *)
(* dora_events and the links to its commits, in one statement. Close stops *)
(* the workers; it may be called several times, also at once.              *)
(***************************************************************************)
EXTENDS DoraStore

CONSTANTS
  Writers,         \* callers of WriteEvent, one event each
  JobEvent,        \* the event of each writer: job, event, svc, shas, ts
  MetricsWorkers,  \* worker goroutines
  Closers,         \* callers of Close, one call each
  QueueSize,       \* capacity of the channel
  MaxWriteFaults   \* bound: events whose write fails

\* A job has an id, and one path_key, which is the service of its events.
ASSUME WriterAssumption ==
  /\ Blank \notin Writers
  /\ \A w \in Writers : JobEvent[w].job # Blank
  /\ \A v, w \in Writers : JobEvent[v].job = JobEvent[w].job => JobEvent[v].svc = JobEvent[w].svc

VARIABLES
  doraRows,      \* rows of dora_events
  doraLinks,     \* rows of dora_commit_deployment_links
  metricsRows,   \* writers whose event is in metrics_job_events
  metricsQueue,  \* the channel
  metricsCall,   \* per writer: where its WriteEvent stands
  metricsWork,   \* per worker: its state and the event it holds
  metricsClosed, \* the closed flag
  stopCh,        \* how often the stop channel was closed
  closing,       \* per caller of Close: where its call stands
  failedWrites   \* writers whose event was dropped by a failed write

writerVars == <<doraRows, doraLinks, metricsRows, metricsQueue, metricsCall,
                metricsWork, metricsClosed, stopCh, closing, failedWrites>>

closeVars == <<metricsClosed, stopCh, closing>>

Selecting == [pc |-> "select", event |-> Blank]

WriterInit ==
  /\ doraRows = << >> /\ doraLinks = {} /\ metricsRows = {}
  /\ metricsQueue = << >>
  /\ metricsCall = [w \in Writers |-> "idle"]
  /\ metricsWork = [k \in MetricsWorkers |-> Selecting]
  /\ metricsClosed = FALSE /\ stopCh = 0
  /\ closing = [c \in Closers |-> "idle"]
  /\ failedWrites = {}

TablesUnchanged == UNCHANGED <<doraRows, doraLinks, metricsRows, failedWrites>>

-----------------------------------------------------------------------------
(* WriteEvent.                                                             *)

\* The closed flag is read under the lock, which is let go at once.
CheckClosed(w) ==
  /\ metricsCall[w] = "idle"
  /\ metricsCall' = [metricsCall EXCEPT ![w] = IF metricsClosed THEN "refused" ELSE "checked"]
  /\ TablesUnchanged /\ UNCHANGED <<metricsQueue, metricsWork, closeVars>>

\* Mutant of Enqueue: a full queue drops the event and reports nothing.
EnqueueOrForget(w) ==
  /\ metricsCall[w] = "checked"
  /\ metricsCall' = [metricsCall EXCEPT ![w] = "accepted"]
  /\ metricsQueue' = IF Len(metricsQueue) < QueueSize THEN Append(metricsQueue, w) ELSE metricsQueue
  /\ TablesUnchanged /\ UNCHANGED <<metricsWork, closeVars>>

\* The select: into the channel if there is room, an error otherwise. A context
\* that has ended may win over a channel with room.
Enqueue(w) ==
  /\ metricsCall[w] = "checked"
  /\ \/ /\ Len(metricsQueue) < QueueSize
        /\ metricsQueue' = Append(metricsQueue, w)
        /\ metricsCall' = [metricsCall EXCEPT ![w] = "accepted"]
     \/ metricsCall' = [metricsCall EXCEPT ![w] = "refused"] /\ UNCHANGED metricsQueue
  /\ TablesUnchanged /\ UNCHANGED <<metricsWork, closeVars>>

-----------------------------------------------------------------------------
(* Workers.                                                                *)

\* With both channels ready the select takes either.
WorkerTakes(k) ==
  /\ metricsWork[k].pc = "select" /\ metricsQueue # << >>
  /\ metricsWork' = [metricsWork EXCEPT ![k] = [pc |-> "write", event |-> Head(metricsQueue)]]
  /\ metricsQueue' = Tail(metricsQueue)
  /\ TablesUnchanged /\ UNCHANGED <<metricsCall, closeVars>>

WorkerStops(k) ==
  /\ metricsWork[k].pc = "select" /\ stopCh > 0
  /\ metricsWork' = [metricsWork EXCEPT ![k] = [pc |-> "exit", event |-> Blank]]
  /\ TablesUnchanged /\ UNCHANGED <<metricsCall, metricsQueue, closeVars>>

\* The deployment event a job event stands for, or Blank.
doraEventTypeFromJobEvent(event) ==
  CASE event = "job_completed" -> "deployment.succeeded"
    [] event = "job_failed"    -> "deployment.failed"
    [] OTHER                   -> Blank

\* The statement of processEvent. The links are those of the row it inserts:
\* a deployment that is already there gets none.
Written(w) ==
  LET e == JobEvent[w]
      type == doraEventTypeFromJobEvent(e.event)
      row == Row(type, "release-engine", e.svc, e.job, Blank, e.ts)
      outcome == IF type = "deployment.succeeded" THEN "succeeded" ELSE "failed"
      new == type # Blank /\ ~Conflicts(doraRows, row)
  IN /\ metricsRows' = metricsRows \cup {w}
     /\ doraRows' = IF new THEN Append(doraRows, row) ELSE doraRows
     /\ doraLinks' = IF ~new THEN doraLinks ELSE doraLinks \cup
          {[svc |-> e.svc, sha |-> sha, deployment |-> Len(doraRows) + 1,
            outcome |-> outcome, ts |-> e.ts] : sha \in e.shas \ {Blank}}

\* Mutant of ProcessEvent: a worker whose write fails panics and is gone.
ProcessEventOrDie(k) ==
  LET w == metricsWork[k].event
  IN /\ metricsWork[k].pc = "write"
     /\ \/ /\ Written(w) /\ UNCHANGED failedWrites
           /\ metricsWork' = [metricsWork EXCEPT ![k] = Selecting]
        \/ /\ Cardinality(failedWrites) < MaxWriteFaults
           /\ failedWrites' = failedWrites \cup {w}
           /\ metricsWork' = [metricsWork EXCEPT ![k] = [pc |-> "panicked", event |-> Blank]]
           /\ UNCHANGED <<doraRows, doraLinks, metricsRows>>
     /\ UNCHANGED <<metricsQueue, metricsCall, closeVars>>

\* processEvent writes the event, or logs the failure and forgets it.
ProcessEvent(k) ==
  LET w == metricsWork[k].event
  IN /\ metricsWork[k].pc = "write"
     /\ metricsWork' = [metricsWork EXCEPT ![k] = Selecting]
     /\ \/ Written(w) /\ UNCHANGED failedWrites
        \/ /\ Cardinality(failedWrites) < MaxWriteFaults
           /\ failedWrites' = failedWrites \cup {w}
           /\ UNCHANGED <<doraRows, doraLinks, metricsRows>>
     /\ UNCHANGED <<metricsQueue, metricsCall, closeVars>>

-----------------------------------------------------------------------------
(* Close.                                                                  *)

CloseGoes(c, place) ==
  /\ closing' = [closing EXCEPT ![c] = place]
  /\ TablesUnchanged /\ UNCHANGED <<metricsQueue, metricsCall, metricsWork>>

\* Mutant of CloseFlag: a later call goes through Close like the first.
CloseFlagAgain(c) ==
  /\ closing[c] = "idle" /\ CloseGoes(c, "stop")
  /\ metricsClosed' = TRUE /\ UNCHANGED stopCh

\* The flag is set under the lock; a call that finds it set returns at once,
\* whatever the workers are at.
CloseFlag(c) ==
  /\ closing[c] = "idle"
  /\ \/ ~metricsClosed /\ CloseGoes(c, "stop")
     \/ metricsClosed /\ CloseGoes(c, "returned")
  /\ metricsClosed' = TRUE /\ UNCHANGED stopCh

\* close(m.stopCh), after the lock is let go. Closing a closed channel panics.
CloseStop(c) ==
  /\ closing[c] = "stop" /\ CloseGoes(c, "wait")
  /\ stopCh' = stopCh + 1 /\ UNCHANGED metricsClosed

AllStopped == \A k \in MetricsWorkers : metricsWork[k].pc = "exit"

\* Close waits for the workers, for at most ten seconds. What is in the channel
\* stays there.
CloseWait(c) ==
  /\ closing[c] = "wait"
  /\ \/ AllStopped /\ CloseGoes(c, "closed")
     \/ ~AllStopped /\ CloseGoes(c, "timeout")
  /\ UNCHANGED <<metricsClosed, stopCh>>

CloseStep(c) == CloseFlag(c) \/ CloseStop(c) \/ CloseWait(c)

WorkerStep(k) == WorkerTakes(k) \/ WorkerStops(k) \/ ProcessEvent(k)

WriterNext ==
  \/ \E w \in Writers : CheckClosed(w) \/ Enqueue(w)
  \/ \E k \in MetricsWorkers : WorkerStep(k)
  \/ \E c \in Closers : CloseStep(c)

WriterSpec == WriterInit /\ [][WriterNext]_writerVars

-----------------------------------------------------------------------------
(* Properties.                                                             *)

Accepted == {w \in Writers : metricsCall[w] = "accepted"}
Queued == ToSet(metricsQueue)
InHand == {metricsWork[k].event : k \in MetricsWorkers} \ {Blank}

\* An event that WriteEvent accepted is in exactly one place: in the queue, with
\* a worker, written, or counted as failed (WriteEvent, worker, processEvent).
AcceptedIsSomewhere ==
  /\ Accepted = Queued \cup InHand \cup metricsRows \cup failedWrites
  /\ Len(metricsQueue) = Cardinality(Queued)
  /\ Queued \cap InHand = {} /\ (Queued \cup InHand) \cap (metricsRows \cup failedWrites) = {}

\* However many callers close the writer at once, one of them closes the stop
\* channel, once (a second close would panic), and it alone waits for the workers;
\* no worker ends before (the closed flag and the sections of Close around it).
ClosedByOne ==
  /\ stopCh <= 1
  /\ \A c, d \in Closers :
       closing[c] \in {"wait", "closed", "timeout"} /\ closing[d] \notin {"idle", "returned"} => c = d
  /\ (\E k \in MetricsWorkers : metricsWork[k].pc = "exit") => metricsClosed /\ stopCh = 1

\* A job that ended is one deployment, with links of its own commits and of its
\* own outcome only, however often its end is reported; so no summary correlates
\* more deployments with commits than it counts (uq_dora_events_deploy_dedupe,
\* the statement of processEvent, queryLeadTimeStats).
LinkedDeploymentsExist ==
  /\ \A l \in doraLinks :
       /\ l.deployment \in DOMAIN doraRows
       /\ \E w \in metricsRows :
            /\ JobEvent[w].job = doraRows[l.deployment].corr /\ l.sha \in JobEvent[w].shas
            /\ doraEventTypeFromJobEvent(JobEvent[w].event) = doraRows[l.deployment].type
  /\ \A from, to \in {JobEvent[w].ts : w \in Writers} : \A w \in Writers :
       LET s == LeadTimeStats(doraRows, doraLinks, JobEvent[w].svc, from, to + 1)
       IN s.correlated <= s.successful
  /\ \A i, j \in DOMAIN doraRows :
       doraRows[i].corr = doraRows[j].corr /\ doraRows[i].type = doraRows[j].type => i = j

\* The writer comes to rest. While it is open every accepted event is written or
\* counted as failed: a failed write does not stop the others. Once it is closed
\* every worker ends and every Close under way returns, although callers go on
\* writing; events that are in the channel then are nobody's (worker, Close).
AcceptedSettles ==
  (Accepted # {} \/ metricsClosed) ~>
    \/ ~metricsClosed /\ Accepted \subseteq metricsRows \cup failedWrites
    \/ /\ metricsClosed /\ AllStopped
       /\ \A c \in Closers : closing[c] \notin {"stop", "wait"}

-----------------------------------------------------------------------------
(* What the comment on Close says of the same code.                        *)

\* "Close stops the writer and drains the queue.": a Close that returns without
\* an error after the workers' end leaves no event in the channel.
CloseDrains ==
  [][\A c \in Closers :
       closing[c] # "closed" /\ closing'[c] = "closed" => metricsQueue = << >>]_writerVars
=============================================================================
