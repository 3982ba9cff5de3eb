------------------------- MODULE MetricsWriterProofs -------------------------
(***************************************************************************)
(* The metrics writer, for every number of callers and workers and every   *)
(* size of the queue: no accepted event is lost or written twice, callers  *)
(* of Close stop the workers once, and a job's end is one deployment.      *)
(***************************************************************************)
EXTENDS MetricsWriter, FiniteSetTheorems, TLAPS

Places == [pc : {"select", "write", "exit"}, event : Writers \cup {Blank}]

\* Every event has one carrier: a worker holds an event exactly while it writes
\* it, no two workers hold the same, and the queue holds none twice.
CarrierInv ==
  /\ metricsCall \in [Writers -> {"idle", "checked", "accepted", "refused"}]
  /\ metricsQueue \in Seq(Writers)
  /\ metricsWork \in [MetricsWorkers -> Places]
  /\ metricsRows \subseteq Writers /\ failedWrites \subseteq Writers
  /\ \A k \in MetricsWorkers : metricsWork[k].pc = "write" <=> metricsWork[k].event # Blank
  /\ \A i, j \in 1..Len(metricsQueue) : metricsQueue[i] = metricsQueue[j] => i = j
  /\ \A k, m \in MetricsWorkers :
       metricsWork[k].event = metricsWork[m].event /\ metricsWork[k].event # Blank => k = m

QueueCounted == IsFiniteSet(Queued) /\ Cardinality(Queued) = Len(metricsQueue)

WriterInv == CarrierInv /\ QueueCounted /\ AcceptedIsSomewhere

-----------------------------------------------------------------------------
LEMMA QueuedIs ==
  ASSUME NEW q \in Seq(Writers) PROVE ToSet(q) = {q[i] : i \in 1..Len(q)}
BY DEF ToSet

LEMMA QueuedAfterAppend ==
  ASSUME NEW q \in Seq(Writers), NEW w \in Writers
  PROVE  ToSet(Append(q, w)) = ToSet(q) \cup {w}
<1>1. /\ Append(q, w) \in Seq(Writers) /\ Len(Append(q, w)) = Len(q) + 1 /\ Len(q) \in Nat
      /\ \A i \in 1..Len(q) : Append(q, w)[i] = q[i]
      /\ Append(q, w)[Len(q) + 1] = w
  OBVIOUS
<1>2. ToSet(q) = {q[i] : i \in 1..Len(q)}
      /\ ToSet(Append(q, w)) = {Append(q, w)[i] : i \in 1..(Len(q) + 1)}
  BY <1>1, QueuedIs
<1> DEFINE p == Append(q, w)
<1> HIDE DEF p
<1>3. 1..(Len(q) + 1) = (1..Len(q)) \cup {Len(q) + 1}
  BY <1>1
<1>4. {p[i] : i \in 1..(Len(q) + 1)} = {q[i] : i \in 1..Len(q)} \cup {w}
  BY <1>1, <1>3 DEF p
<1> QED
  BY <1>2, <1>4 DEF p

LEMMA QueuedAfterTail ==
  ASSUME NEW q \in Seq(Writers), q # << >>, \A i, j \in 1..Len(q) : q[i] = q[j] => i = j
  PROVE  /\ Head(q) \in ToSet(q) /\ Head(q) \in Writers
         /\ ToSet(Tail(q)) = ToSet(q) \ {Head(q)}
         /\ Tail(q) \in Seq(Writers) /\ Len(Tail(q)) = Len(q) - 1
         /\ \A i, j \in 1..Len(Tail(q)) : Tail(q)[i] = Tail(q)[j] => i = j
<1>1. /\ Tail(q) \in Seq(Writers) /\ Len(Tail(q)) = Len(q) - 1 /\ Len(q) \in Nat \ {0}
      /\ \A i \in 1..(Len(q) - 1) : Tail(q)[i] = q[i + 1]
      /\ Head(q) = q[1] /\ Head(q) \in Writers
  OBVIOUS
<1>2. ToSet(q) = {q[i] : i \in 1..Len(q)}
      /\ ToSet(Tail(q)) = {Tail(q)[i] : i \in 1..(Len(q) - 1)}
  BY <1>1, QueuedIs
<1> DEFINE p == Tail(q)
<1> HIDE DEF p
<1>3. \A i, j \in 1..(Len(q) - 1) : p[i] = p[j] => i = j
  BY <1>1 DEF p
<1>4. \A x : (\E i \in 1..(Len(q) - 1) : x = p[i]) => (\E i \in 1..Len(q) : x = q[i]) /\ x # q[1]
  BY <1>1 DEF p
<1>5. ASSUME NEW j \in 1..Len(q), q[j] # q[1] PROVE \E i \in 1..(Len(q) - 1) : q[j] = p[i]
  <2>1. j - 1 \in 1..(Len(q) - 1) /\ (j - 1) + 1 = j
    BY <1>1, <1>5
  <2> QED
    BY <2>1, <1>1 DEF p
<1>6. {p[i] : i \in 1..(Len(q) - 1)} = {q[i] : i \in 1..Len(q)} \ {q[1]}
  <2> DEFINE P == {p[i] : i \in 1..(Len(q) - 1)}
             Q == {q[i] : i \in 1..Len(q)} \ {q[1]}
  <2>1. \A x \in P : x \in Q
    BY <1>4
  <2>2. ASSUME NEW x \in Q PROVE x \in P
    <3>1. PICK j \in 1..Len(q) : x = q[j] /\ q[j] # q[1]
      OBVIOUS
    <3>2. PICK i \in 1..(Len(q) - 1) : q[j] = p[i]
      BY <1>5, <3>1
    <3> QED
      BY <3>1, <3>2
  <2> HIDE DEF P, Q
  <2>3. P = Q
    BY <2>1, <2>2
  <2> QED
    BY <2>3 DEF P, Q
<1> QED
  BY <1>1, <1>2, <1>3, <1>6 DEF p

LEMMA WriterStarts == WriterInit => WriterInv
<1> SUFFICES ASSUME WriterInit PROVE WriterInv
  OBVIOUS
<1>1. Queued = {}
  BY DEF WriterInit, Queued, ToSet
<1>2. QueueCounted
  BY <1>1, FS_EmptySet DEF QueueCounted, WriterInit
<1>3. CarrierInv
  BY DEF WriterInit, CarrierInv, Places, Selecting
<1>4. InHand = {} /\ Accepted = {}
  BY DEF WriterInit, InHand, Accepted, Selecting
<1>5. AcceptedIsSomewhere
  BY <1>1, <1>2, <1>4 DEF AcceptedIsSomewhere, WriterInit, QueueCounted
<1> QED
  BY <1>2, <1>3, <1>5 DEF WriterInv

\* A worker puts down what it holds.
LEMMA HandDrops ==
  ASSUME CarrierInv, NEW k \in MetricsWorkers, NEW place \in {"select", "exit"},
         metricsWork' = [metricsWork EXCEPT ![k] = [pc |-> place, event |-> Blank]]
  PROVE  /\ InHand' = InHand \ {metricsWork[k].event}
         /\ metricsWork' \in [MetricsWorkers -> Places]
         /\ \A m \in MetricsWorkers : metricsWork'[m].pc = "write" <=> metricsWork'[m].event # Blank
         /\ \A l, m \in MetricsWorkers :
              metricsWork'[l].event = metricsWork'[m].event /\ metricsWork'[l].event # Blank => l = m
<1>1. metricsWork \in [MetricsWorkers -> Places]
  BY DEF CarrierInv
<1>2. metricsWork'[k] = [pc |-> place, event |-> Blank]
      /\ \A m \in MetricsWorkers \ {k} : metricsWork'[m] = metricsWork[m]
  BY <1>1
<1>3. metricsWork' \in [MetricsWorkers -> Places]
  BY <1>1 DEF Places
<1>4. /\ metricsWork'[k].event = Blank /\ metricsWork'[k].pc # "write"
      /\ \A m \in MetricsWorkers \ {k} :
           metricsWork'[m].event = metricsWork[m].event /\ metricsWork'[m].pc = metricsWork[m].pc
  BY <1>2
<1>5. InHand' = InHand \ {metricsWork[k].event}
  BY <1>4 DEF InHand, CarrierInv
<1> QED
  BY <1>3, <1>4, <1>5 DEF CarrierInv

\* A worker that holds nothing takes an event that no worker holds.
LEMMA HandTakes ==
  ASSUME CarrierInv, NEW k \in MetricsWorkers, metricsWork[k].pc = "select",
         NEW w \in Writers, w \notin InHand,
         metricsWork' = [metricsWork EXCEPT ![k] = [pc |-> "write", event |-> w]]
  PROVE  /\ InHand' = InHand \cup {w}
         /\ metricsWork' \in [MetricsWorkers -> Places]
         /\ \A m \in MetricsWorkers : metricsWork'[m].pc = "write" <=> metricsWork'[m].event # Blank
         /\ \A l, m \in MetricsWorkers :
              metricsWork'[l].event = metricsWork'[m].event /\ metricsWork'[l].event # Blank => l = m
<1>1. metricsWork \in [MetricsWorkers -> Places]
  BY DEF CarrierInv
<1>2. metricsWork'[k] = [pc |-> "write", event |-> w]
      /\ \A m \in MetricsWorkers \ {k} : metricsWork'[m] = metricsWork[m]
  BY <1>1
<1>3. metricsWork' \in [MetricsWorkers -> Places]
  BY <1>1 DEF Places
<1>4. /\ metricsWork'[k].event = w /\ metricsWork'[k].pc = "write" /\ w # Blank
      /\ metricsWork[k].event = Blank
      /\ \A m \in MetricsWorkers \ {k} :
           /\ metricsWork'[m].event = metricsWork[m].event /\ metricsWork'[m].pc = metricsWork[m].pc
           /\ metricsWork[m].event # w
  BY <1>2, WriterAssumption DEF CarrierInv, InHand
<1>5. InHand' = InHand \cup {w}
  BY <1>4 DEF InHand
<1> QED
  BY <1>3, <1>4, <1>5 DEF CarrierInv

LEMMA WriterKept == WriterInv /\ [WriterNext]_writerVars => WriterInv'
<1> SUFFICES ASSUME WriterInv, [WriterNext]_writerVars PROVE WriterInv'
  OBVIOUS
<1>1. CarrierInv /\ QueueCounted /\ AcceptedIsSomewhere
  BY DEF WriterInv
<1>2. Len(metricsQueue) = Cardinality(Queued) /\ Len(metricsQueue) \in Nat
  BY <1>1 DEF QueueCounted, CarrierInv
<1>3. ASSUME NEW w \in Writers, CheckClosed(w) PROVE WriterInv'
  <2>1. UNCHANGED <<metricsQueue, metricsWork, metricsRows, failedWrites>>
    BY <1>3 DEF CheckClosed, TablesUnchanged
  <2>2. metricsCall' \in [Writers -> {"idle", "checked", "accepted", "refused"}] /\ Accepted' = Accepted
    BY <1>1, <1>3 DEF CheckClosed, CarrierInv, Accepted
  <2> QED
    BY <1>1, <2>1, <2>2
    DEF WriterInv, CarrierInv, QueueCounted, AcceptedIsSomewhere, Queued, InHand
<1>4. ASSUME NEW w \in Writers, Enqueue(w) PROVE WriterInv'
  <2>1. UNCHANGED <<metricsWork, metricsRows, failedWrites>>
    BY <1>4 DEF Enqueue, TablesUnchanged
  <2>2. InHand' = InHand
    BY <1>1, <2>1 DEF InHand
  <2>3. w \notin Accepted
    BY <1>4 DEF Enqueue, Accepted
  <2>4. CASE UNCHANGED metricsQueue /\ metricsCall' = [metricsCall EXCEPT ![w] = "refused"]
    <3>1. metricsCall' \in [Writers -> {"idle", "checked", "accepted", "refused"}] /\ Accepted' = Accepted
      BY <1>1, <1>4, <2>4 DEF Enqueue, CarrierInv, Accepted
    <3> QED
      BY <1>1, <2>1, <2>2, <2>4, <3>1
      DEF WriterInv, CarrierInv, QueueCounted, AcceptedIsSomewhere, Queued
  <2>5. CASE /\ metricsQueue' = Append(metricsQueue, w)
             /\ metricsCall' = [metricsCall EXCEPT ![w] = "accepted"]
    <3>1. metricsCall' \in [Writers -> {"idle", "checked", "accepted", "refused"}]
          /\ Accepted' = Accepted \cup {w}
      BY <1>1, <1>4, <2>5 DEF Enqueue, CarrierInv, Accepted
    <3>2. w \notin Queued /\ w \notin InHand /\ w \notin metricsRows /\ w \notin failedWrites
      BY <1>1, <2>3 DEF AcceptedIsSomewhere
    <3>3. Queued' = Queued \cup {w}
      BY <1>1, <2>5, QueuedAfterAppend DEF Queued, CarrierInv
    <3>4. QueueCounted' /\ Len(metricsQueue') = Cardinality(Queued')
      <4>1. Len(metricsQueue') = Len(metricsQueue) + 1
        BY <1>1, <2>5 DEF CarrierInv
      <4>2. IsFiniteSet(Queued \cup {w}) /\ Cardinality(Queued \cup {w}) = Cardinality(Queued) + 1
        BY <1>1, <3>2, FS_AddElement DEF QueueCounted
      <4> QED
        BY <1>2, <3>3, <4>1, <4>2 DEF QueueCounted
    <3>5. /\ metricsQueue' \in Seq(Writers)
          /\ \A i, j \in 1..Len(metricsQueue') : metricsQueue'[i] = metricsQueue'[j] => i = j
      <4>1. \A i \in 1..Len(metricsQueue) : metricsQueue[i] # w
        BY <1>1, <3>2, QueuedIs DEF Queued, CarrierInv
      <4> QED
        BY <1>1, <2>5, <4>1 DEF CarrierInv
    <3>6. CarrierInv'
      BY <1>1, <2>1, <3>1, <3>5 DEF CarrierInv
    <3>7. AcceptedIsSomewhere'
      BY <1>1, <2>1, <2>2, <3>1, <3>2, <3>3, <3>4 DEF AcceptedIsSomewhere
    <3> QED
      BY <2>2, <3>4, <3>6, <3>7 DEF WriterInv
  <2> QED
    BY <1>4, <2>4, <2>5 DEF Enqueue
<1>5. ASSUME NEW k \in MetricsWorkers, WorkerTakes(k) PROVE WriterInv'
  <2>1. UNCHANGED <<metricsCall, metricsRows, failedWrites>>
    BY <1>5 DEF WorkerTakes, TablesUnchanged
  <2>2. PICK w : w = Head(metricsQueue)
    OBVIOUS
  <2>3. /\ w \in Queued /\ w \in Writers /\ Queued' = Queued \ {w}
        /\ metricsQueue' \in Seq(Writers) /\ Len(metricsQueue') = Len(metricsQueue) - 1
        /\ \A i, j \in 1..Len(metricsQueue') : metricsQueue'[i] = metricsQueue'[j] => i = j
    BY <1>1, <1>5, <2>2, QueuedAfterTail DEF WorkerTakes, CarrierInv, Queued
  <2>4. w \notin InHand
    BY <1>1, <2>3 DEF AcceptedIsSomewhere
  <2>5. /\ InHand' = InHand \cup {w}
        /\ metricsWork' \in [MetricsWorkers -> Places]
        /\ \A m \in MetricsWorkers : metricsWork'[m].pc = "write" <=> metricsWork'[m].event # Blank
        /\ \A l, m \in MetricsWorkers :
             metricsWork'[l].event = metricsWork'[m].event /\ metricsWork'[l].event # Blank => l = m
    BY <1>1, <1>5, <2>2, <2>3, <2>4, HandTakes DEF WorkerTakes
  <2>6. QueueCounted' /\ Len(metricsQueue') = Cardinality(Queued')
    BY <1>1, <1>2, <2>3, FS_RemoveElement DEF QueueCounted
  <2>7. CarrierInv'
    BY <1>1, <2>1, <2>3, <2>5 DEF CarrierInv
  <2>8. AcceptedIsSomewhere'
    <3>1. Accepted' = Accepted
      BY <2>1 DEF Accepted
    <3> QED
      BY <1>1, <2>1, <2>3, <2>4, <2>5, <2>6, <3>1 DEF AcceptedIsSomewhere
  <2> QED
    BY <2>6, <2>7, <2>8 DEF WriterInv
<1>6. ASSUME NEW k \in MetricsWorkers, WorkerStops(k) PROVE WriterInv'
  <2>1. UNCHANGED <<metricsCall, metricsQueue, metricsRows, failedWrites>>
    BY <1>6 DEF WorkerStops, TablesUnchanged
  <2>2. /\ InHand' = InHand \ {metricsWork[k].event}
        /\ metricsWork' \in [MetricsWorkers -> Places]
        /\ \A m \in MetricsWorkers : metricsWork'[m].pc = "write" <=> metricsWork'[m].event # Blank
        /\ \A l, m \in MetricsWorkers :
             metricsWork'[l].event = metricsWork'[m].event /\ metricsWork'[l].event # Blank => l = m
    BY <1>1, <1>6, HandDrops DEF WorkerStops
  <2>3. InHand' = InHand
    BY <1>1, <1>6, <2>2 DEF WorkerStops, CarrierInv, InHand
  <2>4. CarrierInv'
    BY <1>1, <2>1, <2>2 DEF CarrierInv
  <2>5. QueueCounted' /\ AcceptedIsSomewhere'
    BY <1>1, <2>1, <2>3 DEF QueueCounted, AcceptedIsSomewhere, Queued, Accepted
  <2> QED
    BY <2>4, <2>5 DEF WriterInv
<1>7. ASSUME NEW k \in MetricsWorkers, ProcessEvent(k) PROVE WriterInv'
  <2>1. UNCHANGED <<metricsQueue, metricsCall>>
    BY <1>7 DEF ProcessEvent
  <2>2. PICK w \in Writers : w = metricsWork[k].event /\ w \in InHand
    BY <1>1, <1>7 DEF ProcessEvent, CarrierInv, Places, InHand
  <2>3. /\ InHand' = InHand \ {w}
        /\ metricsWork' \in [MetricsWorkers -> Places]
        /\ \A m \in MetricsWorkers : metricsWork'[m].pc = "write" <=> metricsWork'[m].event # Blank
        /\ \A l, m \in MetricsWorkers :
             metricsWork'[l].event = metricsWork'[m].event /\ metricsWork'[l].event # Blank => l = m
    BY <1>1, <1>7, <2>2, HandDrops DEF ProcessEvent, Selecting
  <2>4. metricsRows' \cup failedWrites' = metricsRows \cup failedWrites \cup {w}
        /\ metricsRows' \subseteq Writers /\ failedWrites' \subseteq Writers
    BY <1>1, <1>7, <2>2 DEF ProcessEvent, Written, CarrierInv
  <2>5. CarrierInv'
    BY <1>1, <2>1, <2>3, <2>4 DEF CarrierInv
  <2>6. QueueCounted' /\ Queued' = Queued /\ Accepted' = Accepted
    BY <1>1, <2>1 DEF QueueCounted, Queued, Accepted
  <2>7. AcceptedIsSomewhere'
    BY <1>1, <2>1, <2>2, <2>3, <2>4, <2>6 DEF AcceptedIsSomewhere
  <2> QED
    BY <2>5, <2>6, <2>7 DEF WriterInv
<1>8. CASE (\E c \in Closers : CloseStep(c)) \/ UNCHANGED writerVars
  <2>1. UNCHANGED <<metricsQueue, metricsCall, metricsWork, metricsRows, failedWrites>>
    BY <1>8 DEF CloseStep, CloseFlag, CloseStop, CloseWait, CloseGoes, TablesUnchanged, writerVars
  <2> QED
    BY <1>1, <2>1
    DEF WriterInv, CarrierInv, QueueCounted, AcceptedIsSomewhere, Queued, InHand, Accepted
<1> QED
  BY <1>3, <1>4, <1>5, <1>6, <1>7, <1>8 DEF WriterNext, WorkerStep

\* Every event that WriteEvent accepted stays in one place until it is written or
\* counted as failed, whatever the number of callers and workers, the size of the
\* queue and the moment of Close (WriteEvent, worker, processEvent).
THEOREM NoEventLost == WriterSpec => []AcceptedIsSomewhere
<1>1. WriterInv => AcceptedIsSomewhere
  BY DEF WriterInv
<1> QED
  BY WriterStarts, WriterKept, <1>1, PTL DEF WriterSpec

-----------------------------------------------------------------------------
(* Close.                                                                  *)

\* The caller that found the flag clear is the only one that goes beyond it; the
\* stop channel is open until that caller has closed it, and workers end after.
CloseInv ==
  /\ closing \in [Closers -> {"idle", "returned", "stop", "wait", "closed", "timeout"}]
  /\ metricsClosed \in BOOLEAN /\ stopCh \in {0, 1}
  /\ ~metricsClosed => stopCh = 0 /\ \A c \in Closers : closing[c] = "idle"
  /\ \A c, d \in Closers :
       closing[c] \notin {"idle", "returned"} /\ closing[d] \notin {"idle", "returned"} => c = d
  /\ \A c \in Closers : closing[c] = "stop" => stopCh = 0
  /\ DOMAIN metricsWork = MetricsWorkers
  /\ \A k \in MetricsWorkers : metricsWork[k].pc = "exit" => stopCh = 1

LEMMA CloseKept == CloseInv /\ [WriterNext]_writerVars => CloseInv'
<1> SUFFICES ASSUME CloseInv, [WriterNext]_writerVars PROVE CloseInv'
  OBVIOUS
<1>1. CASE UNCHANGED <<closeVars, metricsWork>>
  BY <1>1 DEF closeVars, CloseInv
<1>2. ASSUME NEW k \in MetricsWorkers, WorkerTakes(k) \/ ProcessEvent(k) PROVE CloseInv'
  BY <1>2 DEF WorkerTakes, ProcessEvent, Selecting, closeVars, CloseInv
<1>3. ASSUME NEW k \in MetricsWorkers, WorkerStops(k) PROVE CloseInv'
  BY <1>3 DEF WorkerStops, closeVars, CloseInv
<1>4. ASSUME NEW c \in Closers, CloseFlag(c) PROVE CloseInv'
  <2>1. UNCHANGED <<stopCh, metricsWork>> /\ metricsClosed' = TRUE /\ closing[c] = "idle"
    BY <1>4 DEF CloseFlag, CloseGoes
  <2>2. CASE ~metricsClosed /\ CloseGoes(c, "stop")
    BY <2>1, <2>2 DEF CloseGoes, CloseInv
  <2>3. CASE metricsClosed /\ CloseGoes(c, "returned")
    BY <2>1, <2>3 DEF CloseGoes, CloseInv
  <2> QED
    BY <1>4, <2>2, <2>3 DEF CloseFlag
<1>5. ASSUME NEW c \in Closers, CloseStop(c) PROVE CloseInv'
  BY <1>5 DEF CloseStop, CloseGoes, CloseInv
<1>6. ASSUME NEW c \in Closers, CloseWait(c) PROVE CloseInv'
  <2>1. UNCHANGED <<stopCh, metricsWork, metricsClosed>> /\ closing[c] = "wait"
    BY <1>6 DEF CloseWait, CloseGoes
  <2>2. PICK place \in {"closed", "timeout"} : CloseGoes(c, place)
    BY <1>6 DEF CloseWait
  <2> QED
    BY <2>1, <2>2 DEF CloseGoes, CloseInv
<1>7. ASSUME NEW w \in Writers, CheckClosed(w) \/ Enqueue(w) PROVE CloseInv'
  BY <1>1, <1>7 DEF CheckClosed, Enqueue
<1>8. CASE UNCHANGED writerVars
  BY <1>1, <1>8 DEF writerVars, closeVars
<1> QED
  BY <1>2, <1>3, <1>4, <1>5, <1>6, <1>7, <1>8 DEF WriterNext, WorkerStep, CloseStep

\* Any number of concurrent calls of Close stop the workers once, through one
\* caller, and no worker ends before (the closed flag, close(m.stopCh)).
THEOREM OneCloserStops == WriterSpec => []ClosedByOne
<1>1. WriterInit => CloseInv
  <2> SUFFICES ASSUME WriterInit PROVE CloseInv
    OBVIOUS
  <2>1. closing = [c \in Closers |-> "idle"] /\ metricsClosed = FALSE /\ stopCh = 0
    BY DEF WriterInit
  <2>2. DOMAIN metricsWork = MetricsWorkers /\ \A k \in MetricsWorkers : metricsWork[k].pc # "exit"
    BY DEF WriterInit, Selecting
  <2> QED
    BY <2>1, <2>2 DEF CloseInv
<1>2. CloseInv => ClosedByOne
  <2> SUFFICES ASSUME CloseInv PROVE ClosedByOne
    OBVIOUS
  <2>1. stopCh <= 1
    BY DEF CloseInv
  <2>2. \A c, d \in Closers :
          closing[c] \in {"wait", "closed", "timeout"} /\ closing[d] \notin {"idle", "returned"} => c = d
    BY DEF CloseInv
  <2>3. (\E k \in MetricsWorkers : metricsWork[k].pc = "exit") => stopCh = 1
    BY DEF CloseInv
  <2>4. stopCh = 1 => metricsClosed
    BY DEF CloseInv
  <2> QED
    BY <2>1, <2>2, <2>3, <2>4 DEF ClosedByOne
<1> QED
  BY <1>1, CloseKept, <1>2, PTL DEF WriterSpec

-----------------------------------------------------------------------------
(* Deployments and their links.                                            *)

DeploymentRow(w) ==
  Row(doraEventTypeFromJobEvent(JobEvent[w].event), "release-engine", JobEvent[w].svc,
      JobEvent[w].job, Blank, JobEvent[w].ts)

DeploymentRows == {DeploymentRow(w) : w \in Writers}

\* Each row is the end of a job that was written; no two rows are the same end.
RowsInv ==
  /\ doraRows \in Seq(DeploymentRows)
  /\ \A i \in 1..Len(doraRows) :
       /\ \E w \in metricsRows : doraRows[i] = DeploymentRow(w)
       /\ doraRows[i].type \in Deployments
  /\ \A i, j \in 1..Len(doraRows) :
       doraRows[i].corr = doraRows[j].corr /\ doraRows[i].type = doraRows[j].type => i = j

\* Each link repeats the service, the time and the outcome of its deployment.
LinkOf(l, rows, written) ==
  /\ l.deployment \in 1..Len(rows)
  /\ l.svc = rows[l.deployment].svc /\ l.ts = rows[l.deployment].ts
  /\ l.outcome = "succeeded" => rows[l.deployment].type = "deployment.succeeded"
  /\ \E w \in written : /\ rows[l.deployment] = DeploymentRow(w) /\ l.sha \in JobEvent[w].shas

LinksInv == \A l \in doraLinks : LinkOf(l, doraRows, metricsRows)

DeploymentInv == metricsRows \subseteq Writers /\ RowsInv /\ LinksInv

LEMMA DeploymentRowIs ==
  ASSUME NEW w
  PROVE  /\ DeploymentRow(w).type = doraEventTypeFromJobEvent(JobEvent[w].event)
         /\ DeploymentRow(w).svc = JobEvent[w].svc /\ DeploymentRow(w).corr = JobEvent[w].job
         /\ DeploymentRow(w).ts = JobEvent[w].ts
BY DEF DeploymentRow, Row

LEMMA TypeOfEvent ==
  ASSUME NEW event, doraEventTypeFromJobEvent(event) # Blank
  PROVE  doraEventTypeFromJobEvent(event) \in Deployments
BY DEF doraEventTypeFromJobEvent, Deployments

\* The index uq_dora_events_deploy_dedupe: a row that conflicts with none is the
\* end of no job that has one.
LEMMA NewDeployment ==
  ASSUME NEW w \in Writers, RowsInv, metricsRows \subseteq Writers,
         DeploymentRow(w).type \in Deployments, ~Conflicts(doraRows, DeploymentRow(w))
  PROVE  \A i \in 1..Len(doraRows) :
           ~(doraRows[i].corr = DeploymentRow(w).corr /\ doraRows[i].type = DeploymentRow(w).type)
<1> SUFFICES ASSUME NEW i \in 1..Len(doraRows), doraRows[i].corr = DeploymentRow(w).corr,
                    doraRows[i].type = DeploymentRow(w).type
             PROVE  FALSE
  OBVIOUS
<1>1. PICK v \in metricsRows : doraRows[i] = DeploymentRow(v)
  BY DEF RowsInv
<1>2. v \in Writers /\ JobEvent[v].job = JobEvent[w].job
  BY <1>1, DeploymentRowIs
<1>3. doraRows[i].svc = DeploymentRow(w).svc /\ DeploymentRow(w).corr # Blank
  BY <1>1, <1>2, DeploymentRowIs, WriterAssumption
<1>4. SameDeployment(doraRows[i], DeploymentRow(w))
  BY <1>3 DEF SameDeployment
<1>5. i \in DOMAIN doraRows
  BY DEF RowsInv
<1> QED
  BY <1>4, <1>5 DEF Conflicts

LEMMA WrittenKeeps ==
  ASSUME DeploymentInv, NEW w \in Writers, Written(w)
  PROVE  DeploymentInv'
<1> DEFINE row == DeploymentRow(w)
           n == Len(doraRows)
           new == row.type # Blank /\ ~Conflicts(doraRows, row)
           outcome == IF row.type = "deployment.succeeded" THEN "succeeded" ELSE "failed"
<1>1. /\ metricsRows' = metricsRows \cup {w}
      /\ doraRows' = IF new THEN Append(doraRows, row) ELSE doraRows
      /\ doraLinks' = IF ~new THEN doraLinks ELSE doraLinks \cup
           {[svc |-> JobEvent[w].svc, sha |-> sha, deployment |-> n + 1,
             outcome |-> outcome, ts |-> JobEvent[w].ts] : sha \in JobEvent[w].shas \ {Blank}}
  BY DeploymentRowIs DEF Written, DeploymentRow
<1>2. /\ metricsRows \subseteq Writers /\ RowsInv /\ LinksInv
      /\ doraRows \in Seq(DeploymentRows) /\ n \in Nat
  BY DEF DeploymentInv, RowsInv
<1>3. metricsRows' \subseteq Writers
  BY <1>1, <1>2
<1> HIDE DEF row, n, new, outcome
<1>4. CASE ~new
  <2>1. doraRows' = doraRows /\ doraLinks' = doraLinks
    BY <1>1, <1>4
  <2>2. RowsInv'
    BY <1>1, <1>2, <2>1 DEF RowsInv
  <2>3. LinksInv'
    BY <1>1, <1>2, <2>1 DEF LinksInv, LinkOf
  <2> QED
    BY <1>3, <2>2, <2>3 DEF DeploymentInv
<1>5. CASE new
  <2>1. doraRows' = Append(doraRows, row)
    BY <1>1, <1>5
  <2>2. row \in DeploymentRows /\ row.type \in Deployments
    BY <1>5, DeploymentRowIs, TypeOfEvent DEF row, new, DeploymentRows
  <2>3. \A i \in 1..n : ~(doraRows[i].corr = row.corr /\ doraRows[i].type = row.type)
    BY <1>2, <1>5, <2>2, NewDeployment DEF row, new, n
  <2>4. /\ doraRows' \in Seq(DeploymentRows) /\ Len(doraRows') = n + 1
        /\ doraRows'[n + 1] = row /\ \A i \in 1..n : doraRows'[i] = doraRows[i]
    BY <1>2, <2>1, <2>2 DEF n
  <2>5. \A i \in 1..(n + 1) : i \in 1..n \/ i = n + 1
    BY <1>2
  <2>6. \A i \in 1..n : /\ \E v \in metricsRows : doraRows[i] = DeploymentRow(v)
                        /\ doraRows[i].type \in Deployments
    BY <1>2 DEF RowsInv, n
  <2>7. \A i, j \in 1..n :
          doraRows[i].corr = doraRows[j].corr /\ doraRows[i].type = doraRows[j].type => i = j
    BY <1>2 DEF RowsInv, n
  <2>8. RowsInv'
    <3>1. \A i \in 1..(n + 1) : /\ \E v \in metricsRows' : doraRows'[i] = DeploymentRow(v)
                                /\ doraRows'[i].type \in Deployments
      BY <1>1, <2>2, <2>4, <2>5, <2>6 DEF row
    <3>2. \A i, j \in 1..(n + 1) :
            doraRows'[i].corr = doraRows'[j].corr /\ doraRows'[i].type = doraRows'[j].type => i = j
      BY <2>3, <2>4, <2>5, <2>7
    <3> QED
      BY <2>4, <3>1, <3>2 DEF RowsInv
  <2>9. ASSUME NEW l \in doraLinks PROVE LinkOf(l, doraRows', metricsRows')
    <3>1. LinkOf(l, doraRows, metricsRows)
      BY <1>2 DEF LinksInv
    <3>2. l.deployment \in 1..n /\ doraRows'[l.deployment] = doraRows[l.deployment]
          /\ l.deployment \in 1..(n + 1)
      BY <1>2, <2>4, <3>1 DEF LinkOf, n
    <3> QED
      BY <1>1, <2>4, <3>1, <3>2 DEF LinkOf
  <2>10. ASSUME NEW sha \in JobEvent[w].shas
         PROVE  LinkOf([svc |-> JobEvent[w].svc, sha |-> sha, deployment |-> n + 1,
                        outcome |-> outcome, ts |-> JobEvent[w].ts], doraRows', metricsRows')
    <3>1. row.svc = JobEvent[w].svc /\ row.ts = JobEvent[w].ts
      BY DeploymentRowIs DEF row
    <3>2. n + 1 \in 1..(n + 1)
      BY <1>2
    <3>3. w \in metricsRows' /\ row = DeploymentRow(w)
      BY <1>1 DEF row
    <3>4. outcome = "succeeded" => row.type = "deployment.succeeded"
      BY DEF outcome
    <3> QED
      BY <2>4, <3>1, <3>2, <3>3, <3>4 DEF LinkOf
  <2>11. LinksInv'
    BY <1>1, <1>5, <2>9, <2>10 DEF LinksInv
  <2> QED
    BY <1>3, <2>8, <2>11 DEF DeploymentInv
<1> QED
  BY <1>4, <1>5

LEMMA DeploymentKept == WriterInv /\ DeploymentInv /\ [WriterNext]_writerVars => DeploymentInv'
<1> SUFFICES ASSUME WriterInv, DeploymentInv, [WriterNext]_writerVars PROVE DeploymentInv'
  OBVIOUS
<1>1. CASE UNCHANGED <<doraRows, doraLinks, metricsRows>>
  BY <1>1 DEF DeploymentInv, RowsInv, LinksInv
<1>2. ASSUME NEW k \in MetricsWorkers, ProcessEvent(k) PROVE DeploymentInv'
  <2>1. metricsWork[k].event \in Writers
    BY <1>2 DEF ProcessEvent, WriterInv, CarrierInv, Places
  <2> QED
    BY <1>1, <1>2, <2>1, WrittenKeeps DEF ProcessEvent
<1> QED
  BY <1>1, <1>2
  DEF WriterNext, WorkerStep, CheckClosed, Enqueue, WorkerTakes, WorkerStops, CloseStep, CloseFlag, CloseStop, CloseGoes,
      CloseWait, TablesUnchanged, writerVars

\* The end of a job is one deployment with links of its own, and no summary ties
\* more deployments to commits than it counts, whatever is written, failed and
\* reported twice (uq_dora_events_deploy_dedupe, processEvent, queryLeadTimeStats).
THEOREM DeploymentsAreJobs == WriterSpec => []LinkedDeploymentsExist
<1>1. WriterInit => DeploymentInv
  BY DEF WriterInit, DeploymentInv, RowsInv, LinksInv
<1>2. DeploymentInv => LinkedDeploymentsExist
  <2> SUFFICES ASSUME DeploymentInv PROVE LinkedDeploymentsExist
    OBVIOUS
  <2>1. /\ doraRows \in Seq(DeploymentRows) /\ DOMAIN doraRows = 1..Len(doraRows)
        /\ Len(doraRows) \in Nat
    BY DEF DeploymentInv, RowsInv
  <2>2. ASSUME NEW l \in doraLinks
        PROVE  /\ l.deployment \in DOMAIN doraRows
               /\ \E w \in metricsRows :
                    /\ JobEvent[w].job = doraRows[l.deployment].corr /\ l.sha \in JobEvent[w].shas
                    /\ doraEventTypeFromJobEvent(JobEvent[w].event) = doraRows[l.deployment].type
    <3>1. LinkOf(l, doraRows, metricsRows)
      BY DEF DeploymentInv, LinksInv
    <3>2. PICK w \in metricsRows : doraRows[l.deployment] = DeploymentRow(w) /\ l.sha \in JobEvent[w].shas
      BY <3>1 DEF LinkOf
    <3> QED
      BY <2>1, <3>1, <3>2, DeploymentRowIs DEF LinkOf
  <2>3. ASSUME NEW svc, NEW from, NEW to
        PROVE  LeadTimeStats(doraRows, doraLinks, svc, from, to).correlated
                 <= LeadTimeStats(doraRows, doraLinks, svc, from, to).successful
    <3> DEFINE counted == Within(doraRows, svc, {"deployment.succeeded"}, from, to)
               tied == {l.deployment : l \in {k \in doraLinks : /\ k.svc = svc /\ k.outcome = "succeeded"
                                                                /\ from <= k.ts /\ k.ts < to}}
    <3>1. tied \subseteq counted
      BY <2>1 DEF DeploymentInv, LinksInv, LinkOf, Within
    <3>2. counted \subseteq 1..Len(doraRows)
      BY <2>1 DEF Within
    <3> HIDE DEF tied, counted
    <3>3. IsFiniteSet(1..Len(doraRows))
      BY <2>1, FS_Interval
    <3>4. IsFiniteSet(counted)
      BY <3>2, <3>3, FS_Subset
    <3>5. Cardinality(tied) <= Cardinality(counted)
      BY <3>1, <3>4, FS_Subset
    <3> QED
      BY <3>5 DEF LeadTimeStats, tied, counted
  <2>4. \A i, j \in DOMAIN doraRows :
          doraRows[i].corr = doraRows[j].corr /\ doraRows[i].type = doraRows[j].type => i = j
    BY <2>1 DEF DeploymentInv, RowsInv
  <2> QED
    BY <2>2, <2>3, <2>4 DEF LinkedDeploymentsExist
<1> QED
  BY WriterStarts, WriterKept, <1>1, DeploymentKept, <1>2, PTL DEF WriterSpec
=============================================================================
