--------------------------- MODULE DoraIngestProofs ---------------------------
(***************************************************************************)
(* What the DORA endpoints promise, for any number of handlers, webhooks,  *)
(* connections and faults. The invariant says where every handler stands   *)
(* in the list of events of its webhook and that the rows before that      *)
(* place are in the table; that a row with a source event id is keyed by a *)
(* webhook; and what each answer rests on. The tables only grow, so what   *)
(* one handler has established no other can take away.                     *)
(***************************************************************************)
EXTENDS DoraIngest, FiniteSetTheorems, WellFoundedInduction, TLAPS

-----------------------------------------------------------------------------
(* The normalizers.                                                         *)

\* A set of numbers that is not empty has a least, and a bounded one a largest.
LEMMA LeastOf ==
  ASSUME NEW T, T \subseteq Nat, T # {}
  PROVE  \E x \in T : \A y \in T : x <= y
<1>1. IsWellFoundedOn(OpToRel(<,Nat), Nat)
  BY NatLessThanWellFounded
<1>2. PICK x \in T : \A y \in T : <<y, x>> \notin OpToRel(<,Nat)
  <2> DEFINE R == OpToRel(<,Nat)
  <2>1. IsWellFoundedOn(R, Nat)
    BY <1>1
  <2> HIDE DEF R
  <2>2. \E x \in T : \A y \in T : ~ (<<y, x>> \in R)
    BY <2>1, WFMin
  <2> QED
    BY <2>2 DEF R
<1>3. \A y \in T : x <= y
  <2> SUFFICES ASSUME NEW y \in T, y < x PROVE FALSE
    OBVIOUS
  <2>1. <<y, x>> \in {ss \in Nat \X Nat : ss[1] < ss[2]}
    OBVIOUS
  <2> QED
    BY <2>1, <1>2 DEF OpToRel
<1> QED
  BY <1>3

\* Nth picks a member, as long as there are enough of them.
LEMMA NthIsMember ==
  ASSUME NEW S, S \subseteq Nat, IsFiniteSet(S), NEW k \in 1..Cardinality(S)
  PROVE  Nth(S, k) \in S
<1> DEFINE Below(i) == {j \in S : j < i}
           Lacking == {n \in 1..Cardinality(S) : ~\E i \in S : Cardinality(Below(i)) = n - 1}
<1>1. Cardinality(S) \in Nat
  BY FS_CardinalityType
<1>2. Lacking = {}
  <2> SUFFICES ASSUME Lacking # {} PROVE FALSE
    OBVIOUS
  <2>1. Lacking \subseteq Nat
    BY <1>1
  <2> PICK n \in Lacking : \A m \in Lacking : n <= m
    BY <2>1, LeastOf
  <2>2. n \in 1..Cardinality(S) /\ ~\E i \in S : Cardinality(Below(i)) = n - 1
    OBVIOUS
  <2>3. CASE n = 1
    <3>1. S # {}
      BY <1>1, <2>2, FS_EmptySet
    <3> PICK i \in S : \A j \in S : i <= j
      BY <3>1, LeastOf
    <3>2. Below(i) = {}
      <4> SUFFICES ASSUME NEW j \in S, j < i PROVE FALSE
        OBVIOUS
      <4> QED
        BY i <= j, i \in Nat, j \in Nat
    <3>3. Cardinality(Below(i)) = 0
      BY <3>2, FS_EmptySet
    <3>4. Cardinality(Below(i)) = n - 1
      BY <2>3, <3>3
    <3> HIDE DEF Below
    <3> QED
      BY <2>2, <3>4
  <2>4. CASE n # 1
    <3>1. n - 1 \in 1..Cardinality(S) /\ n - 1 \notin Lacking
      <4>1. n \in Nat /\ n - 1 \in 1..Cardinality(S)
        BY <1>1, <2>2, <2>4
      <4> HIDE DEF Lacking
      <4>2. ~(n <= n - 1)
        BY <4>1
      <4> QED
        BY <4>1, <4>2
    <3> PICK i \in S : Cardinality(Below(i)) = (n - 1) - 1
      BY <3>1
    <3> DEFINE A == Below(i) \cup {i}
    <3>2. IsFiniteSet(Below(i)) /\ i \notin Below(i)
      BY FS_Subset
    <3>3. IsFiniteSet(A) /\ Cardinality(A) = Cardinality(Below(i)) + 1
      BY <3>2, FS_AddElement
    <3>4. Cardinality(A) = n - 1
      BY <1>1, <2>2, <3>3
    <3>5. S \ A # {}
      <4>1. A \subseteq S
        OBVIOUS
      <4>2. n - 1 # Cardinality(S)
        BY <1>1, <2>2
      <4>3. A # S
        BY <3>4, <4>2
      <4> QED
        BY <4>1, <4>3
    <3>6. S \ A \subseteq Nat
      OBVIOUS
    <3> PICK l \in S \ A : \A m \in S \ A : l <= m
      BY <3>5, <3>6, LeastOf
    <3>7. l \in S /\ l \in Nat /\ i \in Nat /\ i < l
      OBVIOUS
    <3>8. ASSUME NEW j \in S PROVE j < l <=> j \in A
      <4>1. j \in Nat /\ (j \in A <=> j <= i)
        BY <3>7
      <4>2. j \notin A => l <= j
        OBVIOUS
      <4> QED
        BY <3>7, <4>1, <4>2
    <3>9. Below(l) = A
      BY <3>8
    <3> HIDE DEF Below, A
    <3> QED
      BY <2>2, <3>4, <3>7, <3>9
  <2> QED
    BY <2>3, <2>4
<1>3. \E i \in S : Cardinality({j \in S : j < i}) = k - 1
  BY <1>1, <1>2
<1> QED
  BY <1>3 DEF Nth

\* What an event tells apart from others, whatever its service and its time.
Alike(e, f) == e.src = f.src /\ e.type = f.type /\ e.corr = f.corr

EventsOf(hook, svc) == Normalize(hook, svc, Now).events

LEMMA RowIsFields ==
  ASSUME NEW type, NEW src, NEW svc, NEW corr, NEW sid, NEW ts
  PROVE  LET e == Row(type, src, svc, corr, sid, ts) IN
         e.type = type /\ e.src = src /\ e.svc = svc /\ e.corr = corr /\ e.sid = sid /\ e.ts = ts
BY DEF Row

LEMMA PushEventFields ==
  ASSUME NEW hook, NEW svc, NEW i
  PROVE  LET e == PushEvent(hook, svc, Now, i) IN
         /\ e.type = "commit.pushed" /\ e.src = hook.provider /\ e.corr = hook.commits[i].sha
         /\ e.sid = PushSourceID(hook.delivery, hook.commits[i].sha, i)
         /\ e.ts = TimeOr(hook.commits[i].at, Now)
BY RowIsFields DEF PushEvent

LEMMA NamedAreFinite ==
  ASSUME NEW hook \in Hooks, IsPush(hook)
  PROVE  /\ NamedCommits(hook) \subseteq Nat /\ IsFiniteSet(NamedCommits(hook))
         /\ Cardinality(NamedCommits(hook)) \in Nat
<1>1. Listed(hook.commits)
  BY HooksAssumption
<1>2. DOMAIN hook.commits = 1..Len(hook.commits) /\ Len(hook.commits) \in Nat
  BY <1>1 DEF Listed
<1>3. IsFiniteSet(DOMAIN hook.commits)
  BY <1>2, FS_Interval
<1>4. NamedCommits(hook) \subseteq DOMAIN hook.commits
  BY DEF NamedCommits
<1>5. IsFiniteSet(NamedCommits(hook))
  BY <1>3, <1>4, FS_Subset
<1> QED
  BY <1>2, <1>4, <1>5, FS_CardinalityType

\* A hook that is no push stands for one event at most, for any service the same.
Single(hook, yes, type, corr, ts) ==
  \A svc : EventsOf(hook, svc) =
             IF yes THEN <<Row(type, hook.provider, svc, corr, SourceID(hook.delivery, <<type, corr>>), ts)>>
             ELSE << >>

SingleTypes == {"commit.merged", "incident.opened", "incident.resolved"}

LEMMA IncidentForm ==
  ASSUME NEW hook, NEW type, type \in SingleTypes \/ type = Blank,
         \A svc : EventsOf(hook, svc) = Incident(hook, type, svc, Now).events
  PROVE  \E yes \in BOOLEAN, t \in SingleTypes : \E corr, ts : Single(hook, yes, t, corr, ts)
<1> DEFINE created == Lenient(hook.created, Now)
           ts == IF type = "incident.resolved" THEN Lenient(hook.updated, created) ELSE created
<1>1. CASE ~hook.json \/ hook.id = Blank \/ type = Blank
  <2>1. \A svc : EventsOf(hook, svc) = << >>
    BY <1>1 DEF Incident, Failure, Success
  <2>2. Single(hook, FALSE, "commit.merged", Blank, Blank)
    BY <2>1 DEF Single
  <2> QED
    BY <2>2 DEF SingleTypes
<1>2. CASE ~(~hook.json \/ hook.id = Blank \/ type = Blank)
  <2>1. \A svc : EventsOf(hook, svc) =
                   <<Row(type, hook.provider, svc, hook.id, SourceID(hook.delivery, <<type, hook.id>>), ts)>>
    BY <1>2 DEF Incident, Success
  <2>2. Single(hook, TRUE, type, hook.id, ts)
    BY <2>1 DEF Single
  <2> HIDE DEF ts
  <2> QED
    BY <1>2, <2>2
<1> QED
  BY <1>1, <1>2

LEMMA SingleForm ==
  ASSUME NEW hook, hook.provider \in Registered, ~IsPush(hook)
  PROVE  \E yes \in BOOLEAN, type \in SingleTypes : \E corr, ts : Single(hook, yes, type, corr, ts)
<1>1. CASE hook.provider \in GitProviders /\ hook.event # "merge"
  <2>1. \A svc : EventsOf(hook, svc) = << >>
    BY <1>1 DEF EventsOf, Normalize, NormalizeGit, Success, GitProviders, IsPush
  <2>2. Single(hook, FALSE, "commit.merged", Blank, Blank)
    BY <2>1 DEF Single
  <2> QED
    BY <2>2 DEF SingleTypes
<1>2. CASE hook.provider \in GitProviders /\ hook.event = "merge"
  <2> DEFINE sha == IF hook.mergeSha # Blank THEN hook.mergeSha ELSE hook.headSha
             ts == TimeOr(hook.at, Now)
             yes == hook.json /\ hook.merged /\ sha # Blank /\ hook.at # Garbled
  <2>1. \A svc : EventsOf(hook, svc) = NormalizeMerge(hook, svc, Now).events
    BY <1>2 DEF EventsOf, Normalize, NormalizeGit, GitProviders
  <2>2. CASE yes
    <3>1. Single(hook, TRUE, "commit.merged", sha, ts)
      BY <2>1, <2>2 DEF Single, NormalizeMerge, Success, Failure
    <3> HIDE DEF sha, ts
    <3> QED
      BY <3>1 DEF SingleTypes
  <2>3. CASE ~yes
    <3>1. Single(hook, FALSE, "commit.merged", Blank, Blank)
      BY <2>1, <2>3 DEF Single, NormalizeMerge, Success, Failure
    <3> QED
      BY <3>1 DEF SingleTypes
  <2> QED
    BY <2>2, <2>3
<1>3. CASE hook.provider = "opsgenie"
  <2> DEFINE type == CASE hook.event \in {"create", "created", "opened", "open"} -> "incident.opened"
                       [] hook.event \in {"close", "closed", "resolved", "acknowledged"} -> "incident.resolved"
                       [] OTHER -> Blank
  <2>1. \A svc : EventsOf(hook, svc) = Incident(hook, type, svc, Now).events
    BY <1>3 DEF EventsOf, Normalize, NormalizeOpsgenie
  <2>2. type \in SingleTypes \/ type = Blank
    BY DEF SingleTypes
  <2> HIDE DEF type
  <2> QED
    BY <2>1, <2>2, IncidentForm
<1>4. CASE hook.provider = "datadog"
  <2> DEFINE type == IF "resolve" \in hook.hint \/ {"resolved", "ok"} \cap hook.status # {} THEN "incident.resolved"
                     ELSE IF {"open", "trigger"} \cap hook.hint # {} \/ {"trigger", "alert"} \cap hook.status # {}
                     THEN "incident.opened" ELSE Blank
  <2>1. \A svc : EventsOf(hook, svc) = Incident(hook, type, svc, Now).events
    BY <1>4 DEF EventsOf, Normalize, NormalizeDatadog
  <2>2. type \in SingleTypes \/ type = Blank
    BY DEF SingleTypes
  <2> HIDE DEF type
  <2> QED
    BY <2>1, <2>2, IncidentForm
<1> QED
  BY <1>1, <1>2, <1>3, <1>4 DEF Registered, GitProviders

\* A push stands for one event per named commit, or for none, for any service.
LEMMA PushForm ==
  ASSUME NEW hook, IsPush(hook)
  PROVE  \E n \in {0, Cardinality(NamedCommits(hook))} :
           \A svc : EventsOf(hook, svc) =
                      [k \in 1..n |-> PushEvent(hook, svc, Now, Nth(NamedCommits(hook), k))]
<1> DEFINE named == NamedCommits(hook)
           all(svc) == [k \in 1..Cardinality(named) |-> PushEvent(hook, svc, Now, Nth(named, k))]
           bad == ~hook.json \/ \E k \in 1..Cardinality(named) : TimeOr(hook.commits[Nth(named, k)].at, Now) = Garbled
<1>1. ASSUME NEW svc
      PROVE  EventsOf(hook, svc) = IF bad THEN << >> ELSE all(svc)
  <2>1. EventsOf(hook, svc) = NormalizePush(hook, svc, Now).events
    BY DEF EventsOf, Normalize, NormalizeGit, IsPush, GitProviders
  <2>2. (\E i \in DOMAIN all(svc) : all(svc)[i].ts = Garbled)
          <=> \E k \in 1..Cardinality(named) : TimeOr(hook.commits[Nth(named, k)].at, Now) = Garbled
    BY PushEventFields
  <2>3. NormalizePush(hook, svc, Now) =
          IF ~hook.json \/ \E i \in DOMAIN all(svc) : all(svc)[i].ts = Garbled THEN Failure ELSE Success(all(svc))
    BY DEF NormalizePush
  <2> HIDE DEF all
  <2> QED
    BY <2>1, <2>2, <2>3 DEF Success, Failure
<1>2. CASE bad
  <2>1. \A svc : EventsOf(hook, svc) = [k \in 1..0 |-> PushEvent(hook, svc, Now, Nth(named, k))]
    BY <1>1, <1>2
  <2> QED
    BY <2>1
<1>3. CASE ~bad
  BY <1>1, <1>3
<1> QED
  BY <1>2, <1>3

\* What every event of a hook is, and that its service makes no difference.
EventOK(e, hook) ==
  e.src = hook.provider /\ e.type \notin Deployments /\ (e.sid # Blank => KeyedBy(e, hook))

Twins(es, fs) ==
  Len(es) = Len(fs) /\ \A k \in 1..Len(es) : Alike(es[k], fs[k])

LEMMA EventFacts ==
  ASSUME NEW hook \in Hooks, hook.provider \in Registered, NEW svc
  PROVE  /\ Len(EventsOf(hook, svc)) \in Nat /\ DOMAIN EventsOf(hook, svc) = 1..Len(EventsOf(hook, svc))
         /\ Len(EventsOf(hook, svc)) = 0 => EventsOf(hook, svc) = << >>
         /\ \A k \in 1..Len(EventsOf(hook, svc)) : EventOK(EventsOf(hook, svc)[k], hook)
         /\ \A other : Twins(EventsOf(hook, svc), EventsOf(hook, other))
<1> DEFINE es == EventsOf(hook, svc)
<1>1. CASE IsPush(hook)
  <2> DEFINE named == NamedCommits(hook)
  <2> PICK n \in {0, Cardinality(named)} :
             \A s : EventsOf(hook, s) = [k \in 1..n |-> PushEvent(hook, s, Now, Nth(named, k))]
    BY <1>1, PushForm
  <2>1. n \in Nat /\ named \subseteq Nat /\ IsFiniteSet(named)
    BY <1>1, NamedAreFinite
  <2>2. \A s : Len(EventsOf(hook, s)) = n /\ DOMAIN EventsOf(hook, s) = 1..n
    BY <2>1
  <2>3. ASSUME NEW k \in 1..n, NEW s
        PROVE  EventOK(EventsOf(hook, s)[k], hook) /\ EventsOf(hook, s)[k].corr = hook.commits[Nth(named, k)].sha
               /\ EventsOf(hook, s)[k].type = "commit.pushed" /\ EventsOf(hook, s)[k].src = hook.provider
    <3> DEFINE i == Nth(named, k)
               e == PushEvent(hook, s, Now, i)
    <3>1. k \in 1..Cardinality(named)
      BY <2>1
    <3>2. i \in named
      BY <2>1, <3>1, NthIsMember
    <3>3. EventsOf(hook, s)[k] = e
      OBVIOUS
    <3>4. /\ e.type = "commit.pushed" /\ e.src = hook.provider /\ e.corr = hook.commits[i].sha
          /\ e.sid = PushSourceID(hook.delivery, hook.commits[i].sha, i)
      BY PushEventFields
    <3> HIDE DEF e, i, named
    <3>5. e.sid # Blank => hook.delivery # Blank
      BY <3>4 DEF PushSourceID, SourceID
    <3>6. e.sid # Blank => KeyedBy(e, hook)
      BY <1>1, <3>2, <3>4, <3>5 DEF KeyedBy, named
    <3> QED
      BY <3>3, <3>4, <3>6 DEF EventOK, Deployments, i
  <2> HIDE DEF named
  <2>4. \A other : Twins(es, EventsOf(hook, other))
    BY <2>2, <2>3 DEF Twins, Alike
  <2>5. n = 0 => es = << >>
    OBVIOUS
  <2> QED
    BY <2>1, <2>2, <2>3, <2>4, <2>5
<1>2. CASE ~IsPush(hook)
  <2> PICK yes, type, corr, ts :
           yes \in BOOLEAN /\ type \in SingleTypes /\ Single(hook, yes, type, corr, ts)
    BY <1>2, SingleForm
  <2> DEFINE row(s) == Row(type, hook.provider, s, corr, SourceID(hook.delivery, <<type, corr>>), ts)
  <2>1. \A s : EventsOf(hook, s) = IF yes THEN <<row(s)>> ELSE << >>
    BY DEF Single
  <2>2. ASSUME NEW s
        PROVE  /\ EventOK(row(s), hook) /\ row(s).src = hook.provider
               /\ row(s).type = type /\ row(s).corr = corr
    <3>1. /\ row(s).src = hook.provider /\ row(s).type = type /\ row(s).corr = corr
          /\ row(s).sid = SourceID(hook.delivery, <<type, corr>>)
      BY RowIsFields
    <3> HIDE DEF row
    <3>2. type # "commit.pushed" /\ type \notin Deployments
      BY DEF SingleTypes, Deployments
    <3>3. row(s).sid # Blank => hook.delivery # Blank
      BY <3>1 DEF SourceID
    <3>4. row(s).sid # Blank => KeyedBy(row(s), hook)
      BY <3>1, <3>2, <3>3 DEF KeyedBy
    <3> QED
      BY <3>1, <3>2, <3>4 DEF EventOK
  <2> HIDE DEF row
  <2>3. CASE yes
    <3>1. \A s : Len(EventsOf(hook, s)) = 1 /\ DOMAIN EventsOf(hook, s) = 1..1 /\ EventsOf(hook, s)[1] = row(s)
      BY <2>1, <2>3
    <3>2. 1 \in Nat /\ \A k \in 1..1 : k = 1
      OBVIOUS
    <3>3. \A other : Twins(es, EventsOf(hook, other))
      BY <2>2, <3>1, <3>2 DEF Twins, Alike
    <3> QED
      BY <2>2, <3>1, <3>2, <3>3
  <2>4. CASE ~yes
    <3>1. \A s : EventsOf(hook, s) = << >>
      BY <2>1, <2>4
    <3>2. Len(<< >>) = 0 /\ DOMAIN << >> = 1..0 /\ ~\E k : k \in 1..0
      OBVIOUS
    <3>3. \A other : Twins(es, EventsOf(hook, other))
      BY <3>1, <3>2 DEF Twins
    <3> QED
      BY <3>1, <3>2, <3>3
  <2> QED
    BY <2>3, <2>4
<1> QED
  BY <1>1, <1>2

LEMMA SourceIDParts ==
  ASSUME NEW d, d # Blank, NEW a, NEW b
  PROVE  LET s == SourceID(d, <<a, b>>) IN Head(s) = d /\ s[2][1] = a /\ s[2][2] = b
BY DEF SourceID

LEMMA PushSourceIDParts ==
  ASSUME NEW d, d # Blank, NEW b, NEW i
  PROVE  LET s == PushSourceID(d, b, i) IN Head(s) = d /\ s[2][1] = "commit.pushed" /\ s[2][2] = b
BY DEF SourceID, PushSourceID

\* The source event id holds the delivery, the type and the key of its event.
LEMMA KeyTells ==
  ASSUME NEW r, NEW hook, KeyedBy(r, hook)
  PROVE  r.sid[2][1] = r.type /\ r.sid[2][2] = r.corr /\ Head(r.sid) = hook.delivery /\ r.src = hook.provider
<1>1. CASE r.type = "commit.pushed"
  <2> PICK i \in NamedCommits(hook) : r.sid = PushSourceID(hook.delivery, r.corr, i)
    BY <1>1 DEF KeyedBy
  <2> QED
    BY <1>1, PushSourceIDParts DEF KeyedBy
<1>2. CASE r.type # "commit.pushed"
  BY <1>2, SourceIDParts DEF KeyedBy
<1> QED
  BY <1>1, <1>2

\* One delivery, one type and one key make one id.
LEMMA OneKey ==
  ASSUME NEW r, NEW q, NEW g \in Hooks, NEW h \in Hooks, KeyedBy(r, g), KeyedBy(q, h),
         Alike(r, q), Head(r.sid) = Head(q.sid)
  PROVE  r.sid = q.sid
<1>1. g.delivery = h.delivery /\ g.provider = h.provider /\ g.delivery # Blank
  BY KeyTells DEF KeyedBy, Alike
<1>2. CASE r.type = "commit.pushed"
  <2>1. IsPush(g) /\ IsPush(h)
    BY <1>2 DEF KeyedBy, Alike
  <2> PICK i \in NamedCommits(g) : g.commits[i].sha = r.corr /\ r.sid = PushSourceID(g.delivery, r.corr, i)
    BY <1>2 DEF KeyedBy
  <2> PICK k \in NamedCommits(h) : h.commits[k].sha = q.corr /\ q.sid = PushSourceID(h.delivery, q.corr, k)
    BY <1>2 DEF KeyedBy, Alike
  <2>2. i = k
    BY <1>1, <2>1, HooksAssumption DEF Alike
  <2> QED
    BY <1>1, <2>2 DEF Alike
<1>3. CASE r.type # "commit.pushed"
  BY <1>1, <1>3 DEF KeyedBy, Alike
<1> QED
  BY <1>2, <1>3

-----------------------------------------------------------------------------
(* The table of events.                                                     *)

Table(s) == (\E S : s \in Seq(S)) /\ Len(s) \in Nat

LEMMA TableFacts ==
  ASSUME NEW s, Table(s)
  PROVE  DOMAIN s = 1..Len(s)
BY DEF Table

LEMMA TableGrows ==
  ASSUME NEW s, Table(s), NEW x
  PROVE  /\ Table(Append(s, x)) /\ Len(Append(s, x)) = Len(s) + 1
         /\ Append(s, x)[Len(s) + 1] = x /\ DOMAIN Append(s, x) = 1..(Len(s) + 1)
         /\ \A i \in 1..Len(s) : Append(s, x)[i] = s[i]
<1> PICK S : s \in Seq(S)
  BY DEF Table
<1>1. s \in Seq(S \cup {x}) /\ x \in S \cup {x}
  OBVIOUS
<1>2. Append(s, x) \in Seq(S \cup {x})
  BY <1>1
<1>3. Len(Append(s, x)) = Len(s) + 1
  BY <1>1
<1>4. Table(Append(s, x))
  <2>1. \E T : Append(s, x) \in Seq(T)
    BY <1>2, Zenon
  <2> QED
    BY <1>3, <2>1 DEF Table
<1> QED
  BY <1>1, <1>2, <1>3, <1>4

LEMMA ListedIsTable ==
  ASSUME NEW s, Listed(s)
  PROVE  Table(s)
<1> DEFINE S == {s[i] : i \in 1..Len(s)}
<1>1. [i \in 1..Len(s) |-> s[i]] \in Seq(S)
  BY DEF Listed
<1>2. s \in Seq(S)
  BY <1>1 DEF Listed
<1>3. \E T : s \in Seq(T)
  BY <1>2, Zenon
<1> QED
  BY <1>3 DEF Table, Listed

RowsOK(rows) ==
  /\ Table(rows)
  /\ \A i \in 1..Len(rows) : rows[i].sid # Blank => \E hook \in Hooks : KeyedBy(rows[i], hook)
  /\ \A i, j \in 1..Len(rows) : i # j => ~SameSourceEvent(rows[i], rows[j])

HasRow(rows, e) == \E i \in 1..Len(rows) : Alike(rows[i], e)

\* The rows of one table are still there, at their places, in a later one.
Extended(rows, new) == \A i \in 1..Len(rows) : i \in 1..Len(new) /\ new[i] = rows[i]

LEMMA ExtendedHasRow ==
  ASSUME NEW rows, NEW new, Extended(rows, new), NEW f, HasRow(rows, f)
  PROVE  HasRow(new, f)
BY DEF Extended, HasRow, Alike

\* A row that no index refuses.
LEMMA Appended ==
  ASSUME NEW rows, RowsOK(rows), NEW e, ~Conflicts(rows, e),
         e.sid # Blank => \E hook \in Hooks : KeyedBy(e, hook)
  PROVE  RowsOK(Append(rows, e)) /\ HasRow(Append(rows, e), e) /\ Extended(rows, Append(rows, e))
<1> DEFINE new == Append(rows, e)
<1>1. DOMAIN rows = 1..Len(rows) /\ Len(rows) \in Nat
  BY TableFacts DEF RowsOK, Table
<1>2. /\ Table(new) /\ Len(new) = Len(rows) + 1 /\ new[Len(rows) + 1] = e
      /\ \A i \in 1..Len(rows) : new[i] = rows[i]
  BY TableGrows DEF RowsOK
<1> HIDE DEF new
<1>3. \A i \in 1..Len(rows) : ~SameSourceEvent(rows[i], e)
  BY <1>1 DEF Conflicts
<1>4. \A i \in 1..Len(rows) : ~SameSourceEvent(e, rows[i])
  BY <1>3 DEF SameSourceEvent
<1>5. \A i \in 1..Len(new) : i \in 1..Len(rows) \/ i = Len(rows) + 1
  BY <1>1, <1>2
<1>6. \A i \in 1..Len(new) : new[i].sid # Blank => \E g \in Hooks : KeyedBy(new[i], g)
  BY <1>2, <1>5 DEF RowsOK
<1>7. \A i, j \in 1..Len(new) : i # j => ~SameSourceEvent(new[i], new[j])
  BY <1>2, <1>3, <1>4, <1>5 DEF RowsOK
<1>8. RowsOK(new)
  BY <1>2, <1>6, <1>7 DEF RowsOK
<1>9. Len(rows) + 1 \in 1..Len(new) /\ \A i \in 1..Len(rows) : i \in 1..Len(new)
  BY <1>1, <1>2
<1>10. HasRow(new, e) /\ Extended(rows, new)
  BY <1>2, <1>9 DEF HasRow, Alike, Extended
<1> QED
  BY <1>8, <1>10 DEF new

\* An insert, also one that the index refuses, leaves the table with the event.
LEMMA Inserted ==
  ASSUME NEW rows, RowsOK(rows), NEW hook \in Hooks, NEW e, EventOK(e, hook)
  PROVE  /\ RowsOK(InsertRow(rows, e)) /\ HasRow(InsertRow(rows, e), e)
         /\ Extended(rows, InsertRow(rows, e))
<1>1. DOMAIN rows = 1..Len(rows) /\ Len(rows) \in Nat
  BY TableFacts DEF RowsOK, Table
<1>2. \A r : ~SameDeployment(r, e)
  BY DEF SameDeployment, EventOK
<1>3. CASE Conflicts(rows, e)
  <2>1. PICK i \in 1..Len(rows) : SameSourceEvent(rows[i], e)
    BY <1>1, <1>2, <1>3 DEF Conflicts
  <2>2. e.sid # Blank /\ rows[i].src = e.src /\ rows[i].sid = e.sid
    BY <2>1 DEF SameSourceEvent
  <2> PICK g \in Hooks : KeyedBy(rows[i], g)
    BY <2>2 DEF RowsOK
  <2>3. KeyedBy(e, hook)
    BY <2>2 DEF EventOK
  <2>4. Alike(rows[i], e)
    BY <2>2, <2>3, KeyTells DEF Alike
  <2> QED
    BY <1>3, <2>4 DEF InsertRow, HasRow, Extended
<1>4. CASE ~Conflicts(rows, e)
  BY <1>4, Appended DEF InsertRow, EventOK
<1> QED
  BY <1>3, <1>4

\* A deployment the engine reports has no source event.
LEMMA ReportedRow ==
  ASSUME NEW rows, RowsOK(rows), NEW e, e.sid = Blank
  PROVE  RowsOK(InsertRow(rows, e)) /\ Extended(rows, InsertRow(rows, e))
<1>1. CASE Conflicts(rows, e)
  BY <1>1 DEF InsertRow, Extended
<1>2. CASE ~Conflicts(rows, e)
  BY <1>2, Appended DEF InsertRow
<1> QED
  BY <1>1, <1>2

-----------------------------------------------------------------------------
(* What a summary counts.                                                   *)

\* The beginning of the window a summary is about.
From == WindowStart(Now, WindowDays)

Counted(rows, svc, types) == Within(rows, svc, types, From, Now)
Failed(rows, svc) == FailingDeployments(rows, svc, From, Now)

LEMMA CountedAreFinite ==
  ASSUME NEW rows, Table(rows), NEW svc, NEW types
  PROVE  /\ IsFiniteSet(Counted(rows, svc, types)) /\ Cardinality(Counted(rows, svc, types)) \in Nat
         /\ IsFiniteSet(Failed(rows, svc)) /\ Cardinality(Failed(rows, svc)) \in Nat
<1>1. IsFiniteSet(DOMAIN rows)
  BY TableFacts, FS_Interval DEF Table
<1>2. Counted(rows, svc, types) \subseteq DOMAIN rows /\ Failed(rows, svc) \subseteq DOMAIN rows
  BY DEF Within, Counted, Failed, FailingDeployments
<1> QED
  BY <1>1, <1>2, FS_Subset, FS_CardinalityType

\* The counts of a table that grows do not fall.
LEMMA CountsGrow ==
  ASSUME NEW rows, NEW new, Table(rows), Table(new), Extended(rows, new), NEW svc, NEW types
  PROVE  /\ Cardinality(Counted(rows, svc, types)) <= Cardinality(Counted(new, svc, types))
         /\ Cardinality(Failed(rows, svc)) <= Cardinality(Failed(new, svc))
<1>1. DOMAIN rows = 1..Len(rows) /\ DOMAIN new = 1..Len(new)
  BY TableFacts
<1>2. \A ty : Counted(rows, svc, ty) \subseteq Counted(new, svc, ty)
  BY <1>1 DEF Extended, Counted, Within
<1>3. Failed(rows, svc) \subseteq Failed(new, svc)
  <2> SUFFICES ASSUME NEW d \in Failed(rows, svc) PROVE d \in Failed(new, svc)
    OBVIOUS
  <2>1. d \in Counted(new, svc, Deployments)
    BY <1>2 DEF Failed, FailingDeployments, Counted
  <2>2. d \in 1..Len(rows) /\ new[d] = rows[d]
    BY <1>1 DEF Failed, FailingDeployments, Within, Extended
  <2>3. PICK i \in After(rows, svc, d, Now) :
               \/ rows[d].corr # Blank /\ rows[i].corr = rows[d].corr
               \/ rows[i].ts <= rows[d].ts + HOUR
    BY DEF Failed, FailingDeployments
  <2>4. i \in After(new, svc, d, Now) /\ new[i] = rows[i]
    BY <1>1, <2>2 DEF After, Within, Extended
  <2> QED
    BY <2>1, <2>2, <2>3, <2>4 DEF Failed, FailingDeployments, Counted
<1> QED
  BY <1>2, <1>3, CountedAreFinite, FS_Subset

\* The two kinds of matches add up to the deployments that fail, each once.
LEMMA MatchesAddUp ==
  ASSUME NEW rows, Table(rows), NEW svc
  PROVE  Cardinality(ExplicitMatches(rows, svc, From, Now)) + Cardinality(HeuristicMatches(rows, svc, From, Now))
           = Cardinality(Failed(rows, svc))
<1> DEFINE E == ExplicitMatches(rows, svc, From, Now)
           H == HeuristicMatches(rows, svc, From, Now)
<1>1. E \cup H = Failed(rows, svc) /\ E \cap H = {}
  BY DEF ExplicitMatches, HeuristicMatches, Failed, FailingDeployments
<1> HIDE DEF E, H
<1>2. IsFiniteSet(E) /\ IsFiniteSet(H)
  <2>1. E \subseteq Failed(rows, svc) /\ H \subseteq Failed(rows, svc)
    BY <1>1
  <2> QED
    BY <2>1, CountedAreFinite, FS_Subset
<1>3. Cardinality(E) \in Nat /\ Cardinality(H) \in Nat
  BY <1>2, FS_CardinalityType
<1>4. Cardinality(E \cup H) = Cardinality(E) + Cardinality(H) - Cardinality(E \cap H)
  BY <1>2, FS_Union
<1>5. Cardinality(E \cap H) = 0
  BY <1>1, FS_EmptySet
<1> QED
  BY <1>1, <1>3, <1>4, <1>5 DEF E, H

\* Failures are deployments.
LEMMA FailuresAreDeployed ==
  ASSUME NEW rows, Table(rows), NEW svc
  PROVE  /\ Cardinality(Failed(rows, svc)) <= Cardinality(Counted(rows, svc, Deployments))
         /\ Cardinality(Counted(rows, svc, {"deployment.failed"})) <= Cardinality(Counted(rows, svc, Deployments))
<1>1. Failed(rows, svc) \subseteq Counted(rows, svc, Deployments)
  BY DEF Failed, FailingDeployments, Counted
<1>2. Counted(rows, svc, {"deployment.failed"}) \subseteq Counted(rows, svc, Deployments)
  BY DEF Counted, Within, Deployments
<1> QED
  BY <1>1, <1>2, CountedAreFinite, FS_Subset

StatFields == {"deployments", "opened", "explicit", "heuristic", "proxy", "failing"}
StatShape(s) == s = [x \in StatFields |-> s[x]]

LEMMA NoStatsFields == StatShape(NoCFRStats) /\ NoCFRStats.failing = 0
<1>1. StatShape(NoCFRStats)
  BY Zenon DEF StatShape, StatFields, NoCFRStats
<1> QED
  BY <1>1 DEF NoCFRStats

LEMMA DeploymentsFields ==
  ASSUME NEW s, StatShape(s), NEW rows, NEW svc
  PROVE  LET n == WithDeployments(s, rows, svc, From, Now) IN
         /\ StatShape(n) /\ n.deployments = Cardinality(Counted(rows, svc, Deployments)) /\ n.failing = s.failing
<1>1. StatShape(WithDeployments(s, rows, svc, From, Now))
  BY Zenon DEF StatShape, StatFields, WithDeployments
<1> QED
  BY <1>1 DEF StatShape, StatFields, WithDeployments, Counted

LEMMA OpenedStatFields ==
  ASSUME NEW s, StatShape(s), NEW rows, NEW svc
  PROVE  LET n == WithOpened(s, rows, svc, From, Now) IN
         /\ StatShape(n) /\ n.opened = Cardinality(Counted(rows, svc, {"incident.opened"}))
         /\ n.deployments = s.deployments /\ n.failing = s.failing
<1>1. StatShape(WithOpened(s, rows, svc, From, Now))
  BY Zenon DEF StatShape, StatFields, WithOpened
<1> QED
  BY <1>1 DEF StatShape, StatFields, WithOpened, Counted

LEMMA MatchesFields ==
  ASSUME NEW s, StatShape(s), NEW rows, NEW svc, Table(rows)
  PROVE  LET n == WithMatches(s, rows, svc, From, Now) IN
         /\ StatShape(n) /\ n.failing = Cardinality(Failed(rows, svc))
         /\ n.deployments = s.deployments /\ n.opened = s.opened
<1>1. StatShape(WithMatches(s, rows, svc, From, Now))
  BY Zenon DEF StatShape, StatFields, WithMatches
<1> QED
  BY <1>1, MatchesAddUp DEF StatShape, StatFields, WithMatches

LEMMA ProxyFields ==
  ASSUME NEW s, StatShape(s), NEW rows, NEW svc
  PROVE  LET n == WithProxy(s, rows, svc, From, Now) IN
         /\ StatShape(n) /\ n.failing = Cardinality(Counted(rows, svc, {"deployment.failed"}))
         /\ n.deployments = s.deployments /\ n.opened = s.opened
<1>1. StatShape(WithProxy(s, rows, svc, From, Now))
  BY Zenon DEF StatShape, StatFields, WithProxy
<1> QED
  BY <1>1 DEF StatShape, StatFields, WithProxy, Counted

-----------------------------------------------------------------------------
(* Requests and answers as records.                                         *)

ReqFields == {"op", "pc", "hook", "svc", "row", "events", "i", "held", "gone", "status", "scope", "stats", "first"}

ReqShape(r) == r = [x \in ReqFields |-> r[x]]

\* The assignments a handler makes to its locals.
ToPc(r, pc) == [r EXCEPT !.pc = pc]
ToStatus(r, pc, status) == [r EXCEPT !.pc = pc, !.status = status]
ToHeld(r, pc, held) == [r EXCEPT !.pc = pc, !.held = held]
ToNext(r, i) == [r EXCEPT !.i = i]
ToLoaded(r, hook, events, pc) == [r EXCEPT !.hook = hook, !.events = events, !.pc = pc]
ToReplayed(r, pc, i) == [r EXCEPT !.pc = pc, !.i = i]
ToSummary(r) == [r EXCEPT !.op = "summary", !.pc = "authorize"]
ToStats(r, pc, stats, first) == [r EXCEPT !.pc = pc, !.stats = stats, !.first = first]
ToGone(r) == [r EXCEPT !.gone = TRUE]
Opened(hook, svc) == [NoRequest EXCEPT !.op = "ingest", !.hook = hook, !.svc = svc]
Replaying(row, svc, scope) ==
  [NoRequest EXCEPT !.op = "replay", !.pc = "authorize", !.row = row, !.scope = scope, !.svc = svc]
Asked(op, row, svc, scope, pc, status) ==
  [NoRequest EXCEPT !.op = op, !.svc = svc, !.row = row, !.scope = scope, !.pc = pc, !.status = status]
ToEvents(r, events) == [r EXCEPT !.pc = "acquire", !.events = events]

\* What an assignment to the place and the status leaves alone.
SameJob(r, s) ==
  s.op = r.op /\ s.hook = r.hook /\ s.svc = r.svc /\ s.row = r.row

LEMMA NoRequestFields == ReqShape(NoRequest) /\ NoRequest.op = "none" /\ NoRequest.pc = "idle"
                         /\ NoRequest.status = "none" /\ NoRequest.i = 1
<1>1. ReqShape(NoRequest)
  BY Zenon DEF ReqShape, ReqFields, NoRequest
<1> QED
  BY <1>1 DEF NoRequest

LEMMA PcFields ==
  ASSUME NEW r, ReqShape(r), NEW pc
  PROVE  LET s == ToPc(r, pc) IN
         ReqShape(s) /\ SameJob(r, s) /\ s.pc = pc /\ s.i = r.i /\ s.events = r.events
         /\ s.status = r.status /\ s.scope = r.scope
<1>1. ReqShape(ToPc(r, pc))
  BY Zenon DEF ReqShape, ReqFields, ToPc
<1> QED
  BY <1>1 DEF ReqShape, ReqFields, ToPc, SameJob

LEMMA StatusFields ==
  ASSUME NEW r, ReqShape(r), NEW pc, NEW status
  PROVE  LET s == ToStatus(r, pc, status) IN
         ReqShape(s) /\ SameJob(r, s) /\ s.pc = pc /\ s.status = status /\ s.i = r.i /\ s.scope = r.scope
<1>1. ReqShape(ToStatus(r, pc, status))
  BY Zenon DEF ReqShape, ReqFields, ToStatus
<1> QED
  BY <1>1 DEF ReqShape, ReqFields, ToStatus, SameJob

LEMMA HeldFields ==
  ASSUME NEW r, ReqShape(r), NEW pc, NEW held
  PROVE  LET s == ToHeld(r, pc, held) IN
         ReqShape(s) /\ SameJob(r, s) /\ s.pc = pc /\ s.i = r.i /\ s.events = r.events
         /\ s.status = r.status /\ s.scope = r.scope
<1>1. ReqShape(ToHeld(r, pc, held))
  BY Zenon DEF ReqShape, ReqFields, ToHeld
<1> QED
  BY <1>1 DEF ReqShape, ReqFields, ToHeld, SameJob

LEMMA NextFields ==
  ASSUME NEW r, ReqShape(r), NEW i
  PROVE  LET s == ToNext(r, i) IN
         ReqShape(s) /\ SameJob(r, s) /\ s.pc = r.pc /\ s.i = i /\ s.events = r.events /\ s.status = r.status
<1>1. ReqShape(ToNext(r, i))
  BY Zenon DEF ReqShape, ReqFields, ToNext
<1> QED
  BY <1>1 DEF ReqShape, ReqFields, ToNext, SameJob

LEMMA LoadedFields ==
  ASSUME NEW r, ReqShape(r), NEW hook, NEW events, NEW pc
  PROVE  LET s == ToLoaded(r, hook, events, pc) IN
         ReqShape(s) /\ s.op = r.op /\ s.svc = r.svc /\ s.row = r.row
         /\ s.hook = hook /\ s.events = events /\ s.pc = pc /\ s.i = r.i /\ s.status = r.status
<1>1. ReqShape(ToLoaded(r, hook, events, pc))
  BY Zenon DEF ReqShape, ReqFields, ToLoaded
<1> QED
  BY <1>1 DEF ReqShape, ReqFields, ToLoaded, SameJob

LEMMA ReplayedFields ==
  ASSUME NEW r, ReqShape(r), NEW pc, NEW i
  PROVE  LET s == ToReplayed(r, pc, i) IN
         ReqShape(s) /\ SameJob(r, s) /\ s.pc = pc /\ s.i = i /\ s.events = r.events /\ s.status = r.status
<1>1. ReqShape(ToReplayed(r, pc, i))
  BY Zenon DEF ReqShape, ReqFields, ToReplayed
<1> QED
  BY <1>1 DEF ReqShape, ReqFields, ToReplayed, SameJob

LEMMA SummaryFields ==
  ASSUME NEW r, ReqShape(r)
  PROVE  LET s == ToSummary(r) IN
         ReqShape(s) /\ s.op = "summary" /\ s.pc = "authorize" /\ s.scope = r.scope
<1>1. ReqShape(ToSummary(r))
  BY Zenon DEF ReqShape, ReqFields, ToSummary
<1> QED
  BY <1>1 DEF ReqShape, ReqFields, ToSummary, SameJob

LEMMA StatsFields ==
  ASSUME NEW r, ReqShape(r), NEW pc, NEW stats, NEW first
  PROVE  LET s == ToStats(r, pc, stats, first) IN
         ReqShape(s) /\ SameJob(r, s) /\ s.pc = pc /\ s.stats = stats /\ s.first = first
<1>1. ReqShape(ToStats(r, pc, stats, first))
  BY Zenon DEF ReqShape, ReqFields, ToStats
<1> QED
  BY <1>1 DEF ReqShape, ReqFields, ToStats, SameJob

LEMMA GoneFields ==
  ASSUME NEW r, ReqShape(r)
  PROVE  LET s == ToGone(r) IN
         ReqShape(s) /\ SameJob(r, s) /\ s.pc = r.pc /\ s.i = r.i /\ s.events = r.events
         /\ s.status = r.status /\ s.scope = r.scope /\ s.stats = r.stats /\ s.first = r.first
<1>1. ReqShape(ToGone(r))
  BY Zenon DEF ReqShape, ReqFields, ToGone
<1> QED
  BY <1>1 DEF ReqShape, ReqFields, ToGone, SameJob

LEMMA EventsFields ==
  ASSUME NEW r, ReqShape(r), NEW events
  PROVE  LET s == ToEvents(r, events) IN
         ReqShape(s) /\ SameJob(r, s) /\ s.pc = "acquire" /\ s.i = r.i /\ s.events = events /\ s.status = r.status
<1>1. ReqShape(ToEvents(r, events))
  BY Zenon DEF ReqShape, ReqFields, ToEvents
<1> QED
  BY <1>1 DEF ReqShape, ReqFields, ToEvents, SameJob

LEMMA OpenedFields ==
  ASSUME NEW hook, NEW svc
  PROVE  LET s == Opened(hook, svc) IN
         ReqShape(s) /\ s.op = "ingest" /\ s.hook = hook /\ s.svc = svc /\ s.i = 1 /\ s.status = "none"
<1>1. ReqShape(Opened(hook, svc))
  BY Zenon DEF ReqShape, ReqFields, Opened, NoRequest
<1> QED
  BY <1>1 DEF ReqShape, ReqFields, Opened, SameJob, NoRequest

LEMMA ReplayFields ==
  ASSUME NEW row, NEW svc, NEW scope
  PROVE  LET s == Replaying(row, svc, scope) IN
         ReqShape(s) /\ s.op = "replay" /\ s.pc = "authorize" /\ s.i = 1 /\ s.status = "none" /\ s.scope = scope
<1>1. ReqShape(Replaying(row, svc, scope))
  BY Zenon DEF ReqShape, ReqFields, Replaying, NoRequest
<1> QED
  BY <1>1 DEF ReqShape, ReqFields, Replaying, SameJob, NoRequest

LEMMA AskedFields ==
  ASSUME NEW op, NEW row, NEW svc, NEW scope, NEW pc, NEW status
  PROVE  LET s == Asked(op, row, svc, scope, pc, status) IN
         ReqShape(s) /\ s.op = op /\ s.pc = pc /\ s.status = status /\ s.scope = scope
<1>1. ReqShape(Asked(op, row, svc, scope, pc, status))
  BY Zenon DEF ReqShape, ReqFields, Asked, NoRequest
<1> QED
  BY <1>1 DEF ReqShape, ReqFields, Asked, SameJob, NoRequest

\* The answer to a request.
Answer(r, status, dl, stats) ==
  [nth |-> Cardinality(doraAnswers) + 1, op |-> r.op, hook |-> r.hook, svc |-> r.svc,
   row |-> r.row, stats |-> stats, dl |-> dl,
   status |-> IF r.status \in {"403", "503"} THEN r.status ELSE status]

LEMMA AnswerFields ==
  ASSUME NEW r, NEW status, NEW dl, NEW stats
  PROVE  LET a == Answer(r, status, dl, stats) IN
         /\ a.op = r.op /\ a.hook = r.hook /\ a.svc = r.svc /\ a.dl = dl /\ a.stats = stats
         /\ a.status = IF r.status \in {"403", "503"} THEN r.status ELSE status
BY DEF Answer

LetterFields == {"provider", "hook", "code", "replayed"}
LetterShape(l) == l = [x \in LetterFields |-> l[x]]
Marked(l) == [l EXCEPT !.replayed = TRUE]

LEMMA DeadLetterFields ==
  ASSUME NEW hook, NEW code
  PROVE  LET l == DeadLetter(hook, code) IN
         LetterShape(l) /\ l.hook = hook /\ l.code = code /\ l.replayed = FALSE
<1>1. LetterShape(DeadLetter(hook, code))
  BY Zenon DEF LetterShape, LetterFields, DeadLetter
<1> QED
  BY <1>1 DEF DeadLetter

LEMMA MarkedFields ==
  ASSUME NEW l, LetterShape(l)
  PROVE  LET m == Marked(l) IN
         LetterShape(m) /\ m.hook = l.hook /\ m.code = l.code /\ m.replayed = TRUE
<1>1. LetterShape(Marked(l))
  BY Zenon DEF LetterShape, LetterFields, Marked
<1> QED
  BY <1>1 DEF LetterShape, LetterFields, Marked

-----------------------------------------------------------------------------
(* The inductive invariant.                                                 *)

\* The first n events of a hook, or all of them, have their rows.
StoredUpTo(rows, events, n) == \A k \in 1..n : HasRow(rows, events[k])
AllStored(rows, hook, svc) ==
  \A k \in DOMAIN EventsOf(hook, svc) : HasRow(rows, EventsOf(hook, svc)[k])

\* A handler that inserts events does so in their order.
AtEvent(r, rows) ==
  /\ r.hook \in Hooks /\ r.hook.provider \in Registered
  /\ r.events = EventsOf(r.hook, r.svc)
  /\ r.i \in 1..Len(r.events) /\ StoredUpTo(rows, r.events, r.i - 1)

IngestOK(r, rows) ==
  /\ r.hook \in Hooks /\ r.status \notin {"403", "503"}
  /\ r.pc \in {"done", "fail", "acquire", "insert"}
  /\ r.pc = "done" /\ r.status = "processed" => EventsOf(r.hook, r.svc) = << >>
  /\ r.pc = "fail" => r.status # "processed"
  /\ r.pc \in {"acquire", "insert"} => AtEvent(r, rows)

ReplayOK(r, rows, letters) ==
  /\ r.pc \in {"authorize", "acquire", "load"} => r.i = 1
  /\ r.pc \in {"replay", "mark"} => r.row \in 1..Len(letters) /\ r.hook = letters[r.row].hook
  /\ r.pc = "replay" => AtEvent(r, rows)
  /\ r.pc = "mark" => r.hook \in Hooks /\ r.hook.provider \in Registered /\ AllStored(rows, r.hook, r.svc)

\* The counts so far of a summary lie between those of its first rows and those
\* of the rows at present.
SummaryOK(r, rows) ==
  r.pc \in {"opened", "match", "failed", "report"} =>
    /\ Table(r.first) /\ Extended(r.first, rows) /\ StatShape(r.stats)
    /\ r.stats.deployments \in Cardinality(Counted(r.first, r.svc, Deployments))
                               ..Cardinality(Counted(rows, r.svc, Deployments))
    /\ r.pc # "opened" => r.stats.opened \in Cardinality(Counted(r.first, r.svc, {"incident.opened"}))
                                             ..Cardinality(Counted(rows, r.svc, {"incident.opened"}))
    /\ r.pc = "opened" => r.stats.failing = 0
    /\ r.pc = "match" => r.stats.deployments # 0
    /\ r.pc = "failed" => r.stats.deployments # 0 /\ r.stats.opened = 0
    /\ r.pc = "report" =>
         /\ r.stats.deployments = 0 => r.stats.failing = 0
         /\ r.stats.deployments # 0 /\ r.stats.opened = 0 =>
              r.stats.failing \in Cardinality(Counted(r.first, r.svc, {"deployment.failed"}))
                                 ..Cardinality(Counted(rows, r.svc, {"deployment.failed"}))
         /\ r.stats.deployments # 0 /\ r.stats.opened # 0 =>
              r.stats.failing \in Cardinality(Failed(r.first, r.svc))..Cardinality(Failed(rows, r.svc))

HandlerOK(r, rows, letters) ==
  /\ ReqShape(r)
  /\ r.op \in {"none", "ingest", "replay", "summary", "group", "deployments", "list", "get"}
  /\ r.pc = "fail" => r.op = "ingest"
  /\ r.pc = "done" => r.status \in {"400", "processed"}
  /\ r.pc = "authorize" \/ r.op = "group" => r.scope \in {"denied", "brand", "group"}
  /\ r.pc = "read" => r.op \in {"deployments", "list", "get"}
  /\ r.pc \in {"authorize", "acquire"} => r.op # "none"
  /\ r.op = "ingest" => IngestOK(r, rows)
  /\ r.op = "replay" => ReplayOK(r, rows, letters)
  /\ r.op = "summary" => SummaryOK(r, rows)

LetterOK(l, rows) ==
  /\ LetterShape(l) /\ l.hook \in Hooks /\ l.replayed \in BOOLEAN
  /\ l.replayed => l.hook.provider \in Registered /\ AllStored(rows, l.hook, Unknown)

LettersOK(letters, rows) ==
  Table(letters) /\ \A d \in 1..Len(letters) : LetterOK(letters[d], rows)

AnswerOK(a, rows, letters) ==
  /\ a.op = "ingest" /\ a.status = "processed" => AllStored(rows, a.hook, a.svc)
  /\ a.op = "ingest" /\ a.dl # 0 =>
       a.dl \in 1..Len(letters) /\ letters[a.dl].hook = a.hook /\ letters[a.dl].code = a.status
  /\ a.op = "replay" /\ a.dl # 0 => a.dl \in 1..Len(letters) /\ letters[a.dl].replayed
  /\ a.op = "summary" /\ a.status = "200" =>
       CFRIsCurrent(a.stats.report.cfr, a.svc, a.stats.first, a.stats.last)

IngestInv ==
  /\ RowsOK(doraEvents)
  /\ LettersOK(deadLetters, doraEvents)
  /\ doraReq = [h \in DoraHandlers |-> doraReq[h]]
  /\ \A h \in DoraHandlers : HandlerOK(doraReq[h], doraEvents, deadLetters)
  /\ \A a \in doraAnswers : AnswerOK(a, doraEvents, deadLetters)
  /\ \A a, b \in doraAnswers :
       a.op = "replay" /\ b.op = "replay" /\ a.dl = b.dl /\ a.dl # 0 => a = b

-----------------------------------------------------------------------------
(* The tables only grow, and what handlers and answers rest on stays true.  *)

RowsGrow(rows, new) ==
  /\ RowsOK(rows) /\ RowsOK(new) /\ Extended(rows, new)
  /\ \A f : HasRow(rows, f) => HasRow(new, f)

LettersGrow(letters, new) ==
  /\ \A d \in 1..Len(letters) :
       /\ d \in 1..Len(new) /\ new[d].hook = letters[d].hook /\ new[d].code = letters[d].code
       /\ letters[d].replayed => new[d].replayed

LEMMA SummaryStays ==
  ASSUME NEW r, NEW rows, NEW rows2, SummaryOK(r, rows), RowsGrow(rows, rows2)
  PROVE  SummaryOK(r, rows2)
<1> SUFFICES ASSUME r.pc \in {"opened", "match", "failed", "report"} PROVE SummaryOK(r, rows2)
  BY DEF SummaryOK
<1>1. Table(r.first) /\ Table(rows) /\ Table(rows2) /\ Extended(r.first, rows2)
  BY DEF SummaryOK, RowsGrow, RowsOK, Extended
<1>2. \A types : /\ Cardinality(Counted(r.first, r.svc, types)) \in Nat
                 /\ Cardinality(Counted(rows, r.svc, types)) \in Nat
                 /\ Cardinality(Counted(rows2, r.svc, types)) \in Nat
                 /\ Cardinality(Counted(rows, r.svc, types)) <= Cardinality(Counted(rows2, r.svc, types))
  BY <1>1, CountedAreFinite, CountsGrow DEF RowsGrow
<1>3. /\ Cardinality(Failed(r.first, r.svc)) \in Nat /\ Cardinality(Failed(rows, r.svc)) \in Nat
      /\ Cardinality(Failed(rows2, r.svc)) \in Nat
      /\ Cardinality(Failed(rows, r.svc)) <= Cardinality(Failed(rows2, r.svc))
  BY <1>1, CountedAreFinite, CountsGrow DEF RowsGrow
<1> QED
  BY <1>1, <1>2, <1>3 DEF SummaryOK

LEMMA HandlerStays ==
  ASSUME NEW r, NEW rows, NEW letters, NEW rows2, NEW letters2,
         HandlerOK(r, rows, letters), RowsGrow(rows, rows2), LettersGrow(letters, letters2)
  PROVE  HandlerOK(r, rows2, letters2)
<1>1. AtEvent(r, rows) => AtEvent(r, rows2)
  BY DEF AtEvent, StoredUpTo, RowsGrow
<1>2. \A hook, svc : AllStored(rows, hook, svc) => AllStored(rows2, hook, svc)
  BY DEF AllStored, RowsGrow
<1>3. r.op = "ingest" => IngestOK(r, rows2)
  BY <1>1 DEF HandlerOK, IngestOK
<1>4. r.op = "replay" => ReplayOK(r, rows2, letters2)
  BY <1>1, <1>2 DEF HandlerOK, ReplayOK, LettersGrow
<1>5. r.op = "summary" => SummaryOK(r, rows2)
  BY SummaryStays DEF HandlerOK
<1> QED
  BY <1>3, <1>4, <1>5 DEF HandlerOK

LEMMA AnswerStays ==
  ASSUME NEW a, NEW rows, NEW letters, NEW rows2, NEW letters2,
         AnswerOK(a, rows, letters), RowsGrow(rows, rows2), LettersGrow(letters, letters2)
  PROVE  AnswerOK(a, rows2, letters2)
<1>1. \A hook, svc : AllStored(rows, hook, svc) => AllStored(rows2, hook, svc)
  BY DEF AllStored, RowsGrow
<1> QED
  BY <1>1 DEF AnswerOK, LettersGrow

LEMMA LettersStay ==
  ASSUME NEW rows, NEW letters, NEW rows2, LettersOK(letters, rows), RowsGrow(rows, rows2)
  PROVE  LettersOK(letters, rows2)
<1>1. \A hook, svc : AllStored(rows, hook, svc) => AllStored(rows2, hook, svc)
  BY DEF AllStored, RowsGrow
<1> QED
  BY <1>1 DEF LettersOK, LetterOK

\* What a step of handler h may do.
Moves(h, r) == doraReq' = [doraReq EXCEPT ![h] = r] /\ HandlerOK(r, doraEvents', deadLetters')

Answers(a) ==
  /\ doraAnswers' = doraAnswers \cup {a} /\ AnswerOK(a, doraEvents', deadLetters')
  /\ a.op = "replay" /\ a.dl # 0 => a.dl \in 1..Len(deadLetters) /\ ~deadLetters[a.dl].replayed

StepOK(h) ==
  /\ RowsGrow(doraEvents, doraEvents') /\ LettersGrow(deadLetters, deadLetters')
  /\ LettersOK(deadLetters', doraEvents')
  /\ \E r : Moves(h, r)
  /\ doraAnswers' = doraAnswers \/ \E a : Answers(a)

LEMMA StepKeepsInv ==
  ASSUME IngestInv, NEW h \in DoraHandlers, StepOK(h)
  PROVE  IngestInv'
<1> PICK r : Moves(h, r)
  BY DEF StepOK
<1>1. RowsOK(doraEvents') /\ LettersOK(deadLetters', doraEvents')
  BY DEF StepOK, RowsGrow
<1>2. /\ doraReq' = [k \in DoraHandlers |-> doraReq'[k]]
      /\ doraReq'[h] = r /\ \A k \in DoraHandlers \ {h} : doraReq'[k] = doraReq[k]
  BY DEF IngestInv, Moves
<1>3. ASSUME NEW k \in DoraHandlers
      PROVE  HandlerOK(doraReq'[k], doraEvents', deadLetters')
  <2>1. CASE k = h
    BY <1>2, <2>1 DEF Moves
  <2>2. CASE k # h
    <3>1. HandlerOK(doraReq[k], doraEvents', deadLetters')
      BY HandlerStays DEF IngestInv, StepOK
    <3> QED
      BY <1>2, <2>2, <3>1
  <2> QED
    BY <2>1, <2>2
<1>4. \A a \in doraAnswers : AnswerOK(a, doraEvents', deadLetters')
  BY AnswerStays DEF IngestInv, StepOK
<1>5. CASE doraAnswers' = doraAnswers
  BY <1>1, <1>2, <1>3, <1>4, <1>5 DEF IngestInv
<1>6. CASE \E a : Answers(a)
  <2> PICK a : Answers(a)
    BY <1>6
  <2>1. \A b \in doraAnswers' : AnswerOK(b, doraEvents', deadLetters')
    BY <1>4 DEF Answers
  <2>2. ASSUME NEW b \in doraAnswers, a.op = "replay", b.op = "replay", a.dl = b.dl, a.dl # 0 PROVE FALSE
    <3>1. deadLetters[b.dl].replayed
      BY <2>2 DEF IngestInv, AnswerOK
    <3> QED
      BY <2>2, <3>1 DEF Answers
  <2>3. \A b, c \in doraAnswers' : b.op = "replay" /\ c.op = "replay" /\ b.dl = c.dl /\ b.dl # 0 => b = c
    BY <2>2 DEF IngestInv, Answers
  <2> QED
    BY <1>1, <1>2, <1>3, <2>1, <2>3 DEF IngestInv
<1> QED
  BY <1>5, <1>6 DEF StepOK

-----------------------------------------------------------------------------
(* Steps.                                                                   *)

LEMMA TablesStay ==
  ASSUME IngestInv, UNCHANGED_TABLES
  PROVE  /\ RowsGrow(doraEvents, doraEvents') /\ LettersGrow(deadLetters, deadLetters')
         /\ LettersOK(deadLetters', doraEvents')
BY DEF IngestInv, UNCHANGED_TABLES, RowsGrow, LettersGrow, Extended

\* A handler that goes on.
LEMMA GoesOn ==
  ASSUME IngestInv, NEW h \in DoraHandlers, NEW r, Set(h, r), UNCHANGED doraAnswers, UNCHANGED_TABLES,
         HandlerOK(r, doraEvents, deadLetters)
  PROVE  StepOK(h)
<1>1. Moves(h, r)
  BY DEF Moves, Set, UNCHANGED_TABLES
<1> QED
  BY <1>1, TablesStay DEF StepOK

LEMMA NoRequestOK ==
  ASSUME NEW rows, NEW letters
  PROVE  HandlerOK(NoRequest, rows, letters)
BY NoRequestFields DEF HandlerOK

LEMMA FinishMoves ==
  ASSUME NEW h \in DoraHandlers, NEW status, NEW dl, NEW stats, FinishWith(h, status, dl, stats)
  PROVE  Moves(h, NoRequest) /\ doraAnswers' = doraAnswers \cup {Answer(doraReq[h], status, dl, stats)}
BY NoRequestOK DEF FinishWith, Set, Moves, Answer

\* An answer that promises nothing.
LEMMA Ends ==
  ASSUME IngestInv, NEW h \in DoraHandlers, NEW status, NEW stats, FinishWith(h, status, 0, stats), UNCHANGED_TABLES,
         doraReq[h].op = "ingest" => status # "processed",
         doraReq[h].op = "summary" => status # "200"
  PROVE  StepOK(h)
<1> DEFINE a == Answer(doraReq[h], status, 0, stats)
<1>1. Moves(h, NoRequest) /\ doraAnswers' = doraAnswers \cup {a}
  BY FinishMoves
<1>2. a.op = doraReq[h].op /\ a.dl = 0 /\ (a.status = status \/ a.status \in {"403", "503"})
  BY AnswerFields
<1> HIDE DEF a
<1>3. AnswerOK(a, doraEvents', deadLetters')
  BY <1>2 DEF AnswerOK
<1>4. Answers(a)
  BY <1>1, <1>2, <1>3 DEF Answers
<1> QED
  BY <1>1, <1>4, TablesStay DEF StepOK

LEMMA EndsPlain ==
  ASSUME IngestInv, NEW h \in DoraHandlers, NEW status, Finish(h, status, 0), UNCHANGED_TABLES,
         doraReq[h].op = "ingest" => status # "processed",
         doraReq[h].op = "summary" => status # "200"
  PROVE  StepOK(h)
BY Ends DEF Finish

\* What a hook comes to decides that its events exist.
LEMMA OutcomeIsEvents ==
  ASSUME NEW hook, NEW svc, Outcome(hook, svc) = "events"
  PROVE  hook.provider \in Registered
BY DEF Outcome

LEMMA OutcomeCodes ==
  ASSUME NEW hook, NEW svc
  PROVE  Outcome(hook, svc) \in {"normalizer_not_found", "normalizer_error", "validation_error", "events"}
BY DEF Outcome

LEMMA FirstEvent ==
  ASSUME NEW r, NEW rows, r.hook \in Hooks, r.hook.provider \in Registered,
         r.events = EventsOf(r.hook, r.svc), r.events # << >>, r.i = 1
  PROVE  AtEvent(r, rows)
<1>1. Len(r.events) \in Nat /\ Len(r.events) # 0
  BY EventFacts
<1> QED
  BY <1>1 DEF AtEvent, StoredUpTo

-----------------------------------------------------------------------------
(* One lemma per action.                                                    *)

LEMMA IngestWebhookStep ==
  ASSUME IngestInv, NEW h \in DoraHandlers, NEW hook \in Hooks, NEW svc, IngestWebhook(h, hook, svc)
  PROVE  StepOK(h)
<1> DEFINE r == Opened(hook, svc)
           events == EventsOf(hook, svc)
           s == IF svc = Blank THEN ToStatus(r, "done", "400")
                ELSE IF Outcome(hook, svc) # "events" THEN ToStatus(r, "fail", Outcome(hook, svc))
                ELSE IF events = << >> THEN ToStatus(r, "done", "processed")
                ELSE ToEvents(r, events)
<1>1. Set(h, s) /\ UNCHANGED doraAnswers /\ UNCHANGED_TABLES
  BY DEF IngestWebhook, Begin, UNCHANGED_TABLES, Opened, ToStatus, ToEvents, EventsOf
<1>2. ReqShape(r) /\ r.op = "ingest" /\ r.hook = hook /\ r.svc = svc /\ r.i = 1 /\ r.status = "none"
  BY OpenedFields
<1> HIDE DEF r
<1>3. HandlerOK(s, doraEvents, deadLetters)
  <2>1. CASE svc = Blank
    <3>1. s = ToStatus(r, "done", "400")
      BY <2>1
    <3> HIDE DEF s
    <3>2. ReqShape(s) /\ SameJob(r, s) /\ s.pc = "done" /\ s.status = "400"
      BY <1>2, <3>1, StatusFields
    <3>3. IngestOK(s, doraEvents)
      BY <1>2, <3>2 DEF SameJob, IngestOK
    <3> QED
      BY <1>2, <3>2, <3>3 DEF SameJob, HandlerOK
  <2>2. CASE svc # Blank /\ Outcome(hook, svc) # "events"
    <3>1. s = ToStatus(r, "fail", Outcome(hook, svc))
      BY <2>2
    <3> HIDE DEF s
    <3>2. ReqShape(s) /\ SameJob(r, s) /\ s.pc = "fail" /\ s.status = Outcome(hook, svc)
      BY <1>2, <3>1, StatusFields
    <3>3. s.status \notin {"403", "503", "processed"}
      BY <3>2, OutcomeCodes
    <3>4. IngestOK(s, doraEvents)
      BY <1>2, <3>2, <3>3 DEF SameJob, IngestOK
    <3> QED
      BY <1>2, <3>2, <3>4 DEF SameJob, HandlerOK
  <2>3. CASE svc # Blank /\ Outcome(hook, svc) = "events" /\ events = << >>
    <3>1. s = ToStatus(r, "done", "processed")
      BY <2>3
    <3> HIDE DEF s
    <3>2. ReqShape(s) /\ SameJob(r, s) /\ s.pc = "done" /\ s.status = "processed"
      BY <1>2, <3>1, StatusFields
    <3>3. IngestOK(s, doraEvents)
      BY <1>2, <2>3, <3>2 DEF SameJob, IngestOK
    <3> QED
      BY <1>2, <3>2, <3>3 DEF SameJob, HandlerOK
  <2>4. CASE svc # Blank /\ Outcome(hook, svc) = "events" /\ events # << >>
    <3>1. s = ToEvents(r, events)
      BY <2>4
    <3> HIDE DEF s
    <3>2. /\ ReqShape(s) /\ SameJob(r, s) /\ s.pc = "acquire" /\ s.i = 1 /\ s.events = events /\ s.status = "none"
      BY <1>2, <3>1, EventsFields
    <3>3. AtEvent(s, doraEvents)
      BY <1>2, <2>4, <3>2, OutcomeIsEvents, FirstEvent DEF SameJob
    <3>4. IngestOK(s, doraEvents)
      BY <1>2, <3>2, <3>3 DEF SameJob, IngestOK
    <3> QED
      BY <1>2, <3>2, <3>4 DEF SameJob, HandlerOK
  <2> HIDE DEF s, events
  <2> QED
    BY <2>1, <2>2, <2>3, <2>4
<1> HIDE DEF s
<1> QED
  BY <1>1, <1>3, GoesOn

LEMMA ReplayDeadLetterStep ==
  ASSUME IngestInv, NEW h \in DoraHandlers, NEW d, NEW svc, NEW scope \in {"denied", "brand", "group"},
         ReplayDeadLetter(h, d, svc, scope)
  PROVE  StepOK(h)
<1> DEFINE v == IF svc = Blank THEN Unknown ELSE svc
           s == Replaying(d, v, scope)
<1>1. Set(h, s) /\ UNCHANGED doraAnswers /\ UNCHANGED_TABLES
  BY DEF ReplayDeadLetter, Begin, UNCHANGED_TABLES, Replaying
<1>2. ReqShape(s) /\ s.op = "replay" /\ s.pc = "authorize" /\ s.i = 1 /\ s.scope = scope
  BY ReplayFields
<1> HIDE DEF s
<1>3. HandlerOK(s, doraEvents, deadLetters)
  BY <1>2 DEF HandlerOK, ReplayOK
<1> QED
  BY <1>1, <1>3, GoesOn

LEMMA QueryStep ==
  ASSUME IngestInv, NEW h \in DoraHandlers, NEW q \in Queries, q.op # "replay", NEW d, NEW svc, Query(h, q, svc, d)
  PROVE  StepOK(h)
<1> DEFINE pc == IF svc = Blank THEN "done" ELSE "authorize"
           status == IF svc = Blank THEN "400" ELSE "none"
           s == Asked(q.op, d, svc, q.scope, pc, status)
<1>1. Set(h, s) /\ UNCHANGED doraAnswers /\ UNCHANGED_TABLES
  BY DEF Query, Begin, UNCHANGED_TABLES, Asked
<1>2. ReqShape(s) /\ s.op = q.op /\ s.pc = pc /\ s.status = status /\ s.scope = q.scope
  BY AskedFields
<1>3. pc \in {"done", "authorize"} /\ (pc = "done" => status = "400")
  OBVIOUS
<1> HIDE DEF s, pc, status
<1>4. HandlerOK(s, doraEvents, deadLetters)
  BY <1>2, <1>3, QueriesAssumption DEF HandlerOK, SummaryOK
<1> QED
  BY <1>1, <1>4, GoesOn

LEMMA RespondStep ==
  ASSUME IngestInv, NEW h \in DoraHandlers, Respond(h)
  PROVE  StepOK(h)
<1> DEFINE r == doraReq[h]
           a == Answer(r, r.status, 0, Blank)
<1>1. r.pc = "done" /\ FinishWith(h, r.status, 0, Blank) /\ UNCHANGED_TABLES
  BY DEF Respond, Finish
<1>2. HandlerOK(r, doraEvents, deadLetters)
  BY DEF IngestInv
<1>3. Moves(h, NoRequest) /\ doraAnswers' = doraAnswers \cup {a}
  BY <1>1, FinishMoves
<1>4. a.op = r.op /\ a.hook = r.hook /\ a.svc = r.svc /\ a.dl = 0 /\ a.status = r.status
  BY AnswerFields
<1> HIDE DEF a, r
<1>5. a.op = "ingest" /\ a.status = "processed" => AllStored(doraEvents', a.hook, a.svc)
  <2> SUFFICES ASSUME a.op = "ingest", a.status = "processed" PROVE AllStored(doraEvents', a.hook, a.svc)
    OBVIOUS
  <2>1. EventsOf(a.hook, a.svc) = << >>
    BY <1>1, <1>2, <1>4 DEF HandlerOK, IngestOK
  <2>2. DOMAIN << >> = {}
    OBVIOUS
  <2> QED
    BY <2>1, <2>2 DEF AllStored
<1>6. a.status # "200"
  BY <1>1, <1>2, <1>4 DEF HandlerOK
<1>7. Answers(a)
  BY <1>3, <1>4, <1>5, <1>6 DEF Answers, AnswerOK
<1> QED
  BY <1>1, <1>3, <1>7, TablesStay DEF StepOK

LEMMA AcquireConnStep ==
  ASSUME IngestInv, NEW h \in DoraHandlers, AcquireConn(h)
  PROVE  StepOK(h)
<1> DEFINE r == doraReq[h]
           pc == AfterAcquire(r.op)
           s == ToHeld(r, pc, r.held + 1)
           f == ToStatus(r, "fail", "store_error")
<1>1. r.pc = "acquire" /\ UNCHANGED_TABLES
  BY DEF AcquireConn
<1>2. HandlerOK(r, doraEvents, deadLetters)
  BY DEF IngestInv
<1>3. CASE Set(h, s) /\ UNCHANGED doraAnswers
  <2>1. /\ ReqShape(s) /\ SameJob(r, s) /\ s.pc = pc /\ s.i = r.i /\ s.events = r.events
        /\ s.status = r.status /\ s.scope = r.scope
    BY <1>2, HeldFields DEF HandlerOK
  <2>2. /\ pc \in {"insert", "load", "deployments", "versions", "read"}
        /\ (r.op = "ingest" => pc = "insert") /\ (r.op = "replay" => pc = "load")
        /\ (pc = "read" => r.op \notin {"ingest", "replay", "summary", "group"})
    BY DEF AfterAcquire
  <2> HIDE DEF s, r, pc
  <2>3. r.op = "ingest" => IngestOK(s, doraEvents)
    BY <1>1, <1>2, <2>1, <2>2 DEF HandlerOK, IngestOK, AtEvent, SameJob
  <2>4. r.op = "replay" => ReplayOK(s, doraEvents, deadLetters)
    BY <1>1, <1>2, <2>1, <2>2 DEF HandlerOK, ReplayOK, SameJob
  <2>5. HandlerOK(s, doraEvents, deadLetters)
    BY <1>1, <1>2, <2>1, <2>2, <2>3, <2>4 DEF HandlerOK, SummaryOK, SameJob
  <2> QED
    BY <1>1, <1>3, <2>5, GoesOn
<1>4. CASE r.op = "ingest" /\ Fail(h, "store_error")
  <2>1. Set(h, f) /\ UNCHANGED doraAnswers
    BY <1>4 DEF Fail, ToStatus
  <2>2. ReqShape(f) /\ SameJob(r, f) /\ f.pc = "fail" /\ f.status = "store_error"
    BY <1>2, StatusFields DEF HandlerOK
  <2> HIDE DEF r, f
  <2>3. IngestOK(f, doraEvents)
    BY <1>2, <1>4, <2>2 DEF HandlerOK, IngestOK, SameJob
  <2>4. HandlerOK(f, doraEvents, deadLetters)
    BY <1>2, <1>4, <2>2, <2>3 DEF HandlerOK, SameJob
  <2> QED
    BY <1>1, <2>1, <2>4, GoesOn
<1>5. CASE r.op # "ingest" /\ Finish(h, IF r.op = "group" THEN "503" ELSE "500", 0)
  BY <1>1, <1>5, EndsPlain
<1> QED
  BY <1>3, <1>4, <1>5 DEF AcquireConn, ToHeld

\* The next event is inserted: the table keeps its order and has the event.
LEMMA EventInserted ==
  ASSUME IngestInv, NEW r, AtEvent(r, doraEvents), doraEvents' = InsertRow(doraEvents, r.events[r.i])
  PROVE  /\ RowsGrow(doraEvents, doraEvents') /\ StoredUpTo(doraEvents', r.events, r.i)
         /\ Len(r.events) \in Nat /\ r.i \in Nat
         /\ r.i # Len(r.events) => r.i + 1 \in 1..Len(r.events)
         /\ r.i = Len(r.events) => AllStored(doraEvents', r.hook, r.svc)
<1> DEFINE e == r.events[r.i]
<1>1. /\ r.hook \in Hooks /\ r.hook.provider \in Registered /\ r.events = EventsOf(r.hook, r.svc)
      /\ r.i \in 1..Len(r.events) /\ StoredUpTo(doraEvents, r.events, r.i - 1)
  BY DEF AtEvent
<1>2. /\ Len(r.events) \in Nat /\ DOMAIN r.events = 1..Len(r.events) /\ EventOK(e, r.hook)
  BY <1>1, EventFacts
<1> HIDE DEF e
<1>3. /\ RowsOK(doraEvents) /\ RowsOK(doraEvents') /\ HasRow(doraEvents', e) /\ Extended(doraEvents, doraEvents')
      /\ \A f : HasRow(doraEvents, f) => HasRow(doraEvents', f)
  BY <1>1, <1>2, Inserted, ExtendedHasRow DEF IngestInv, e
<1>4. ASSUME NEW k \in 1..r.i PROVE HasRow(doraEvents', r.events[k])
  <2>1. CASE k = r.i
    BY <1>3, <2>1 DEF e
  <2>2. CASE k # r.i
    <3>1. k \in 1..(r.i - 1)
      BY <1>1, <1>2, <2>2
    <3> QED
      BY <1>1, <1>3, <3>1 DEF StoredUpTo
  <2> QED
    BY <2>1, <2>2
<1>5. StoredUpTo(doraEvents', r.events, r.i)
  BY <1>4 DEF StoredUpTo
<1>6. r.i = Len(r.events) => AllStored(doraEvents', r.hook, r.svc)
  BY <1>1, <1>2, <1>5 DEF AllStored, StoredUpTo
<1> QED
  BY <1>1, <1>2, <1>3, <1>5, <1>6 DEF RowsGrow

LEMMA InsertEventStep ==
  ASSUME IngestInv, NEW h \in DoraHandlers, InsertEvent(h)
  PROVE  StepOK(h)
<1> DEFINE r == doraReq[h]
           s == ToNext(r, r.i + 1)
           f == ToStatus(r, "fail", "store_error")
           a == Answer(r, "processed", 0, Blank)
<1>1. r.op = "ingest" /\ r.pc = "insert" /\ UNCHANGED deadLetters
  BY DEF InsertEvent, At
<1>2. HandlerOK(r, doraEvents, deadLetters) /\ IngestOK(r, doraEvents) /\ AtEvent(r, doraEvents)
  BY <1>1 DEF IngestInv, HandlerOK, IngestOK
<1>3. CASE /\ doraEvents' = InsertRow(doraEvents, r.events[r.i])
           /\ IF LastEvent(h) THEN Finish(h, "processed", 0)
              ELSE Set(h, s) /\ UNCHANGED doraAnswers
  <2>1. /\ RowsGrow(doraEvents, doraEvents') /\ StoredUpTo(doraEvents', r.events, r.i)
        /\ Len(r.events) \in Nat /\ r.i \in Nat
        /\ r.i # Len(r.events) => r.i + 1 \in 1..Len(r.events)
        /\ r.i = Len(r.events) => AllStored(doraEvents', r.hook, r.svc)
    BY <1>2, <1>3, EventInserted
  <2>2. LettersGrow(deadLetters, deadLetters') /\ LettersOK(deadLetters', doraEvents')
    BY <1>1, <2>1, LettersStay DEF IngestInv, LettersGrow
  <2>3. CASE LastEvent(h)
    <3>1. Moves(h, NoRequest) /\ doraAnswers' = doraAnswers \cup {a}
      BY <1>3, <2>3, FinishMoves DEF Finish
    <3>2. a.op = r.op /\ a.hook = r.hook /\ a.svc = r.svc /\ a.dl = 0
      BY AnswerFields
    <3>3. AllStored(doraEvents', r.hook, r.svc)
      BY <2>1, <2>3 DEF LastEvent
    <3> HIDE DEF a, r
    <3>4. Answers(a)
      BY <1>1, <3>1, <3>2, <3>3 DEF Answers, AnswerOK
    <3> QED
      BY <2>1, <2>2, <3>1, <3>4 DEF StepOK
  <2>4. CASE ~LastEvent(h)
    <3>1. Set(h, s) /\ UNCHANGED doraAnswers
      BY <1>3, <2>4
    <3>2. r.i # Len(r.events)
      BY <2>4 DEF LastEvent
    <3>3. ReqShape(s) /\ SameJob(r, s) /\ s.pc = r.pc /\ s.i = r.i + 1 /\ s.events = r.events /\ s.status = r.status
      BY <1>2, NextFields DEF HandlerOK
    <3> HIDE DEF s
    <3>4. AtEvent(s, doraEvents')
      <4>1. (r.i + 1) - 1 = r.i
        BY <2>1
      <4>2. StoredUpTo(doraEvents', s.events, s.i - 1)
        BY <2>1, <3>3, <4>1
      <4> HIDE DEF r
      <4> QED
        BY <1>2, <2>1, <3>2, <3>3, <4>2 DEF AtEvent, SameJob
    <3> HIDE DEF r
    <3>5. IngestOK(s, doraEvents')
      BY <1>1, <1>2, <3>3, <3>4 DEF IngestOK, SameJob
    <3>6. HandlerOK(s, doraEvents', deadLetters')
      BY <1>1, <1>2, <3>3, <3>5 DEF HandlerOK, SameJob
    <3>7. Moves(h, s)
      BY <3>1, <3>6 DEF Moves, Set
    <3> QED
      BY <2>1, <2>2, <3>1, <3>7 DEF StepOK
  <2> QED
    BY <2>3, <2>4
<1>4. CASE Fail(h, "store_error") /\ UNCHANGED doraEvents
  <2>1. Set(h, f) /\ UNCHANGED doraAnswers /\ UNCHANGED_TABLES
    BY <1>1, <1>4 DEF Fail, ToStatus, UNCHANGED_TABLES
  <2>2. ReqShape(f) /\ SameJob(r, f) /\ f.pc = "fail" /\ f.status = "store_error"
    BY <1>2, StatusFields DEF HandlerOK
  <2> HIDE DEF r, f
  <2>3. IngestOK(f, doraEvents)
    BY <1>2, <2>2 DEF IngestOK, SameJob
  <2>4. HandlerOK(f, doraEvents, deadLetters)
    BY <1>1, <1>2, <2>2, <2>3 DEF HandlerOK, SameJob
  <2> QED
    BY <2>1, <2>4, GoesOn
<1> QED
  BY <1>3, <1>4 DEF InsertEvent, ToNext

LEMMA WriteDeadLetterStep ==
  ASSUME IngestInv, NEW h \in DoraHandlers, WriteDeadLetter(h)
  PROVE  StepOK(h)
<1> DEFINE r == doraReq[h]
           n == Len(deadLetters) + 1
           l == DeadLetterRow(h)
           a == Answer(r, r.status, n, Blank)
<1>1. r.pc = "fail" /\ UNCHANGED doraEvents
  BY DEF WriteDeadLetter
<1>2. HandlerOK(r, doraEvents, deadLetters) /\ r.op = "ingest" /\ IngestOK(r, doraEvents)
  BY <1>1 DEF IngestInv, HandlerOK
<1>3. CASE deadLetters' = Append(deadLetters, l) /\ Finish(h, r.status, n)
  <2>1. Table(deadLetters) /\ Len(deadLetters) \in Nat
    BY DEF IngestInv, LettersOK, Table
  <2>2. /\ Table(deadLetters') /\ Len(deadLetters') = n /\ deadLetters'[n] = l
        /\ \A d \in 1..Len(deadLetters) : deadLetters'[d] = deadLetters[d]
    BY <1>3, <2>1, TableGrows
  <2>3. LetterShape(l) /\ l.hook = r.hook /\ l.code = r.status /\ l.replayed = FALSE
    <3>1. l = DeadLetter(r.hook, r.status)
      BY DEF DeadLetterRow
    <3> HIDE DEF l, r
    <3> QED
      BY <3>1, DeadLetterFields
  <2>4. n \in 1..n /\ \A d \in 1..n : d \in 1..Len(deadLetters) \/ d = n
    BY <2>1
  <2>5. n # 0 /\ \A d \in 1..Len(deadLetters) : d \in 1..n
    BY <2>1
  <2>6. Moves(h, NoRequest) /\ doraAnswers' = doraAnswers \cup {a}
    BY <1>3, FinishMoves DEF Finish
  <2>7. a.op = r.op /\ a.hook = r.hook /\ a.dl = n /\ a.status = r.status
    BY AnswerFields
  <2> HIDE DEF a, n, l, r
  <2>8. LetterOK(l, doraEvents)
    BY <1>2, <2>3 DEF LetterOK, IngestOK
  <2>9. LettersOK(deadLetters', doraEvents')
    BY <1>1, <2>2, <2>4, <2>8 DEF LettersOK, IngestInv
  <2>10. LettersGrow(deadLetters, deadLetters')
    BY <2>2, <2>5 DEF LettersGrow
  <2>11. RowsGrow(doraEvents, doraEvents')
    BY <1>1 DEF RowsGrow, IngestInv, Extended
  <2>12. Answers(a)
    BY <1>1, <1>2, <2>2, <2>3, <2>4, <2>6, <2>7 DEF Answers, AnswerOK, HandlerOK, IngestOK
  <2> QED
    BY <2>6, <2>9, <2>10, <2>11, <2>12 DEF StepOK
<1>4. CASE Finish(h, "store_error", 0) /\ UNCHANGED deadLetters
  BY <1>1, <1>4, EndsPlain DEF UNCHANGED_TABLES
<1> QED
  BY <1>3, <1>4 DEF WriteDeadLetter

LEMMA LoadDeadLetterStep ==
  ASSUME IngestInv, NEW h \in DoraHandlers, LoadDeadLetter(h)
  PROVE  StepOK(h)
<1> DEFINE r == doraReq[h]
           d == r.row
           row == deadLetters[d]
           events == EventsOf(row.hook, r.svc)
           pc == IF events = << >> THEN "mark" ELSE "replay"
           s == ToLoaded(r, row.hook, events, pc)
<1>1. r.op = "replay" /\ r.pc = "load" /\ UNCHANGED_TABLES
  BY DEF LoadDeadLetter, At
<1>2. HandlerOK(r, doraEvents, deadLetters) /\ r.i = 1
  BY <1>1 DEF IngestInv, HandlerOK, ReplayOK
<1>3. CASE Finish(h, "404", 0) \/ Finish(h, "409", 0) \/ Finish(h, "422", 0)
  BY <1>1, <1>3, EndsPlain
<1>4. CASE /\ d \in DOMAIN deadLetters /\ ~row.replayed /\ Outcome(row.hook, r.svc) = "events"
           /\ Set(h, s) /\ UNCHANGED doraAnswers
  <2>1. d \in 1..Len(deadLetters) /\ row.hook \in Hooks
    BY <1>4, TableFacts DEF IngestInv, LettersOK, LetterOK
  <2>2. row.hook.provider \in Registered
    BY <1>4, OutcomeIsEvents
  <2>3. /\ ReqShape(s) /\ s.op = r.op /\ s.svc = r.svc /\ s.row = r.row
        /\ s.hook = row.hook /\ s.events = events /\ s.pc = pc /\ s.i = r.i /\ s.status = r.status
    BY <1>2, LoadedFields DEF HandlerOK
  <2>4. pc \in {"mark", "replay"} /\ (pc = "mark" <=> events = << >>)
    OBVIOUS
  <2> HIDE DEF s, pc
  <2>5. s.pc = "replay" => AtEvent(s, doraEvents)
    BY <1>2, <2>1, <2>2, <2>3, <2>4, FirstEvent
  <2>6. s.pc = "mark" => AllStored(doraEvents, s.hook, s.svc)
    <3>1. DOMAIN << >> = {}
      OBVIOUS
    <3> QED
      BY <2>3, <2>4, <3>1 DEF AllStored
  <2> HIDE DEF events, row, d, r
  <2>7. ReplayOK(s, doraEvents, deadLetters)
    BY <2>1, <2>2, <2>3, <2>4, <2>5, <2>6 DEF ReplayOK, row, d
  <2>8. HandlerOK(s, doraEvents, deadLetters)
    BY <1>1, <2>3, <2>4, <2>7 DEF HandlerOK
  <2> QED
    BY <1>1, <1>4, <2>8, GoesOn
<1> QED
  <2>1. \/ Finish(h, "404", 0)
        \/ /\ d \in DOMAIN deadLetters
           /\ CASE row.replayed -> Finish(h, "409", 0)
                [] ~row.replayed /\ Outcome(row.hook, r.svc) # "events" -> Finish(h, "422", 0)
                [] OTHER -> Set(h, s) /\ UNCHANGED doraAnswers
    BY DEF LoadDeadLetter, ToLoaded, EventsOf
  <2>2. d \in DOMAIN deadLetters => row.replayed \in BOOLEAN
    BY TableFacts DEF IngestInv, LettersOK, LetterOK
  <2> HIDE DEF s, row, d
  <2> QED
    BY <1>3, <1>4, <2>1, <2>2

LEMMA ReplayEventStep ==
  ASSUME IngestInv, NEW h \in DoraHandlers, ReplayEvent(h)
  PROVE  StepOK(h)
<1> DEFINE r == doraReq[h]
           last == r.i = Len(r.events)
           pc == IF last THEN "mark" ELSE r.pc
           i == IF last THEN r.i ELSE r.i + 1
           s == ToReplayed(r, pc, i)
<1>1. r.op = "replay" /\ r.pc = "replay" /\ UNCHANGED deadLetters
  BY DEF ReplayEvent, At
<1>2. HandlerOK(r, doraEvents, deadLetters) /\ ReplayOK(r, doraEvents, deadLetters) /\ AtEvent(r, doraEvents)
  BY <1>1 DEF IngestInv, HandlerOK, ReplayOK
<1>3. CASE doraEvents' = InsertRow(doraEvents, r.events[r.i]) /\ Set(h, s) /\ UNCHANGED doraAnswers
  <2>1. /\ RowsGrow(doraEvents, doraEvents') /\ StoredUpTo(doraEvents', r.events, r.i)
        /\ Len(r.events) \in Nat /\ r.i \in Nat
        /\ r.i # Len(r.events) => r.i + 1 \in 1..Len(r.events)
        /\ r.i = Len(r.events) => AllStored(doraEvents', r.hook, r.svc)
    BY <1>2, <1>3, EventInserted
  <2>2. LettersGrow(deadLetters, deadLetters') /\ LettersOK(deadLetters', doraEvents')
    BY <1>1, <2>1, LettersStay DEF IngestInv, LettersGrow
  <2>3. ReqShape(s) /\ SameJob(r, s) /\ s.pc = pc /\ s.i = i /\ s.events = r.events /\ s.status = r.status
    BY <1>2, ReplayedFields DEF HandlerOK
  <2>4. /\ last => pc = "mark"
        /\ ~last => pc = "replay" /\ i = r.i + 1 /\ i - 1 = r.i
    BY <1>1, <2>1
  <2>5. r.hook \in Hooks /\ r.hook.provider \in Registered
    BY <1>2 DEF AtEvent
  <2> HIDE DEF s, pc, i
  <2>6. s.pc = "mark" => AllStored(doraEvents', s.hook, s.svc)
    BY <2>1, <2>3, <2>4 DEF SameJob
  <2>7. s.pc = "replay" => AtEvent(s, doraEvents')
    BY <1>2, <2>1, <2>3, <2>4 DEF AtEvent, SameJob
  <2> HIDE DEF r, last
  <2>8. s.pc \in {"mark", "replay"}
    BY <2>3, <2>4
  <2>9. ReplayOK(s, doraEvents', deadLetters')
    BY <1>1, <1>2, <2>3, <2>5, <2>6, <2>7, <2>8 DEF ReplayOK, SameJob
  <2>10. HandlerOK(s, doraEvents', deadLetters')
    BY <1>1, <1>2, <2>3, <2>8, <2>9 DEF HandlerOK, SameJob
  <2>11. Moves(h, s)
    BY <1>3, <2>10 DEF Moves, Set
  <2> QED
    BY <1>3, <2>1, <2>2, <2>11 DEF StepOK
<1>4. CASE Finish(h, "500", 0) /\ UNCHANGED doraEvents
  BY <1>1, <1>4, EndsPlain DEF UNCHANGED_TABLES
<1> QED
  BY <1>3, <1>4 DEF ReplayEvent, ToReplayed, LastEvent

LEMMA MarkReplayedStep ==
  ASSUME IngestInv, NEW h \in DoraHandlers, MarkReplayed(h)
  PROVE  StepOK(h)
<1> DEFINE r == doraReq[h]
           d == r.row
           l == deadLetters[d]
           m == Marked(l)
           a == Answer(r, "200", d, Blank)
<1>1. r.op = "replay" /\ r.pc = "mark" /\ UNCHANGED doraEvents
  BY DEF MarkReplayed, At
<1>2. /\ d \in 1..Len(deadLetters) /\ r.hook = l.hook
      /\ r.hook \in Hooks /\ r.hook.provider \in Registered /\ AllStored(doraEvents, r.hook, r.svc)
  BY <1>1 DEF IngestInv, HandlerOK, ReplayOK
<1>3. CASE Finish(h, "409", 0) /\ UNCHANGED deadLetters
  BY <1>1, <1>3, EndsPlain DEF UNCHANGED_TABLES
<1>4. CASE ~l.replayed /\ deadLetters' = [deadLetters EXCEPT ![d].replayed = TRUE] /\ Finish(h, "200", d)
  <2>1. Table(deadLetters) /\ LetterOK(l, doraEvents) /\ DOMAIN deadLetters = 1..Len(deadLetters)
    BY <1>2, TableFacts DEF IngestInv, LettersOK
  <2>2. LetterShape(m) /\ m.hook = l.hook /\ m.code = l.code /\ m.replayed = TRUE
    BY <2>1, MarkedFields DEF LetterOK
  <2> HIDE DEF l, m
  <2>3. deadLetters' = [deadLetters EXCEPT ![d] = m]
    BY <1>4 DEF m, l, Marked
  <2>4. /\ Table(deadLetters') /\ Len(deadLetters') = Len(deadLetters)
        /\ deadLetters'[d] = m /\ \A k \in 1..Len(deadLetters) : k # d => deadLetters'[k] = deadLetters[k]
    <3> HIDE DEF d
    <3> PICK S : deadLetters \in Seq(S)
      BY <2>1 DEF Table
    <3>1. deadLetters \in Seq(S \cup {m}) /\ m \in S \cup {m}
      OBVIOUS
    <3>2. deadLetters' \in Seq(S \cup {m}) /\ Len(deadLetters') = Len(deadLetters)
      BY <1>2, <2>3, <3>1
    <3>3. \E T : deadLetters' \in Seq(T)
      BY <3>2, Zenon
    <3> QED
      BY <1>2, <2>1, <2>3, <3>2, <3>3 DEF Table
  <2>5. AllStored(doraEvents, l.hook, Unknown)
    <3> DEFINE es == EventsOf(r.hook, r.svc)
               us == EventsOf(r.hook, Unknown)
    <3>1. /\ Len(es) \in Nat /\ DOMAIN es = 1..Len(es) /\ Twins(es, us)
          /\ DOMAIN us = 1..Len(us)
      BY <1>2, EventFacts
    <3>2. \A k \in DOMAIN us : k \in DOMAIN es /\ Alike(es[k], us[k]) /\ HasRow(doraEvents, es[k])
      BY <1>2, <3>1 DEF Twins, AllStored
    <3>3. \A e, f : Alike(e, f) /\ HasRow(doraEvents, e) => HasRow(doraEvents, f)
      BY DEF HasRow, Alike
    <3> HIDE DEF es
    <3>4. \A k \in DOMAIN us : HasRow(doraEvents, us[k])
      BY <3>2, <3>3
    <3> QED
      BY <1>2, <3>4 DEF AllStored
  <2>6. LetterOK(m, doraEvents)
    BY <1>2, <2>1, <2>2, <2>5 DEF LetterOK
  <2>7. LettersOK(deadLetters', doraEvents')
    BY <1>1, <1>2, <2>4, <2>6 DEF LettersOK, IngestInv
  <2>8. LettersGrow(deadLetters, deadLetters')
    BY <1>2, <2>2, <2>4 DEF LettersGrow, l
  <2>9. RowsGrow(doraEvents, doraEvents')
    BY <1>1 DEF RowsGrow, IngestInv, Extended
  <2>10. Moves(h, NoRequest) /\ doraAnswers' = doraAnswers \cup {a}
    BY <1>4, FinishMoves DEF Finish
  <2>11. a.op = r.op /\ a.dl = d
    BY AnswerFields
  <2> HIDE DEF a, r, d
  <2>12. Answers(a)
    BY <1>1, <1>2, <1>4, <2>2, <2>4, <2>10, <2>11 DEF Answers, AnswerOK, l
  <2> QED
    BY <2>7, <2>8, <2>9, <2>10, <2>12 DEF StepOK
<1> QED
  BY <1>3, <1>4 DEF MarkReplayed

LEMMA AuthorizeStep ==
  ASSUME IngestInv, NEW h \in DoraHandlers, Authorize(h)
  PROVE  StepOK(h)
<1> DEFINE r == doraReq[h]
           to(status) == ToStatus(r, "acquire", IF r.status = "none" THEN status ELSE r.status)
<1>1. r.pc = "authorize" /\ UNCHANGED_TABLES
  BY DEF Authorize
<1>2. HandlerOK(r, doraEvents, deadLetters)
  BY DEF IngestInv
<1>3. r.op # "ingest" /\ r.op # "none"
  BY <1>1, <1>2 DEF HandlerOK, IngestOK
<1>4. ASSUME NEW s, ReqShape(s), SameJob(r, s), s.pc = "acquire", s.i = r.i, s.scope = r.scope
      PROVE  HandlerOK(s, doraEvents, deadLetters)
  <2> HIDE DEF r
  <2>1. s.op = "replay" => ReplayOK(s, doraEvents, deadLetters)
    BY <1>1, <1>2, <1>4 DEF HandlerOK, ReplayOK, SameJob
  <2> QED
    BY <1>2, <1>3, <1>4, <2>1 DEF HandlerOK, SummaryOK, SameJob
<1>5. CASE Goto(h, "acquire")
  <2>1. Set(h, ToPc(r, "acquire")) /\ UNCHANGED doraAnswers
    BY <1>5 DEF Goto, ToPc
  <2>2. HandlerOK(ToPc(r, "acquire"), doraEvents, deadLetters)
    BY <1>2, <1>4, PcFields DEF HandlerOK
  <2> QED
    BY <1>1, <2>1, <2>2, GoesOn
<1>6. ASSUME NEW status, Set(h, to(status)), UNCHANGED doraAnswers PROVE StepOK(h)
  <2>1. HandlerOK(to(status), doraEvents, deadLetters)
    BY <1>2, <1>4, StatusFields DEF HandlerOK
  <2> HIDE DEF to
  <2> QED
    BY <1>1, <1>6, <2>1, GoesOn
<1>7. r.scope \in {"denied", "brand", "group"}
  BY <1>1, <1>2 DEF HandlerOK
<1>8. \/ Goto(h, "acquire")
      \/ \E status \in {"403", "503"} : Set(h, to(status)) /\ UNCHANGED doraAnswers
  <2>1. CASE r.scope = "denied"
    BY <2>1 DEF Authorize, ToStatus
  <2>2. CASE r.scope = "brand"
    BY <2>2 DEF Authorize
  <2>3. CASE r.scope = "group"
    BY <2>3 DEF Authorize, ToStatus
  <2> HIDE DEF r, to
  <2> QED
    BY <1>7, <2>1, <2>2, <2>3
<1> HIDE DEF to
<1> QED
  BY <1>5, <1>6, <1>8

LEMMA GroupVersionsStep ==
  ASSUME IngestInv, NEW h \in DoraHandlers, GroupVersions(h)
  PROVE  StepOK(h)
<1> DEFINE r == doraReq[h]
           s == ToSummary(r)
<1>1. r.op = "group" /\ r.pc = "versions" /\ UNCHANGED_TABLES
  BY DEF GroupVersions, At
<1>2. HandlerOK(r, doraEvents, deadLetters)
  BY DEF IngestInv
<1>3. CASE Finish(h, "422", 0) \/ Finish(h, "500", 0)
  BY <1>1, <1>3, EndsPlain
<1>4. CASE Set(h, s) /\ UNCHANGED doraAnswers
  <2>1. ReqShape(s) /\ s.op = "summary" /\ s.pc = "authorize" /\ s.scope = r.scope
    BY <1>2, SummaryFields DEF HandlerOK
  <2> HIDE DEF s
  <2>2. HandlerOK(s, doraEvents, deadLetters)
    BY <1>1, <1>2, <2>1 DEF HandlerOK, SummaryOK
  <2> QED
    BY <1>1, <1>4, <2>2, GoesOn
<1> QED
  BY <1>3, <1>4 DEF GroupVersions, ToSummary

\* A statement of a summary: its counts stay within their bounds.
LEMMA SummaryStatementStep ==
  ASSUME IngestInv, NEW h \in DoraHandlers, NEW pc, NEW next, NEW stats, NEW first,
         SummaryStatement(h, pc, next, stats, first), next \in {"opened", "match", "failed", "report"},
         \A s : s.pc = next /\ s.svc = doraReq[h].svc /\ s.stats = stats /\ s.first = first => SummaryOK(s, doraEvents)
  PROVE  StepOK(h)
<1> DEFINE r == doraReq[h]
           s == ToStats(r, next, stats, first)
<1>1. r.op = "summary" /\ UNCHANGED_TABLES
  BY DEF SummaryStatement, At
<1>2. HandlerOK(r, doraEvents, deadLetters)
  BY DEF IngestInv
<1>3. CASE Finish(h, "500", 0)
  BY <1>1, <1>3, EndsPlain
<1>4. CASE Set(h, s) /\ UNCHANGED doraAnswers
  <2>1. ReqShape(s) /\ SameJob(r, s) /\ s.pc = next /\ s.stats = stats /\ s.first = first
    BY <1>2, StatsFields DEF HandlerOK
  <2> HIDE DEF s
  <2>2. s.op = "summary" /\ SummaryOK(s, doraEvents)
    BY <1>1, <2>1 DEF SameJob
  <2>3. HandlerOK(s, doraEvents, deadLetters)
    BY <2>1, <2>2 DEF HandlerOK
  <2> QED
    BY <1>1, <1>4, <2>3, GoesOn
<1> QED
  BY <1>3, <1>4 DEF SummaryStatement, ToStats

\* What the counts of the rows at present are, and that they only grew.
LEMMA SummaryCounts ==
  ASSUME IngestInv, NEW first, Table(first), Extended(first, doraEvents), NEW svc
  PROVE  /\ Table(doraEvents)
         /\ \A types : /\ Cardinality(Counted(first, svc, types)) \in Nat
                       /\ Cardinality(Counted(doraEvents, svc, types)) \in Nat
                       /\ Cardinality(Counted(first, svc, types)) <= Cardinality(Counted(doraEvents, svc, types))
         /\ Cardinality(Failed(first, svc)) \in Nat /\ Cardinality(Failed(doraEvents, svc)) \in Nat
         /\ Cardinality(Failed(first, svc)) <= Cardinality(Failed(doraEvents, svc))
BY CountedAreFinite, CountsGrow DEF IngestInv, RowsOK

LEMMA CountDeploymentsStep ==
  ASSUME IngestInv, NEW h \in DoraHandlers, CountDeployments(h)
  PROVE  StepOK(h)
<1> DEFINE svc == doraReq[h].svc
           stats == WithDeployments(NoCFRStats, doraEvents, svc, From, Now)
<1>1. SummaryStatement(h, "deployments", "opened", stats, doraEvents)
  BY DEF CountDeployments, From
<1>2. /\ StatShape(stats) /\ stats.failing = 0
      /\ stats.deployments = Cardinality(Counted(doraEvents, svc, Deployments))
  BY NoStatsFields, DeploymentsFields
<1>3. Table(doraEvents) /\ Extended(doraEvents, doraEvents)
  BY DEF IngestInv, RowsOK, Extended
<1>4. Cardinality(Counted(doraEvents, svc, Deployments)) \in Nat
  BY <1>3, CountedAreFinite
<1> HIDE DEF stats
<1>5. ASSUME NEW s, s.pc = "opened", s.svc = svc, s.stats = stats, s.first = doraEvents PROVE SummaryOK(s, doraEvents)
  BY <1>2, <1>3, <1>4, <1>5 DEF SummaryOK
<1> QED
  BY <1>1, <1>5, SummaryStatementStep

LEMMA CountOpenedStep ==
  ASSUME IngestInv, NEW h \in DoraHandlers, CountOpened(h)
  PROVE  StepOK(h)
<1> DEFINE r == doraReq[h]
           stats == WithOpened(r.stats, doraEvents, r.svc, From, Now)
           next == IF r.stats.deployments = 0 THEN "report" ELSE "match"
<1>1. SummaryStatement(h, "opened", next, stats, r.first)
  BY DEF CountOpened, From
<1>2. r.op = "summary" /\ r.pc = "opened" /\ SummaryOK(r, doraEvents)
  BY <1>1 DEF SummaryStatement, At, IngestInv, HandlerOK
<1> HIDE DEF r
<1>3. /\ Table(r.first) /\ Extended(r.first, doraEvents) /\ StatShape(r.stats) /\ r.stats.failing = 0
      /\ r.stats.deployments \in Cardinality(Counted(r.first, r.svc, Deployments))
                                 ..Cardinality(Counted(doraEvents, r.svc, Deployments))
  BY <1>2 DEF SummaryOK
<1>4. /\ StatShape(stats) /\ stats.deployments = r.stats.deployments /\ stats.failing = 0
      /\ stats.opened = Cardinality(Counted(doraEvents, r.svc, {"incident.opened"}))
  BY <1>3, OpenedStatFields
<1>5. stats.opened \in Cardinality(Counted(r.first, r.svc, {"incident.opened"}))
                       ..Cardinality(Counted(doraEvents, r.svc, {"incident.opened"}))
  BY <1>3, <1>4, SummaryCounts
<1> HIDE DEF stats
<1>6. next \in {"match", "report"} /\ (next = "report" <=> stats.deployments = 0)
  BY <1>4
<1> HIDE DEF next
<1>7. ASSUME NEW s, s.pc = next, s.svc = r.svc, s.stats = stats, s.first = r.first PROVE SummaryOK(s, doraEvents)
  BY <1>3, <1>4, <1>5, <1>6, <1>7 DEF SummaryOK
<1> QED
  BY <1>1, <1>6, <1>7, SummaryStatementStep DEF r

LEMMA MatchIncidentsStep ==
  ASSUME IngestInv, NEW h \in DoraHandlers, MatchIncidents(h)
  PROVE  StepOK(h)
<1> DEFINE r == doraReq[h]
           stats == WithMatches(r.stats, doraEvents, r.svc, From, Now)
           next == IF r.stats.opened = 0 THEN "failed" ELSE "report"
<1>1. SummaryStatement(h, "match", next, stats, r.first)
  BY DEF MatchIncidents, From
<1>2. r.op = "summary" /\ r.pc = "match" /\ SummaryOK(r, doraEvents)
  BY <1>1 DEF SummaryStatement, At, IngestInv, HandlerOK
<1> HIDE DEF r
<1>3. /\ Table(r.first) /\ Extended(r.first, doraEvents) /\ StatShape(r.stats) /\ r.stats.deployments # 0
      /\ r.stats.deployments \in Cardinality(Counted(r.first, r.svc, Deployments))
                                 ..Cardinality(Counted(doraEvents, r.svc, Deployments))
      /\ r.stats.opened \in Cardinality(Counted(r.first, r.svc, {"incident.opened"}))
                            ..Cardinality(Counted(doraEvents, r.svc, {"incident.opened"}))
  BY <1>2 DEF SummaryOK
<1>4. /\ StatShape(stats) /\ stats.deployments = r.stats.deployments /\ stats.opened = r.stats.opened
      /\ stats.failing = Cardinality(Failed(doraEvents, r.svc))
  BY <1>3, MatchesFields DEF IngestInv, RowsOK
<1>5. stats.failing \in Cardinality(Failed(r.first, r.svc))..Cardinality(Failed(doraEvents, r.svc))
  BY <1>3, <1>4, SummaryCounts
<1> HIDE DEF stats
<1>6. next \in {"failed", "report"} /\ (next = "failed" <=> stats.opened = 0)
  BY <1>4
<1> HIDE DEF next
<1>7. ASSUME NEW s, s.pc = next, s.svc = r.svc, s.stats = stats, s.first = r.first PROVE SummaryOK(s, doraEvents)
  BY <1>3, <1>4, <1>5, <1>6, <1>7 DEF SummaryOK
<1> QED
  BY <1>1, <1>6, <1>7, SummaryStatementStep DEF r

LEMMA CountFailedStep ==
  ASSUME IngestInv, NEW h \in DoraHandlers, CountFailed(h)
  PROVE  StepOK(h)
<1> DEFINE r == doraReq[h]
           stats == WithProxy(r.stats, doraEvents, r.svc, From, Now)
<1>1. SummaryStatement(h, "failed", "report", stats, r.first)
  BY DEF CountFailed, From
<1>2. r.op = "summary" /\ r.pc = "failed" /\ SummaryOK(r, doraEvents)
  BY <1>1 DEF SummaryStatement, At, IngestInv, HandlerOK
<1> HIDE DEF r
<1>3. /\ Table(r.first) /\ Extended(r.first, doraEvents) /\ StatShape(r.stats)
      /\ r.stats.deployments # 0 /\ r.stats.opened = 0
      /\ r.stats.deployments \in Cardinality(Counted(r.first, r.svc, Deployments))
                                 ..Cardinality(Counted(doraEvents, r.svc, Deployments))
      /\ r.stats.opened \in Cardinality(Counted(r.first, r.svc, {"incident.opened"}))
                            ..Cardinality(Counted(doraEvents, r.svc, {"incident.opened"}))
  BY <1>2 DEF SummaryOK
<1>4. /\ StatShape(stats) /\ stats.deployments = r.stats.deployments /\ stats.opened = r.stats.opened
      /\ stats.failing = Cardinality(Counted(doraEvents, r.svc, {"deployment.failed"}))
  BY <1>3, ProxyFields
<1>5. stats.failing \in Cardinality(Counted(r.first, r.svc, {"deployment.failed"}))
                        ..Cardinality(Counted(doraEvents, r.svc, {"deployment.failed"}))
  BY <1>3, <1>4, SummaryCounts
<1> HIDE DEF stats
<1>6. ASSUME NEW s, s.pc = "report", s.svc = r.svc, s.stats = stats, s.first = r.first PROVE SummaryOK(s, doraEvents)
  BY <1>3, <1>4, <1>5, <1>6 DEF SummaryOK
<1> QED
  BY <1>1, <1>6, SummaryStatementStep DEF r

LEMMA ReadStep ==
  ASSUME IngestInv, NEW h \in DoraHandlers, Read(h)
  PROVE  StepOK(h)
<1> DEFINE r == doraReq[h]
<1>1. r.pc = "read" /\ UNCHANGED_TABLES
  BY DEF Read
<1>2. r.op \in {"deployments", "list", "get"}
  BY <1>1 DEF IngestInv, HandlerOK
<1>3. \E status, stats : FinishWith(h, status, 0, stats)
  BY <1>2 DEF Read, Finish
<1> QED
  BY <1>1, <1>2, <1>3, Ends

LEMMA ClientGoneStep ==
  ASSUME IngestInv, NEW h \in DoraHandlers, ClientGone(h)
  PROVE  StepOK(h)
<1> DEFINE r == doraReq[h]
           s == ToGone(r)
<1>1. Set(h, s) /\ UNCHANGED doraAnswers /\ UNCHANGED_TABLES
  BY DEF ClientGone, ToGone, UNCHANGED_TABLES
<1>2. HandlerOK(r, doraEvents, deadLetters)
  BY DEF IngestInv
<1>3. /\ ReqShape(s) /\ SameJob(r, s) /\ s.pc = r.pc /\ s.i = r.i /\ s.events = r.events
      /\ s.status = r.status /\ s.scope = r.scope /\ s.stats = r.stats /\ s.first = r.first
  BY <1>2, GoneFields DEF HandlerOK
<1> HIDE DEF r, s
<1>4. AtEvent(r, doraEvents) => AtEvent(s, doraEvents)
  BY <1>3 DEF AtEvent, SameJob
<1>5. s.op = "ingest" => IngestOK(s, doraEvents)
  BY <1>2, <1>3, <1>4 DEF HandlerOK, IngestOK, SameJob
<1>6. s.op = "replay" => ReplayOK(s, doraEvents, deadLetters)
  BY <1>2, <1>3, <1>4 DEF HandlerOK, ReplayOK, SameJob
<1>7. s.op = "summary" => SummaryOK(s, doraEvents)
  BY <1>2, <1>3 DEF HandlerOK, SummaryOK, SameJob
<1>8. HandlerOK(s, doraEvents, deadLetters)
  BY <1>2, <1>3, <1>5, <1>6, <1>7 DEF HandlerOK, SameJob
<1> QED
  BY <1>1, <1>8, GoesOn

LEMMA ReportStep ==
  ASSUME IngestInv, NEW h \in DoraHandlers, Report(h)
  PROVE  StepOK(h)
<1> DEFINE r == doraReq[h]
           report == Summary(doraEvents, {}, << >>, r.svc, Now, WindowDays, r.stats)
           stats == [report |-> report, first |-> r.first, last |-> doraEvents]
           a == Answer(r, "200", 0, stats)
<1>1. r.op = "summary" /\ r.pc = "report" /\ UNCHANGED_TABLES
  BY DEF Report, At
<1>2. CASE Finish(h, "500", 0)
  BY <1>1, <1>2, EndsPlain
<1>3. CASE FinishWith(h, "200", 0, stats)
  <2>1. Moves(h, NoRequest) /\ doraAnswers' = doraAnswers \cup {a}
    BY <1>3, FinishMoves
  <2>2. a.op = "summary" /\ a.dl = 0 /\ a.stats = stats /\ a.svc = r.svc
    BY <1>1, AnswerFields
  <2>3. stats.report.cfr = r.stats /\ stats.first = r.first /\ stats.last = doraEvents
    BY DEF Summary
  <2>4. SummaryOK(r, doraEvents)
    BY <1>1 DEF IngestInv, HandlerOK
  <2> HIDE DEF stats, a, r
  <2>5. CFRIsCurrent(r.stats, r.svc, r.first, doraEvents)
    <3>1. Table(r.first) /\ Extended(r.first, doraEvents)
      BY <1>1, <2>4 DEF SummaryOK
    <3>2. /\ \A types : /\ Cardinality(Counted(r.first, r.svc, types)) \in Nat
                        /\ Cardinality(Counted(doraEvents, r.svc, types)) \in Nat
                        /\ Cardinality(Counted(r.first, r.svc, types)) <= Cardinality(Counted(doraEvents, r.svc, types))
          /\ Cardinality(Failed(r.first, r.svc)) \in Nat /\ Cardinality(Failed(doraEvents, r.svc)) \in Nat
      BY <3>1, SummaryCounts
    <3>3. /\ Cardinality(Failed(doraEvents, r.svc)) <= Cardinality(Counted(doraEvents, r.svc, Deployments))
          /\ Cardinality(Counted(doraEvents, r.svc, {"deployment.failed"}))
               <= Cardinality(Counted(doraEvents, r.svc, Deployments))
      BY FailuresAreDeployed DEF IngestInv, RowsOK
    <3> DEFINE D(rows) == Cardinality(Counted(rows, r.svc, Deployments))
               O(rows) == Cardinality(Counted(rows, r.svc, {"incident.opened"}))
               P(rows) == Cardinality(Counted(rows, r.svc, {"deployment.failed"}))
               F(rows) == Cardinality(Failed(rows, r.svc))
               n == r.stats.deployments
               m == r.stats.opened
               f == r.stats.failing
    <3>4. /\ n \in D(r.first)..D(doraEvents) /\ m \in O(r.first)..O(doraEvents)
          /\ n = 0 => f = 0
          /\ n # 0 /\ m = 0 => f \in P(r.first)..P(doraEvents)
          /\ n # 0 /\ m # 0 => f \in F(r.first)..F(doraEvents)
      BY <1>1, <2>4 DEF SummaryOK
    <3>5. /\ D(r.first) \in Nat /\ D(doraEvents) \in Nat /\ D(r.first) <= D(doraEvents)
          /\ O(r.first) \in Nat /\ O(doraEvents) \in Nat
          /\ P(r.first) \in Nat /\ P(doraEvents) \in Nat /\ P(doraEvents) <= D(doraEvents)
          /\ F(r.first) \in Nat /\ F(doraEvents) \in Nat /\ F(doraEvents) <= D(doraEvents)
      BY <3>2, <3>3
    <3>6. /\ CFRIsCurrent(r.stats, r.svc, r.first, doraEvents) <=>
               /\ n \in D(r.first)..D(doraEvents) /\ m \in O(r.first)..O(doraEvents)
               /\ CASE n = 0 -> f = 0
                    [] n > 0 /\ m = 0 -> f \in P(r.first)..P(doraEvents)
                    [] n > 0 /\ m > 0 -> f \in F(r.first)..F(doraEvents)
               /\ f <= n + (D(doraEvents) - D(r.first))
      BY DEF CFRIsCurrent, Counted, Failed, From
    <3> HIDE DEF D, O, P, F, n, m, f
    <3>7. n \in Nat /\ m \in Nat
      BY <3>4, <3>5
    <3>8. (CASE n = 0 -> f = 0
             [] n > 0 /\ m = 0 -> f \in P(r.first)..P(doraEvents)
             [] n > 0 /\ m > 0 -> f \in F(r.first)..F(doraEvents))
      <4>1. CASE n = 0
        BY <3>4, <4>1
      <4>2. CASE n > 0 /\ m = 0
        BY <3>4, <3>7, <4>2
      <4>3. CASE n > 0 /\ m > 0
        BY <3>4, <3>7, <4>3
      <4>4. n = 0 \/ (n > 0 /\ m = 0) \/ (n > 0 /\ m > 0)
        BY <3>7
      <4> QED
        BY <4>1, <4>2, <4>3, <4>4, Zenon
    <3>9. f <= n + (D(doraEvents) - D(r.first))
      BY <3>4, <3>5, <3>7
    <3> QED
      BY <3>4, <3>6, <3>8, <3>9
  <2>6. AnswerOK(a, doraEvents', deadLetters')
    BY <2>2, <2>3, <2>5 DEF AnswerOK
  <2>7. Answers(a)
    BY <2>1, <2>2, <2>6 DEF Answers
  <2> QED
    BY <1>1, <2>1, <2>7, TablesStay DEF StepOK
<1> QED
  BY <1>2, <1>3 DEF Report

LEMMA ReportDeploymentKeeps ==
  ASSUME IngestInv, NEW row \in Reported, ReportDeployment(row)
  PROVE  IngestInv'
<1>1. RowsGrow(doraEvents, doraEvents')
  BY ReportedRow, ExtendedHasRow, ReportedAssumption DEF ReportDeployment, IngestInv, RowsGrow
<1>2. UNCHANGED <<deadLetters, doraReq, doraAnswers>> /\ LettersGrow(deadLetters, deadLetters)
  BY DEF ReportDeployment, IngestInv, LettersOK, Table, LettersGrow
<1>3. LettersOK(deadLetters, doraEvents')
  BY <1>1, LettersStay DEF IngestInv
<1>4. \A h \in DoraHandlers : HandlerOK(doraReq[h], doraEvents', deadLetters)
  BY <1>1, <1>2, HandlerStays DEF IngestInv
<1>5. \A a \in doraAnswers : AnswerOK(a, doraEvents', deadLetters)
  BY <1>1, <1>2, AnswerStays DEF IngestInv
<1> QED
  BY <1>1, <1>2, <1>3, <1>4, <1>5 DEF IngestInv, RowsGrow

-----------------------------------------------------------------------------
(* The theorems.                                                            *)

LEMMA IngestInvStarts == IngestInit => IngestInv
<1> SUFFICES ASSUME IngestInit PROVE IngestInv
  OBVIOUS
<1> PICK s \in Seeds : doraEvents = s.rows /\ deadLetters = s.letters
  BY DEF IngestInit
<1>1. Table(doraEvents) /\ Table(deadLetters)
  BY SeedsAssumption, ListedIsTable
<1>2. DOMAIN doraEvents = 1..Len(doraEvents) /\ DOMAIN deadLetters = 1..Len(deadLetters)
  BY <1>1, TableFacts
<1>3. RowsOK(doraEvents)
  BY <1>1, <1>2, SeedsAssumption DEF RowsOK
<1>4. ASSUME NEW d \in 1..Len(deadLetters) PROVE LetterOK(deadLetters[d], doraEvents)
  <2> DEFINE l == deadLetters[d]
  <2>1. \E hook \in Hooks : \E code : l = DeadLetter(hook, code)
    BY <1>2, SeedsAssumption
  <2> HIDE DEF l
  <2>2. LetterShape(l) /\ l.hook \in Hooks /\ l.replayed = FALSE
    <3>1. PICK hook, code : hook \in Hooks /\ l = DeadLetter(hook, code)
      BY <2>1
    <3> DEFINE m == DeadLetter(hook, code)
    <3>2. LetterShape(m) /\ m.hook = hook /\ m.replayed = FALSE
      BY DeadLetterFields
    <3> HIDE DEF m
    <3>3. l = m
      BY <3>1 DEF m
    <3> QED
      BY <3>1, <3>2, <3>3
  <2>3. LetterOK(l, doraEvents)
    BY <2>2 DEF LetterOK
  <2> QED
    BY <2>3 DEF l
<1>5. /\ doraReq = [h \in DoraHandlers |-> doraReq[h]]
      /\ \A h \in DoraHandlers : HandlerOK(doraReq[h], doraEvents, deadLetters)
  BY NoRequestOK DEF IngestInit
<1> QED
  BY <1>1, <1>3, <1>4, <1>5 DEF IngestInit, IngestInv, LettersOK

LEMMA StepsAreOK ==
  ASSUME IngestInv, NEW h \in DoraHandlers, Receive(h) \/ HandlerStep(h) \/ ClientGone(h)
  PROVE  StepOK(h)
<1>1. ASSUME Receive(h) PROVE StepOK(h)
  <2> PICK svc \in Services :
        \/ \E hook \in Hooks : IngestWebhook(h, hook, svc)
        \/ \E d \in 1..(Len(deadLetters) + 1), q \in Queries :
             \/ q.op = "replay" /\ ReplayDeadLetter(h, d, svc, q.scope)
             \/ q.op # "replay" /\ (q.op # "get" => d = 1) /\ Query(h, q, svc, d)
    BY <1>1 DEF Receive
  <2>1. ASSUME NEW hook \in Hooks, IngestWebhook(h, hook, svc) PROVE StepOK(h)
    BY <2>1, IngestWebhookStep
  <2>2. ASSUME NEW d \in 1..(Len(deadLetters) + 1), NEW q \in Queries,
               q.op = "replay" /\ ReplayDeadLetter(h, d, svc, q.scope)
        PROVE  StepOK(h)
    BY <2>2, ReplayDeadLetterStep, QueriesAssumption
  <2>3. ASSUME NEW d \in 1..(Len(deadLetters) + 1), NEW q \in Queries, q.op # "replay" /\ Query(h, q, svc, d)
        PROVE  StepOK(h)
    BY <2>3, QueryStep
  <2> QED
    BY <2>1, <2>2, <2>3
<1>2. ASSUME HandlerStep(h) PROVE StepOK(h)
  BY <1>2, RespondStep, AcquireConnStep, InsertEventStep, WriteDeadLetterStep, LoadDeadLetterStep,
     ReplayEventStep, MarkReplayedStep, AuthorizeStep, GroupVersionsStep, ReadStep, CountDeploymentsStep,
     CountOpenedStep, MatchIncidentsStep, CountFailedStep, ReportStep DEF HandlerStep
<1>3. ASSUME ClientGone(h) PROVE StepOK(h)
  BY <1>3, ClientGoneStep
<1> QED
  BY <1>1, <1>2, <1>3

LEMMA IngestInvKept == IngestInv /\ [IngestNext]_ingestVars => IngestInv'
<1> SUFFICES ASSUME IngestInv, [IngestNext]_ingestVars PROVE IngestInv'
  OBVIOUS
<1>1. CASE UNCHANGED ingestVars
  BY <1>1 DEF IngestInv, ingestVars
<1>2. ASSUME NEW h \in DoraHandlers, Receive(h) \/ HandlerStep(h) \/ ClientGone(h) PROVE IngestInv'
  BY <1>2, StepsAreOK, StepKeepsInv
<1>3. ASSUME NEW row \in Reported, ReportDeployment(row) PROVE IngestInv'
  BY <1>3, ReportDeploymentKeeps
<1> QED
  BY <1>1, <1>2, <1>3 DEF IngestNext

LEMMA IngestKeepsInv == IngestSpec => []IngestInv
BY IngestInvStarts, IngestInvKept, PTL DEF IngestSpec

LEMMA AllStoredIsStored ==
  ASSUME NEW hook, NEW svc, Table(doraEvents), AllStored(doraEvents, hook, svc)
  PROVE  Stored(hook, svc)
<1>1. DOMAIN doraEvents = 1..Len(doraEvents)
  BY TableFacts
<1> QED
  BY <1>1 DEF Stored, AllStored, ToSet, HasRow, Alike, EventsOf

\* A sender told "processed" finds every commit and incident of its webhook in
\* dora_events, and one handed a dead_letter_id finds its webhook there, for any
\* number of handlers, connections, webhooks and faults (IngestWebhook,
\* failWithDeadLetter).
THEOREM ProcessedMeansKept == IngestSpec => []WebhooksAreKept
<1>1. IngestInv => WebhooksAreKept
  <2> SUFFICES ASSUME IngestInv, NEW a \in doraAnswers, a.op = "ingest"
               PROVE  /\ a.status = "processed" => Stored(a.hook, a.svc)
                      /\ a.dl # 0 => /\ a.dl \in DOMAIN deadLetters
                                     /\ deadLetters[a.dl].hook = a.hook /\ deadLetters[a.dl].code = a.status
    BY DEF WebhooksAreKept
  <2>1. AnswerOK(a, doraEvents, deadLetters) /\ Table(doraEvents) /\ DOMAIN deadLetters = 1..Len(deadLetters)
    BY TableFacts DEF IngestInv, RowsOK, LettersOK
  <2> QED
    BY <2>1, AllStoredIsStored DEF AnswerOK
<1> QED
  BY <1>1, IngestKeepsInv, PTL

\* A dead letter marked as replayed has all its events in dora_events, and one
\* alone of the replays that raced for it was told so (ReplayDeadLetter).
THEOREM ReplaysAreComplete == IngestSpec => []ReplayedMeansStored
<1>1. IngestInv => ReplayedMeansStored
  <2> SUFFICES ASSUME IngestInv PROVE ReplayedMeansStored
    OBVIOUS
  <2>1. ASSUME NEW d \in DOMAIN deadLetters, deadLetters[d].replayed
        PROVE  Stored(deadLetters[d].hook, Unknown)
    BY <2>1, TableFacts, AllStoredIsStored DEF IngestInv, RowsOK, LettersOK, LetterOK
  <2> QED
    BY <2>1 DEF IngestInv, ReplayedMeansStored
<1> QED
  BY <1>1, IngestKeepsInv, PTL

\* However often a webhook with a delivery id is sent, half stored, dead
\* lettered and replayed, each of its commits or incidents is one row (the source
\* event id and its unique index).
THEOREM NoDoubleDelivery == IngestSpec => []DeliveredOnce
<1>1. IngestInv => DeliveredOnce
  <2> SUFFICES ASSUME IngestInv, NEW i \in DOMAIN doraEvents, NEW j \in DOMAIN doraEvents, i # j,
                      doraEvents[i].sid # Blank, doraEvents[j].sid # Blank, Alike(doraEvents[i], doraEvents[j]),
                      Head(doraEvents[i].sid) = Head(doraEvents[j].sid)
               PROVE  FALSE
    BY DEF DeliveredOnce, Alike
  <2>1. i \in 1..Len(doraEvents) /\ j \in 1..Len(doraEvents) /\ RowsOK(doraEvents)
    BY TableFacts DEF IngestInv, RowsOK
  <2> PICK g \in Hooks : KeyedBy(doraEvents[i], g)
    BY <2>1 DEF RowsOK
  <2> PICK k \in Hooks : KeyedBy(doraEvents[j], k)
    BY <2>1 DEF RowsOK
  <2>2. doraEvents[i].sid = doraEvents[j].sid
    BY OneKey
  <2> QED
    BY <2>1, <2>2 DEF RowsOK, SameSourceEvent, Alike
<1> QED
  BY <1>1, IngestKeepsInv, PTL

\* Every number of a change failure rate was true at some moment of its request,
\* no deployment counts as failing twice, and the rate exceeds 100% by deployments
\* reported between its statements at most, whatever the other handlers and the
\* metrics writer insert meanwhile (queryCFRStats).
THEOREM SummariesAreCurrent == IngestSpec => []SummaryIsCurrent
<1>1. IngestInv => SummaryIsCurrent
  BY DEF IngestInv, AnswerOK, SummaryIsCurrent
<1> QED
  BY <1>1, IngestKeepsInv, PTL

-----------------------------------------------------------------------------
(* Handlers come to an end.                                                 *)

\* The statements that are at most ahead of a request, and the events left.
Phase(r) ==
  CASE r.pc = "idle" -> 0
    [] r.pc \in {"done", "fail", "mark", "report", "read"} -> 1
    [] r.pc \in {"insert", "replay", "failed"} -> 2
    [] r.pc \in {"load", "match"} -> 3
    [] r.pc = "opened" -> 4
    [] r.pc = "deployments" -> 5
    [] r.pc = "acquire" -> IF r.op = "group" THEN 9 ELSE 6
    [] r.pc = "authorize" -> IF r.op = "group" THEN 10 ELSE 7
    [] r.pc = "versions" -> 8

EventsLeft(r) == Len(r.events) - r.i

\* A later phase, one event less, or the news that the client is gone.
Nearer(s, r) ==
  \/ Phase(s) < Phase(r)
  \/ /\ s.pc = r.pc /\ s.op = r.op
     /\ \/ EventsLeft(s) \in Nat /\ EventsLeft(s) < EventsLeft(r)
        \/ s.events = r.events /\ s.i = r.i /\ ~r.gone /\ s.gone

\* Of a handler that has a request.
Advances(h) == doraReq[h].pc # "idle" => Nearer(doraReq'[h], doraReq[h])

LEMMA SetSets ==
  ASSUME IngestInv, NEW h \in DoraHandlers, NEW r, Set(h, r)
  PROVE  doraReq'[h] = r /\ \A k \in DoraHandlers \ {h} : doraReq'[k] = doraReq[k]
BY DEF IngestInv, Set

LEMMA FinishAdvances ==
  ASSUME IngestInv, NEW h \in DoraHandlers, NEW status, NEW dl, NEW stats, FinishWith(h, status, dl, stats),
         doraReq[h].pc \in {"done", "fail", "mark", "report", "read", "insert", "replay", "load", "acquire",
                            "versions", "deployments", "opened", "match", "failed"}
  PROVE  Advances(h)
<1>1. doraReq'[h] = NoRequest
  BY SetSets DEF FinishWith
<1>2. Phase(NoRequest) = 0
  BY NoRequestFields DEF Phase
<1>3. Phase(doraReq[h]) \in 1..9
  BY DEF Phase
<1>4. Phase(NoRequest) < Phase(doraReq[h])
  BY <1>2, <1>3
<1> QED
  BY <1>1, <1>4 DEF Advances, Nearer

\* A step to a later phase.
LEMMA PhaseAdvances ==
  ASSUME IngestInv, NEW h \in DoraHandlers, NEW r, Set(h, r), Phase(r) < Phase(doraReq[h])
  PROVE  Advances(h)
BY SetSets DEF Advances, Nearer

LEMMA AcquireAdvances ==
  ASSUME IngestInv, NEW h \in DoraHandlers, AcquireConn(h)
  PROVE  Advances(h)
<1> DEFINE r == doraReq[h]
           s == ToHeld(r, AfterAcquire(r.op), r.held + 1)
           f == ToStatus(r, "fail", "store_error")
<1>1. r.pc = "acquire" /\ ReqShape(r)
  BY DEF AcquireConn, IngestInv, HandlerOK
<1>2. s.pc = AfterAcquire(r.op) /\ s.op = r.op /\ f.pc = "fail"
  BY <1>1, HeldFields, StatusFields DEF SameJob
<1>3. \/ Set(h, s) \/ Set(h, f) \/ \E status : Finish(h, status, 0)
  BY DEF AcquireConn, ToHeld, Fail, ToStatus
<1> HIDE DEF r, s, f
<1>4. Phase(s) < Phase(r) /\ Phase(f) < Phase(r)
  <2>1. Phase(f) = 1
    BY <1>2 DEF Phase
  <2>2. Phase(r) = IF r.op = "group" THEN 9 ELSE 6
    BY <1>1 DEF Phase
  <2>3. s.pc \in {"insert", "load", "deployments", "versions", "read"} /\ (s.pc = "versions" => r.op = "group")
    BY <1>2 DEF AfterAcquire
  <2>4. Phase(s) = (CASE s.pc = "read" -> 1 [] s.pc = "insert" -> 2 [] s.pc = "load" -> 3
                      [] s.pc = "deployments" -> 5 [] s.pc = "versions" -> 8)
    BY <2>3 DEF Phase
  <2> QED
    BY <2>1, <2>2, <2>3, <2>4
<1> QED
  BY <1>1, <1>3, <1>4, PhaseAdvances, FinishAdvances DEF Finish, r

LEMMA InsertAdvances ==
  ASSUME IngestInv, NEW h \in DoraHandlers, InsertEvent(h)
  PROVE  Advances(h)
<1> DEFINE r == doraReq[h]
           s == ToNext(r, r.i + 1)
           f == ToStatus(r, "fail", "store_error")
<1>1. r.op = "ingest" /\ r.pc = "insert" /\ ReqShape(r) /\ AtEvent(r, doraEvents)
  BY DEF InsertEvent, At, IngestInv, HandlerOK, IngestOK
<1>2. r.i \in Nat /\ Len(r.events) \in Nat /\ r.i <= Len(r.events)
  BY <1>1, EventFacts DEF AtEvent
<1>3. \/ Finish(h, "processed", 0) \/ Set(h, f)
      \/ ~LastEvent(h) /\ Set(h, s)
  BY DEF InsertEvent, ToNext, Fail, ToStatus
<1>4. s.pc = r.pc /\ s.op = r.op /\ s.i = r.i + 1 /\ s.events = r.events /\ f.pc = "fail"
  BY <1>1, NextFields, StatusFields DEF SameJob
<1> HIDE DEF s, f
<1>5. ASSUME ~LastEvent(h), Set(h, s) PROVE Advances(h)
  <2>1. r.i # Len(r.events)
    BY <1>5 DEF LastEvent
  <2>2. EventsLeft(s) \in Nat /\ EventsLeft(s) < EventsLeft(r)
    BY <1>2, <1>4, <2>1 DEF EventsLeft
  <2> QED
    BY <1>4, <1>5, <2>2, SetSets DEF Advances, Nearer
<1>6. Phase(f) < Phase(r)
  BY <1>1, <1>4 DEF Phase
<1> QED
  BY <1>1, <1>3, <1>5, <1>6, FinishAdvances, PhaseAdvances DEF Finish

LEMMA LoadAdvances ==
  ASSUME IngestInv, NEW h \in DoraHandlers, LoadDeadLetter(h)
  PROVE  Advances(h)
<1> DEFINE r == doraReq[h]
           row == deadLetters[r.row]
           events == EventsOf(row.hook, r.svc)
           pc == IF events = << >> THEN "mark" ELSE "replay"
           s == ToLoaded(r, row.hook, events, pc)
<1>1. r.pc = "load" /\ ReqShape(r)
  BY DEF LoadDeadLetter, At, IngestInv, HandlerOK
<1>2. s.pc = pc /\ pc \in {"mark", "replay"}
  BY <1>1, LoadedFields
<1>3. \/ Finish(h, "404", 0)
      \/ /\ r.row \in DOMAIN deadLetters
         /\ CASE row.replayed -> Finish(h, "409", 0)
              [] ~row.replayed /\ Outcome(row.hook, r.svc) # "events" -> Finish(h, "422", 0)
              [] OTHER -> Set(h, s) /\ UNCHANGED doraAnswers
  BY DEF LoadDeadLetter, ToLoaded, EventsOf
<1>4. r.row \in DOMAIN deadLetters => row.replayed \in BOOLEAN
  BY TableFacts DEF IngestInv, LettersOK, LetterOK
<1> HIDE DEF s, pc, row
<1>5. Phase(s) < Phase(r)
  BY <1>1, <1>2 DEF Phase
<1>6. \/ \E status : Finish(h, status, 0) \/ Set(h, s)
  BY <1>3, <1>4
<1> QED
  BY <1>1, <1>5, <1>6, FinishAdvances, PhaseAdvances DEF Finish

LEMMA ReplayAdvances ==
  ASSUME IngestInv, NEW h \in DoraHandlers, ReplayEvent(h)
  PROVE  Advances(h)
<1> DEFINE r == doraReq[h]
           s == ToReplayed(r, IF LastEvent(h) THEN "mark" ELSE r.pc, IF LastEvent(h) THEN r.i ELSE r.i + 1)
<1>1. r.op = "replay" /\ r.pc = "replay" /\ ReqShape(r) /\ AtEvent(r, doraEvents)
  BY DEF ReplayEvent, At, IngestInv, HandlerOK, ReplayOK
<1>2. r.i \in Nat /\ Len(r.events) \in Nat /\ r.i <= Len(r.events)
  BY <1>1, EventFacts DEF AtEvent
<1>3. Finish(h, "500", 0) \/ Set(h, s)
  BY DEF ReplayEvent, ToReplayed
<1>4. /\ s.op = r.op /\ s.events = r.events
      /\ s.pc = (IF LastEvent(h) THEN "mark" ELSE r.pc) /\ s.i = (IF LastEvent(h) THEN r.i ELSE r.i + 1)
  BY <1>1, ReplayedFields DEF SameJob
<1> HIDE DEF s
<1>5. ASSUME LastEvent(h) PROVE Phase(s) < Phase(r)
  BY <1>1, <1>4, <1>5 DEF Phase
<1>6. ASSUME ~LastEvent(h), Set(h, s) PROVE Advances(h)
  <2>1. r.i # Len(r.events)
    BY <1>6 DEF LastEvent
  <2>2. EventsLeft(s) \in Nat /\ EventsLeft(s) < EventsLeft(r)
    BY <1>2, <1>4, <1>6, <2>1 DEF EventsLeft
  <2> QED
    BY <1>4, <1>6, <2>2, SetSets DEF Advances, Nearer
<1> QED
  BY <1>1, <1>3, <1>5, <1>6, FinishAdvances, PhaseAdvances DEF Finish

LEMMA AuthorizeAdvances ==
  ASSUME IngestInv, NEW h \in DoraHandlers, Authorize(h)
  PROVE  Advances(h)
<1> DEFINE r == doraReq[h]
           to(status) == ToStatus(r, "acquire", IF r.status = "none" THEN status ELSE r.status)
<1>1. r.pc = "authorize" /\ ReqShape(r) /\ r.scope \in {"denied", "brand", "group"}
  BY DEF Authorize, IngestInv, HandlerOK
<1>2. Set(h, ToPc(r, "acquire")) \/ \E status : Set(h, to(status))
  <2>1. CASE r.scope = "denied"
    BY <2>1 DEF Authorize, ToStatus
  <2>2. CASE r.scope = "brand"
    BY <2>2 DEF Authorize, Goto, ToPc
  <2>3. CASE r.scope = "group"
    BY <2>3 DEF Authorize, Goto, ToPc, ToStatus
  <2> HIDE DEF r, to
  <2> QED
    BY <1>1, <2>1, <2>2, <2>3
<1>3. PICK s : Set(h, s) /\ s.pc = "acquire" /\ s.op = r.op
  <2>1. ToPc(r, "acquire").pc = "acquire" /\ ToPc(r, "acquire").op = r.op
    BY <1>1, PcFields DEF SameJob
  <2>2. \A status : to(status).pc = "acquire" /\ to(status).op = r.op
    BY <1>1, StatusFields DEF SameJob
  <2> HIDE DEF to
  <2> QED
    BY <1>2, <2>1, <2>2
<1> HIDE DEF r
<1>4. Phase(s) < Phase(r)
  <2>1. Phase(s) = (IF r.op = "group" THEN 9 ELSE 6) /\ Phase(r) = (IF r.op = "group" THEN 10 ELSE 7)
    BY <1>1, <1>3 DEF Phase
  <2> QED
    BY <2>1
<1> QED
  BY <1>3, <1>4, PhaseAdvances DEF r

LEMMA GroupAdvances ==
  ASSUME IngestInv, NEW h \in DoraHandlers, GroupVersions(h)
  PROVE  Advances(h)
<1> DEFINE r == doraReq[h]
           s == ToSummary(r)
<1>1. r.pc = "versions" /\ ReqShape(r)
  BY DEF GroupVersions, At, IngestInv, HandlerOK
<1>2. s.pc = "authorize" /\ s.op = "summary"
  BY <1>1, SummaryFields
<1>3. Set(h, s) \/ \E status : Finish(h, status, 0)
  BY DEF GroupVersions, ToSummary
<1> HIDE DEF s
<1>4. Phase(s) < Phase(r)
  BY <1>1, <1>2 DEF Phase
<1> QED
  BY <1>1, <1>3, <1>4, FinishAdvances, PhaseAdvances DEF Finish

LEMMA SummaryAdvances ==
  ASSUME IngestInv, NEW h \in DoraHandlers, NEW pc, NEW next, NEW stats, NEW first,
         SummaryStatement(h, pc, next, stats, first),
         \/ pc = "deployments" /\ next = "opened"
         \/ pc = "opened" /\ next \in {"match", "report"}
         \/ pc = "match" /\ next \in {"failed", "report"}
         \/ pc = "failed" /\ next = "report"
  PROVE  Advances(h)
<1> DEFINE r == doraReq[h]
           s == ToStats(r, next, stats, first)
<1>1. r.pc = pc /\ ReqShape(r)
  BY DEF SummaryStatement, At, IngestInv, HandlerOK
<1>2. s.pc = next
  BY <1>1, StatsFields
<1>3. Set(h, s) \/ Finish(h, "500", 0)
  BY DEF SummaryStatement, ToStats
<1> HIDE DEF s
<1>4. Phase(s) < Phase(r)
  BY <1>1, <1>2 DEF Phase
<1> QED
  BY <1>1, <1>3, <1>4, FinishAdvances, PhaseAdvances DEF Finish

LEMMA CountingAdvances ==
  ASSUME IngestInv, NEW h \in DoraHandlers,
         CountDeployments(h) \/ CountOpened(h) \/ MatchIncidents(h) \/ CountFailed(h)
  PROVE  Advances(h)
<1>1. CASE CountDeployments(h)
  BY <1>1, SummaryAdvances DEF CountDeployments
<1>2. CASE CountOpened(h)
  <2> DEFINE next == IF doraReq[h].stats.deployments = 0 THEN "report" ELSE "match"
  <2>1. next \in {"match", "report"} /\ \E stats, first : SummaryStatement(h, "opened", next, stats, first)
    BY <1>2 DEF CountOpened
  <2> HIDE DEF next
  <2> QED
    BY <2>1, SummaryAdvances
<1>3. CASE MatchIncidents(h)
  <2> DEFINE next == IF doraReq[h].stats.opened = 0 THEN "failed" ELSE "report"
  <2>1. next \in {"failed", "report"} /\ \E stats, first : SummaryStatement(h, "match", next, stats, first)
    BY <1>3 DEF MatchIncidents
  <2> HIDE DEF next
  <2> QED
    BY <2>1, SummaryAdvances
<1>4. CASE CountFailed(h)
  BY <1>4, SummaryAdvances DEF CountFailed
<1> QED
  BY <1>1, <1>2, <1>3, <1>4

LEMMA GoneAdvances ==
  ASSUME IngestInv, NEW h \in DoraHandlers, ClientGone(h)
  PROVE  Advances(h)
<1> DEFINE r == doraReq[h]
           s == ToGone(r)
<1>1. ReqShape(r) /\ ~r.gone /\ Set(h, s)
  BY DEF ClientGone, ToGone, IngestInv, HandlerOK
<1>2. s.pc = r.pc /\ s.op = r.op /\ s.i = r.i /\ s.events = r.events
  BY <1>1, GoneFields DEF SameJob
<1>3. s.gone
  BY <1>1 DEF ReqShape, ReqFields, ToGone
<1> HIDE DEF s
<1> QED
  BY <1>1, <1>2, <1>3, SetSets DEF Advances, Nearer

\* Answers that end a request in one step.
LEMMA EndingAdvances ==
  ASSUME IngestInv, NEW h \in DoraHandlers,
         Respond(h) \/ WriteDeadLetter(h) \/ MarkReplayed(h) \/ Report(h) \/ Read(h)
  PROVE  Advances(h)
<1>1. doraReq[h].pc \in {"done", "fail", "mark", "report", "read"}
  BY DEF Respond, WriteDeadLetter, MarkReplayed, Report, Read, At
<1>2. \E status, dl, stats : FinishWith(h, status, dl, stats)
  <2>1. CASE Respond(h)
    BY <2>1 DEF Respond, Finish
  <2>2. CASE WriteDeadLetter(h)
    BY <2>2 DEF WriteDeadLetter, Finish
  <2>3. CASE MarkReplayed(h)
    BY <2>3 DEF MarkReplayed, Finish
  <2>4. CASE Report(h)
    BY <2>4 DEF Report, Finish
  <2>5. CASE Read(h)
    <3>1. doraReq[h].op \in {"deployments", "list", "get"}
      BY <2>5 DEF Read, IngestInv, HandlerOK
    <3> QED
      BY <2>5, <3>1 DEF Read, Finish
  <2> QED
    BY <2>1, <2>2, <2>3, <2>4, <2>5
<1> QED
  BY <1>1, <1>2, FinishAdvances

\* What a step changes of a request under way brings it nearer to its end.
HandlersAdvance ==
  [][\A h \in DoraHandlers :
       doraReq[h].pc # "idle" /\ doraReq'[h] # doraReq[h] => Nearer(doraReq'[h], doraReq[h])]_ingestVars

\* No handler runs in circles: with every change a request under way gets to a
\* later phase, to its next event, or hears that its client is gone, however many
\* events, connections and other requests there are. GetGroupSummary, which calls
\* GetSummary and so authorises and acquires again, does so once.
THEOREM HandlersComeToAnEnd == IngestSpec => HandlersAdvance
<1> DEFINE Nears(h) == doraReq[h].pc # "idle" /\ doraReq'[h] # doraReq[h] => Nearer(doraReq'[h], doraReq[h])
<1>1. ASSUME IngestInv, NEW h \in DoraHandlers, Receive(h) \/ HandlerStep(h) \/ ClientGone(h), NEW k \in DoraHandlers
      PROVE  Nears(k)
  <2>1. Advances(h)
    <3>1. CASE Receive(h)
      <4>1. doraReq[h].pc = "idle"
        BY <3>1 DEF Receive, IngestWebhook, ReplayDeadLetter, Query, Begin
      <4> QED
        BY <4>1 DEF Advances
    <3>2. CASE HandlerStep(h)
      BY <1>1, <3>2, AcquireAdvances, InsertAdvances, LoadAdvances, ReplayAdvances, AuthorizeAdvances, GroupAdvances,
         CountingAdvances, EndingAdvances DEF HandlerStep
    <3>3. CASE ClientGone(h)
      BY <1>1, <3>3, GoneAdvances
    <3> QED
      BY <1>1, <3>1, <3>2, <3>3
  <2>2. k # h => doraReq'[k] = doraReq[k]
    <3>1. \E r : Moves(h, r)
      BY <1>1, StepsAreOK DEF StepOK
    <3> QED
      BY <1>1, <3>1 DEF Moves, IngestInv
  <2> QED
    BY <2>1, <2>2 DEF Advances
<1>2. ASSUME IngestInv, [IngestNext]_ingestVars, ~UNCHANGED ingestVars PROVE \A h \in DoraHandlers : Nears(h)
  <2>1. ASSUME NEW row \in Reported, ReportDeployment(row) PROVE \A h \in DoraHandlers : Nears(h)
    BY <2>1 DEF ReportDeployment
  <2>2. ASSUME NEW h \in DoraHandlers, Receive(h) \/ HandlerStep(h) \/ ClientGone(h)
        PROVE  \A k \in DoraHandlers : Nears(k)
    BY <1>1, <1>2, <2>2
  <2> HIDE DEF Nears
  <2> QED
    BY <1>2, <2>1, <2>2 DEF IngestNext
<1>3. IngestInv /\ [IngestNext]_ingestVars => [\A h \in DoraHandlers : Nears(h)]_ingestVars
  BY <1>2
<1> QED
  BY <1>3, IngestKeepsInv, PTL DEF IngestSpec, HandlersAdvance

=============================================================================
