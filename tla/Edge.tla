-------------------------------- MODULE Edge --------------------------------
(***************************************************************************)
(* The middleware in front of /v1, internal/transport/http/middleware.go:  *)
(* the JWKS cache, the check of a bearer token, and the token bucket of    *)
(* each tenant. Requests run side by side; the cache is read, refreshed    *)
(* and read again under a lock that is released in between, and so is a    *)
(* bucket between Consume and RetryAfter. Time is counted in ticks, and a  *)
(* bucket in the tokens that one tick brings. The issuer is external.      *)
(***************************************************************************)
EXTENDS Integers, Sequences

CONSTANTS
  EdgeRequests,    \* requests in flight
  Bearers,         \* what a request carries: header, kid, validity and tenant of its token
  Capacity,        \* tokens that a bucket holds
  TicksPerToken,   \* ticks in which one token is refilled
  TicksPerSecond,
  RefreshWindow,   \* the five minutes, in ticks
  MaxTime,         \* bound: ticks of a behaviour
  MaxEdgeRequests, \* bound: requests of a behaviour
  MaxFetchFaults   \* bound: fetches that fail

ASSUME EdgeBounds == Capacity \in Nat /\ TicksPerToken \in Nat \ {0} /\ TicksPerSecond \in Nat \ {0}

VARIABLES
  edgeClock, edgeReq,
  jwks,        \* keys of the cache and refreshAfter
  issuerKeys,  \* kids that the issuer publishes
  buckets,     \* per tenant: tokens and lastRefill
  served,      \* per tenant: when its requests were passed on, oldest first
  edgeCount, fetchFaults

edgeVars == <<edgeClock, edgeReq, jwks, issuerKeys, buckets, served, edgeCount, fetchFaults>>

Tenants == {b.tenant : b \in Bearers} \cup {"default"}

NoBearer == [pc |-> "idle", kid |-> "none", valid |-> FALSE, tenant |-> "none", cached |-> FALSE, wait |-> 0]

NoBucket == [tokens |-> -1, lastRefill |-> 0]

EdgeInit ==
  /\ edgeClock = 0
  /\ edgeReq = [h \in EdgeRequests |-> NoBearer]
  /\ jwks = [keys |-> {}, refreshAfter |-> -1]
  /\ issuerKeys = {"k1"}
  /\ buckets = [t \in Tenants |-> NoBucket]
  /\ served = [t \in Tenants |-> << >>]
  /\ edgeCount = 0 /\ fetchFaults = 0

SetEdge(h, r) == edgeReq' = [edgeReq EXCEPT ![h] = r]
EdgeAt(h, pc) == edgeReq[h].pc = pc

\* 401 and 429 end the request here.
Reject(h) == SetEdge(h, NoBearer)

\* Header, format and kid, before any key is looked up.
TakeBearer(h) ==
  /\ EdgeAt(h, "idle") /\ edgeCount < MaxEdgeRequests /\ edgeCount' = edgeCount + 1
  /\ \E b \in Bearers :
       IF b.kid = "none" THEN Reject(h)
       ELSE SetEdge(h, [NoBearer EXCEPT !.pc = "getKey", !.kid = b.kid, !.valid = b.valid, !.tenant = b.tenant])
  /\ UNCHANGED <<edgeClock, jwks, issuerKeys, buckets, served, fetchFaults>>

NeedsRefresh == edgeClock > jwks.refreshAfter

\* GetKey under its first read lock.
GetKey(h) ==
  /\ EdgeAt(h, "getKey")
  /\ LET exists == edgeReq[h].kid \in jwks.keys
     IN SetEdge(h, [edgeReq[h] EXCEPT !.cached = exists,
                      !.pc = IF exists /\ ~NeedsRefresh THEN "validate" ELSE "refresh"])
  /\ UNCHANGED <<edgeClock, jwks, issuerKeys, buckets, served, edgeCount, fetchFaults>>

\* Discovery and fetch; what is fetched is added to the cache, never taken from
\* it. A failed fetch does with the key seen before, if there was one.
Refresh(h) ==
  /\ EdgeAt(h, "refresh")
  /\ \/ /\ jwks' = [keys |-> jwks.keys \cup issuerKeys, refreshAfter |-> edgeClock + RefreshWindow]
        /\ SetEdge(h, [edgeReq[h] EXCEPT !.pc = "lookup"])
        /\ UNCHANGED fetchFaults
     \/ /\ fetchFaults < MaxFetchFaults /\ fetchFaults' = fetchFaults + 1
        /\ IF edgeReq[h].cached THEN SetEdge(h, [edgeReq[h] EXCEPT !.pc = "validate"]) ELSE Reject(h)
        /\ UNCHANGED jwks
  /\ UNCHANGED <<edgeClock, issuerKeys, buckets, served, edgeCount>>

\* GetKey under its second read lock.
LookupKey(h) ==
  /\ EdgeAt(h, "lookup")
  /\ IF edgeReq[h].kid \in jwks.keys THEN SetEdge(h, [edgeReq[h] EXCEPT !.pc = "validate"]) ELSE Reject(h)
  /\ UNCHANGED <<edgeClock, jwks, issuerKeys, buckets, served, edgeCount, fetchFaults>>

\* Signature, issuer, audience and times; the claims name the tenant.
Validate(h) ==
  /\ EdgeAt(h, "validate")
  /\ IF edgeReq[h].valid THEN SetEdge(h, [edgeReq[h] EXCEPT !.pc = "limit"]) ELSE Reject(h)
  /\ UNCHANGED <<edgeClock, jwks, issuerKeys, buckets, served, edgeCount, fetchFaults>>

\* A token without a tenant_id counts for the bucket "default".
TenantOf(h) == IF edgeReq[h].tenant = "" THEN "default" ELSE edgeReq[h].tenant

\* GetBucket: a new bucket is full.
GetBucket(t) ==
  IF buckets[t] = NoBucket THEN [tokens |-> Capacity * TicksPerToken, lastRefill |-> edgeClock]
  ELSE buckets[t]

\* Mutant of Refilled: tokens pile up beyond the capacity.
RefilledForEver(b) == b.tokens + (edgeClock - b.lastRefill)

Refilled(b) ==
  LET tokens == b.tokens + (edgeClock - b.lastRefill)
  IN IF tokens > Capacity * TicksPerToken THEN Capacity * TicksPerToken ELSE tokens

Consume(h) ==
  LET t == TenantOf(h)
      tokens == Refilled(GetBucket(t))
      admit == tokens >= TicksPerToken
  IN /\ EdgeAt(h, "limit")
     /\ buckets' = [buckets EXCEPT ![t] = [tokens |-> IF admit THEN tokens - TicksPerToken ELSE tokens,
                                           lastRefill |-> edgeClock]]
     /\ IF admit THEN Reject(h) /\ served' = [served EXCEPT ![t] = Append(@, edgeClock)]
                 ELSE SetEdge(h, [edgeReq[h] EXCEPT !.pc = "retryAfter"]) /\ UNCHANGED served
     /\ UNCHANGED <<edgeClock, jwks, issuerKeys, edgeCount, fetchFaults>>

\* int(tokensNeeded / refill) + 1 seconds, of the tokens as they were refilled last.
RetryAfter(t) ==
  LET needed == TicksPerToken - buckets[t].tokens
  IN IF needed <= 0 THEN 0 ELSE needed \div TicksPerSecond + 1

\* The 429 with its Retry-After; the client comes back with the same token then.
TooManyRequests(h) ==
  /\ EdgeAt(h, "retryAfter")
  /\ SetEdge(h, [edgeReq[h] EXCEPT !.pc = "backoff",
                                   !.wait = edgeClock + TicksPerSecond * RetryAfter(TenantOf(h))])
  /\ UNCHANGED <<edgeClock, jwks, issuerKeys, buckets, served, edgeCount, fetchFaults>>

\* External: a client that obeys the header, or gives up.
ComeBack(h) ==
  /\ EdgeAt(h, "backoff") /\ edgeClock >= edgeReq[h].wait
  /\ \/ Reject(h)
     \/ SetEdge(h, [edgeReq[h] EXCEPT !.pc = "getKey", !.cached = FALSE, !.wait = 0])
  /\ UNCHANGED <<edgeClock, jwks, issuerKeys, buckets, served, edgeCount, fetchFaults>>

\* External: time, and the issuer's keys.
Tick ==
  /\ edgeClock < MaxTime /\ edgeClock' = edgeClock + 1
  /\ UNCHANGED <<edgeReq, jwks, issuerKeys, buckets, served, edgeCount, fetchFaults>>

RotateKey ==
  /\ issuerKeys = {"k1"} /\ issuerKeys' = {"k2"}
  /\ UNCHANGED <<edgeClock, edgeReq, jwks, buckets, served, edgeCount, fetchFaults>>

EdgeStep(h) ==
  \/ TakeBearer(h) \/ GetKey(h) \/ Refresh(h) \/ LookupKey(h) \/ Validate(h)
  \/ Consume(h) \/ TooManyRequests(h) \/ ComeBack(h)

EdgeNext == Tick \/ RotateKey \/ \E h \in EdgeRequests : EdgeStep(h)

EdgeSpec == EdgeInit /\ [][EdgeNext]_edgeVars

-----------------------------------------------------------------------------
\* In every interval a tenant is served at most the capacity and what the
\* interval refills, however its requests interleave and whichever tenants share
\* the store (Consume: refill, cap and lastRefill under one lock).
AdmittedBounded ==
  \A t \in Tenants : \A i, k \in 1..Len(served[t]) : i <= k =>
    TicksPerToken * (k - i + 1) <= TicksPerToken * Capacity + (served[t][k] - served[t][i])
=============================================================================
