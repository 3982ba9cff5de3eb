------------------------------ MODULE Fragments ------------------------------
(***************************************************************************)
(* The capabilities of a provisioning request: the parameters of each      *)
(* (template/types.go), its fragment (template/fragments), which validates *)
(* and renders them, and its builder (template/xr.go), which turns what    *)
(* was rendered into the parameters of a Crossplane resource. A builder    *)
(* reads some keys of the rendered part and some of the request, and drops *)
(* the others: only what it reads is rendered here. Strings are kept where *)
(* a validation, a default or a conversion looks at them.                  *)
(***************************************************************************)
EXTENDS Integers, Sequences

CONSTANT MaxCapacity   \* the largest capacity with which make gives a slice

ASSUME MaxCapacityAssumption == MaxCapacity \in Nat

\* The parameters of the capabilities as decoded from a request that sets none.
NoParams ==
  [kubernetes |-> [enabled |-> FALSE, provider |-> "", tier |-> "", size |-> "", multiAZ |-> FALSE],
   vm |-> [enabled |-> FALSE, provider |-> "", count |-> 0, family |-> "", size |-> "", os |-> "", spot |-> FALSE,
           bootGiB |-> 0, disks |-> << >>, multiAZ |-> FALSE, scaling |-> FALSE, min |-> 0, max |-> 0],
   database |-> [enabled |-> FALSE, provider |-> "", engine |-> "", tier |-> "", storage |-> 0, storageType |-> "",
                 iops |-> 0, backup |-> FALSE, retention |-> 0],
   cache |-> [enabled |-> FALSE, provider |-> "", engine |-> "", tier |-> "", replicas |-> 0],
   objectStorage |-> [enabled |-> FALSE, provider |-> "", class |-> "", versioning |-> FALSE],
   blockStorage |-> [enabled |-> FALSE, provider |-> "", volumes |-> << >>],
   fileStorage |-> [enabled |-> FALSE, provider |-> "", mode |-> "", throughput |-> 0, multiAZ |-> FALSE],
   vpc |-> [enabled |-> FALSE, provider |-> "", cidr |-> "", private |-> 0, public |-> 0, nat |-> 0, flowLogs |-> FALSE],
   messaging |-> [enabled |-> FALSE, provider |-> "", tier |-> "", queues |-> 0, topics |-> 0, dlq |-> FALSE, retry |-> 0],
   dns |-> [enabled |-> FALSE, provider |-> "", zone |-> "", records |-> << >>],
   loadBalancer |-> [enabled |-> FALSE, provider |-> "", type |-> "", scheme |-> "", https |-> FALSE, waf |-> FALSE],
   cdn |-> [enabled |-> FALSE, provider |-> "", originType |-> "", waf |-> FALSE],
   identity |-> [enabled |-> FALSE, provider |-> "", type |-> "", policies |-> << >>, federation |-> ""],
   secrets |-> [enabled |-> FALSE, provider |-> "", kms |-> ""],
   observability |-> [enabled |-> FALSE, provider |-> "", logDays |-> 0]]

Capabilities == DOMAIN NoParams

\* Their Go types: a number is any int.
CapabilityParams ==
  [kubernetes : [enabled : BOOLEAN, provider : STRING, tier : STRING, size : STRING, multiAZ : BOOLEAN],
   vm : [enabled : BOOLEAN, provider : STRING, count : Int, family : STRING, size : STRING, os : STRING, spot : BOOLEAN,
         bootGiB : Int, disks : Seq([type : STRING, iops : Int]), multiAZ : BOOLEAN, scaling : BOOLEAN, min : Int, max : Int],
   database : [enabled : BOOLEAN, provider : STRING, engine : STRING, tier : STRING, storage : Int, storageType : STRING,
               iops : Int, backup : BOOLEAN, retention : Int],
   cache : [enabled : BOOLEAN, provider : STRING, engine : STRING, tier : STRING, replicas : Int],
   objectStorage : [enabled : BOOLEAN, provider : STRING, class : STRING, versioning : BOOLEAN],
   blockStorage : [enabled : BOOLEAN, provider : STRING, volumes : Seq([type : STRING, size : Int, iops : Int])],
   fileStorage : [enabled : BOOLEAN, provider : STRING, mode : STRING, throughput : Int, multiAZ : BOOLEAN],
   vpc : [enabled : BOOLEAN, provider : STRING, cidr : STRING, private : Int, public : Int, nat : Int, flowLogs : BOOLEAN],
   messaging : [enabled : BOOLEAN, provider : STRING, tier : STRING, queues : Int, topics : Int, dlq : BOOLEAN, retry : Int],
   dns : [enabled : BOOLEAN, provider : STRING, zone : STRING, records : Seq(Seq(STRING))],
   loadBalancer : [enabled : BOOLEAN, provider : STRING, type : STRING, scheme : STRING, https : BOOLEAN, waf : BOOLEAN],
   cdn : [enabled : BOOLEAN, provider : STRING, originType : STRING, waf : BOOLEAN],
   identity : [enabled : BOOLEAN, provider : STRING, type : STRING, federation : STRING,
               policies : Seq([effect : STRING, resource : STRING])],
   secrets : [enabled : BOOLEAN, provider : STRING, kms : STRING],
   observability : [enabled : BOOLEAN, provider : STRING, logDays : Int]]

Critical(p) == p.availability = "critical"
Restricted(p) == p.classification = "restricted"

\* The first that is not the zero value.
Coalesce(value, default) == IF value = "" THEN default ELSE value
CoalesceInt(value, default) == IF value = 0 THEN default ELSE value

DiskTypeToCloud(type) == IF type = "provisioned" THEN "io2" ELSE "gp3"

\* A disk or a volume of provisioned speed says which.
HasIOPS(disk) == disk.type = "provisioned" => disk.iops # 0

-----------------------------------------------------------------------------
(* Kubernetes: multi_az is demanded of a critical request and not passed on; *)
(* desiredNodes is never rendered, so the builder's default stands.         *)

KubernetesValidate(p) ==
  LET k == p.caps.kubernetes IN k.tier # "" /\ k.size # "" /\ (Critical(p) => k.multiAZ)

KubernetesNodePool(size, tier) ==
  LET pool == CASE size = "medium" -> <<3, 10>> [] size = "large" -> <<3, 20>>
                [] size = "xlarge" -> <<5, 50>> [] OTHER -> <<2, 5>>
  IN [minNodes |-> pool[1], maxNodes |-> IF tier = "advanced" THEN 2 * pool[2] ELSE pool[2]]

KubernetesRender(p) ==
  LET k == p.caps.kubernetes IN [nodePool |-> KubernetesNodePool(k.size, k.tier), multiAZ |-> k.multiAZ]

buildKubernetesParams(p, in) ==
  [minNodes |-> in.nodePool.minNodes, desiredNodes |-> 2, maxNodes |-> in.nodePool.maxNodes]

-----------------------------------------------------------------------------
(* Virtual machines: count, zones, scaling and further disks are not passed *)
(* on to the resource.                                                      *)

VMValidate(p) ==
  LET vm == p.caps.vm IN
    /\ vm.count # 0 /\ vm.family # "" /\ vm.size # "" /\ vm.os # ""
    /\ vm.spot => ~Critical(p)
    /\ vm.scaling => vm.max >= vm.min /\ vm.count <= 1
    /\ Critical(p) => vm.multiAZ \/ vm.scaling
    /\ \A i \in 1..Len(vm.disks) : HasIOPS(vm.disks[i])

VMRender(p) ==
  LET vm == p.caps.vm IN
    [bootGiB |-> CoalesceInt(vm.bootGiB, IF vm.os = "windows" THEN 100 ELSE 30),
     count |-> IF vm.scaling THEN vm.min ELSE vm.count]

buildVMParams(p, in) == [diskSizeGb |-> in.bootGiB]

-----------------------------------------------------------------------------
(* Databases: the retention that the fragment works out is in a part that   *)
(* the builder does not read; it takes the number of the request.           *)

isAuroraEngine(engine) == engine \in {"aurora-postgres", "aurora-mysql"}

DatabaseValidate(p) ==
  LET db == p.caps.database IN
    /\ db.engine # "" /\ db.tier # "" /\ db.storage # 0
    /\ db.tier = "serverless" => isAuroraEngine(db.engine)
    /\ db.storageType = "provisioned" => db.iops # 0
    /\ Restricted(p) => db.backup

DefaultBackupRetention(classification) ==
  CASE classification = "restricted" -> 35 [] classification = "confidential" -> 14 [] OTHER -> 7

DatabaseRender(p) ==
  LET db == p.caps.database IN
    [storageType |-> DiskTypeToCloud(Coalesce(db.storageType, "ssd")),
     iops |-> IF db.storageType = "provisioned" THEN db.iops ELSE 0,
     multiAZ |-> db.tier = "highly-available",
     retention |-> IF db.backup THEN CoalesceInt(db.retention, DefaultBackupRetention(p.classification)) ELSE 0]

buildDatabaseParams(p, in) ==
  [storageType |-> in.storageType, iops |-> in.iops, multiAZ |-> in.multiAZ,
   backupRetentionDays |-> p.caps.database.retention]

-----------------------------------------------------------------------------
(* Cache and stores.                                                        *)

CacheValidate(p) ==
  LET c == p.caps.cache IN
    /\ c.engine # "" /\ c.tier # ""
    /\ c.tier = "clustered" => c.replicas >= 1 /\ c.engine # "memcached"
    /\ Critical(p) => c.replicas >= 2

CacheRender(p) == [replicaCount |-> p.caps.cache.replicas]

buildCacheParams(p, in) == [replicaCount |-> in.replicaCount]

ObjectStorageValidate(p) ==
  LET s == p.caps.objectStorage IN s.class # "" /\ (Restricted(p) => s.versioning)

ObjectStorageRender(p) == [versioning |-> p.caps.objectStorage.versioning]

buildObjectStoreParams(p, in) == [versioning |-> in.versioning]

BlockStorageValidate(p) ==
  LET volumes == p.caps.blockStorage.volumes IN
    /\ volumes # << >>
    /\ \A i \in 1..Len(volumes) : HasIOPS(volumes[i]) /\ volumes[i].size # 0

BlockStorageRender(p) == [volumes |-> p.caps.blockStorage.volumes]

\* The builder looks for a []any and is given a []map[string]any: it finds no
\* volume and describes one of its own.
buildBlockStorageParams(p, in) == [sizeGb |-> 100, volumeType |-> "gp3", iops |-> 0]

FileStorageValidate(p) ==
  LET fs == p.caps.fileStorage IN (fs.mode = "provisioned" => fs.throughput # 0) /\ (Critical(p) => fs.multiAZ)

FileStorageRender(p) ==
  LET fs == p.caps.fileStorage IN
    [throughputMode |-> Coalesce(fs.mode, "bursting"),
     throughput |-> IF fs.mode = "provisioned" THEN fs.throughput ELSE 0]

\* A speed that is not positive is left out.
buildFileStorageParams(p, in) ==
  [throughputMode |-> in.throughputMode,
   throughput |-> IF in.throughputMode = "provisioned" /\ in.throughput > 0 THEN in.throughput ELSE 0]

-----------------------------------------------------------------------------
(* Network.                                                                 *)

VPCValidate(p) ==
  LET v == p.caps.vpc IN v.cidr = "valid" /\ v.private # 0 /\ (v.public > 0 => v.nat # 0)

\* RegionAZs first makes a slice for as many zones as there are private subnets:
\* a negative number, or one beyond all memory, is a panic.
ZonesPanic(p) == p.caps.vpc.private < 0 \/ p.caps.vpc.private > MaxCapacity

\* A region has four zones to name.
RegionAZs(count) == SubSeq(<<"a", "b", "c", "d">>, 1, IF count < 4 THEN count ELSE 4)

\* Mutant of VPCRender: the flow logs that a critical request gets are forgotten.
VPCRenderAsAsked(p) ==
  LET v == p.caps.vpc IN [private |-> v.private, public |-> v.public, nat |-> v.nat, flowLogs |-> v.flowLogs,
                          zones |-> RegionAZs(CoalesceInt(v.private, 3))]

VPCRender(p) ==
  LET v == p.caps.vpc IN
    [private |-> v.private, public |-> v.public, nat |-> v.nat, flowLogs |-> v.flowLogs \/ Critical(p),
     zones |-> RegionAZs(CoalesceInt(v.private, 3))]

buildVPCParams(p, in) == in

LoadBalancerValidate(p) ==
  LET lb == p.caps.loadBalancer IN
    /\ lb.type # "" /\ lb.scheme # ""
    /\ lb.scheme = "internet-facing" => p.ingress \notin {"disabled", "internal"}

\* HTTPS becomes two listeners, and WAF a map with a rule set.
LoadBalancerRender(p) ==
  LET lb == p.caps.loadBalancer IN
    [scheme |-> lb.scheme, listeners |-> IF lb.https THEN <<443, 80>> ELSE << >>,
     waf |-> IF lb.waf THEN {"enabled", "ruleSet"} ELSE {}]

\* The builder wants a Boolean "https", which nobody renders, and a Boolean
\* "waf", where it finds a map: it takes both to be unset.
buildLoadBalancerParams(p, in) == [scheme |-> in.scheme, https |-> FALSE, waf |-> FALSE]

DNSValidate(p) ==
  LET d == p.caps.dns IN d.zone # "" /\ \A i \in 1..Len(d.records) : d.records[i] # << >>

DNSRender(p) == [records |-> p.caps.dns.records]

buildDNSParams(p, in) == [records |-> in.records]

CDNValidate(p) == p.caps.cdn.originType # "" /\ p.exposure # "private"

CDNRender(p) == [originType |-> p.caps.cdn.originType, waf |-> p.caps.cdn.waf]

\* An enabled WAF ends up as a tag, which the tags of the request replace.
buildCDNParams(p, in) == [domain |-> CASE in.originType \in {"s3", "alb"} -> in.originType [] OTHER -> "example.com"]

-----------------------------------------------------------------------------
(* Messaging, identity, secrets, observability.                             *)

MessagingValidate(p) ==
  LET m == p.caps.messaging IN
    m.tier # "" /\ (m.queues # 0 \/ m.topics # 0) /\ (m.dlq => m.retry # 0)

MessagingRender(p) == [encrypted |-> TRUE]

buildMessagingParams(p, in) ==
  LET m == p.caps.messaging IN
    [queueCount |-> m.queues, topicCount |-> m.topics, dlqEnabled |-> m.dlq, dlqMaxRetry |-> m.retry,
     encryption |-> in.encrypted]

IdentityValidate(p) ==
  LET id == p.caps.identity IN
    /\ id.type # ""
    /\ id.type = "federated" => id.federation # ""
    /\ \A i \in 1..Len(id.policies) : id.policies[i].effect # "" /\ id.policies[i].resource # ""

IdentityRender(p) == [type |-> p.caps.identity.type, policies |-> p.caps.identity.policies]

\* The fragment says "federated", the builder knows "federation"; the policies
\* have the wrong type for it, like the volumes above.
buildIdentityParams(p, in) ==
  [type |-> IF in.type \in {"service", "irsa", "federation"} THEN in.type ELSE "service", policies |-> << >>]

SecretsValidate(p) ==
  p.caps.secrets.provider # "" /\ p.caps.secrets.kms \in {"", "aws-managed", "customer-managed"}

SecretsRender(p) == [kms |-> Coalesce(p.caps.secrets.kms, "aws-managed")]

buildSecretsParams(p, in) == [kmsKeyType |-> p.caps.secrets.kms]

ObservabilityValidate(p) == TRUE

ObservabilityRender(p) ==
  [logDays |-> CoalesceInt(p.caps.observability.logDays,
                           IF p.classification \in {"restricted", "confidential"} THEN 365 ELSE 30)]

buildObservabilityParams(p, in) == [logRetentionDays |-> p.caps.observability.logDays]
==============================================================================
