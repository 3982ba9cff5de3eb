------------------------------- MODULE Template -------------------------------
(***************************************************************************)
(* RenderManifests of internal/module/infra: the catalogue                 *)
(* (template/catalog), the validation and composition of the engine        *)
(* (template/engine.go, validate.go) and BuildXRs (template/xr.go). What   *)
(* one capability does is in Fragments. A request is rendered into one     *)
(* document for each capability that it enables, or into an error. YAML is *)
(* written with sorted keys: a document here is the record of its content. *)
(***************************************************************************)
EXTENDS Fragments, FiniteSets

CONSTANT Requests   \* parameters of provisioning requests

\* A request is a ProvisionParams; "missing" names the required fields that are
\* empty and no other part of the engine looks at.
RequestFields ==
  {"catalogueItem", "environment", "profile", "availability", "residency", "classification", "ingress", "exposure",
   "dr", "secondary", "backup", "ttl", "costCentre", "extraTags", "defaultProvider", "missing", "caps"}

ASSUME RequestsAssumption ==
  \A p \in Requests : p = [x \in RequestFields |-> p[x]] /\ p.caps \in CapabilityParams

VARIABLES
  request,  \* the request at hand
  manifest  \* what became of it: "none" yet, an "error", a "panic", or "rendered" documents

templateVars == <<request, manifest>>

-----------------------------------------------------------------------------
(* The catalogue.                                                           *)

K8sApp ==
  [required |-> {"kubernetes"}, forbidden |-> {"vm"},
   optional |-> Capabilities \ {"kubernetes", "vm"},
   environments |-> {"development", "staging", "production"},
   profiles |-> {"small", "medium", "large", "xlarge"},
   availabilities |-> {"standard", "high", "critical"},
   residencies |-> {"eu", "us", "ap", "global"},
   providers |-> {"aws", "azure"}, requiresApproval |-> TRUE, tier |-> "standard", versioning |-> FALSE]

VMApp ==
  [required |-> {"vm"}, forbidden |-> {"kubernetes", "cdn"},
   optional |-> Capabilities \ {"vm", "kubernetes", "cdn", "cache", "messaging"},
   environments |-> {"development", "staging", "production"},
   profiles |-> {"small", "medium", "large", "xlarge"},
   availabilities |-> {"standard", "high"},
   residencies |-> {"eu", "us"},
   providers |-> {"aws", "azure"}, requiresApproval |-> TRUE, tier |-> "", versioning |-> FALSE]

DataProc ==
  [required |-> {"kubernetes", "objectStorage", "messaging"}, forbidden |-> {"vm", "cdn"},
   optional |-> {"database", "cache", "blockStorage", "fileStorage", "vpc", "identity", "secrets", "observability"},
   environments |-> {"development", "staging", "production"},
   profiles |-> {"medium", "large", "xlarge"},
   availabilities |-> {"standard", "high", "critical"},
   residencies |-> {"eu", "us", "global"},
   providers |-> {"aws", "gcp"}, requiresApproval |-> FALSE, tier |-> "advanced", versioning |-> TRUE]

\* LoadAll: the definitions that are built into the program, by name.
Catalogues == [k8s_app |-> K8sApp, vm_app |-> VMApp, data_proc |-> DataProc]

SupportedProviders == [c \in Capabilities |-> {"aws", "azure", "gcp"}]

ValidateCatalogs ==
  \A name \in DOMAIN Catalogues :
    LET cat == Catalogues[name] IN
      /\ cat.required \cup cat.optional \subseteq DOMAIN SupportedProviders
      /\ \A provider \in cat.providers : \E c \in cat.required : provider \in SupportedProviders[c]

\* An empty list of a catalogue item allows everything.
Among(value, allowed) == allowed = {} \/ value \in allowed

ValidateParams(cat, p) ==
  /\ Among(p.environment, cat.environments) /\ Among(p.profile, cat.profiles)
  /\ Among(p.availability, cat.availabilities) /\ Among(p.residency, cat.residencies)

Enabled(p) == {c \in Capabilities : p.caps[c].enabled}

\* A capability that is neither required, optional nor forbidden passes.
ValidateCapabilities(cat, p) ==
  /\ cat.required \subseteq Enabled(p)
  /\ cat.forbidden \cap Enabled(p) = {}
  /\ \A c \in Enabled(p) :
       Among(Coalesce(p.caps[c].provider, Coalesce(p.defaultProvider, "aws")), cat.providers)

\* The defaults that the definitions set: a tier for clusters, versioning of objects.
applyCatalogDefaults(p, cat) ==
  [p EXCEPT !.caps.kubernetes.tier = Coalesce(@, cat.tier),
            !.caps.objectStorage.versioning = @ \/ cat.versioning]

\* A request without an item is left to Validate, which refuses it.
applyCatalog(p) ==
  p.catalogueItem # "" =>
    /\ p.catalogueItem \in DOMAIN Catalogues
    /\ ValidateParams(Catalogues[p.catalogueItem], p)
    /\ ValidateCapabilities(Catalogues[p.catalogueItem], p)

Defaulted(p) ==
  IF p.catalogueItem \in DOMAIN Catalogues THEN applyCatalogDefaults(p, Catalogues[p.catalogueItem]) ELSE p

-----------------------------------------------------------------------------
(* Validation of the request as a whole.                                    *)

Validate(p) ==
  /\ p.missing = {} /\ p.catalogueItem # "" /\ p.availability # "" /\ p.environment # ""
  /\ p.classification # "" /\ p.ingress # ""
  /\ p.dr => p.secondary # ""
  /\ Critical(p) => p.dr /\ p.backup
  /\ Restricted(p) => p.backup
  /\ p.ttl \in {"", "a date"}

validateAtLeastOneCapability(p) == Enabled(p) # {}

validateCrossCutting(p) ==
  /\ ~(p.caps.vm.enabled /\ p.caps.kubernetes.enabled)
  /\ p.caps.blockStorage.enabled => p.caps.vm.enabled
  /\ Critical(p) => p.caps.observability.enabled

-----------------------------------------------------------------------------
(* Fragments, parts and documents.                                          *)

FragmentValidates(p) ==
  [kubernetes |-> KubernetesValidate(p), vm |-> VMValidate(p), database |-> DatabaseValidate(p),
   cache |-> CacheValidate(p), objectStorage |-> ObjectStorageValidate(p), blockStorage |-> BlockStorageValidate(p),
   fileStorage |-> FileStorageValidate(p), vpc |-> VPCValidate(p), loadBalancer |-> LoadBalancerValidate(p),
   dns |-> DNSValidate(p), cdn |-> CDNValidate(p), messaging |-> MessagingValidate(p),
   identity |-> IdentityValidate(p), secrets |-> SecretsValidate(p), observability |-> ObservabilityValidate(p)]

\* TagsFragment: the tags of the request override the automatic ones.
TagsRender(p) ==
  LET automatic == [k \in {"cost-centre", "managed-by"} \cup (IF p.ttl = "" THEN {} ELSE {"ttl"}) |->
                      CASE k = "cost-centre" -> p.costCentre [] k = "managed-by" -> "release-engine" [] k = "ttl" -> p.ttl]
  IN [k \in DOMAIN automatic \cup DOMAIN p.extraTags |->
        IF k \in DOMAIN p.extraTags THEN p.extraTags[k] ELSE automatic[k]]

ComplianceRender(p) == [residency |-> p.residency, dr |-> p.dr, backup |-> p.backup]

Part(p, c) ==
  CASE c = "tags" -> TagsRender(p) [] c = "compliance" -> ComplianceRender(p)
    [] c = "kubernetes" -> KubernetesRender(p) [] c = "vm" -> VMRender(p)
    [] c = "database" -> DatabaseRender(p) [] c = "cache" -> CacheRender(p)
    [] c = "objectStorage" -> ObjectStorageRender(p) [] c = "blockStorage" -> BlockStorageRender(p)
    [] c = "fileStorage" -> FileStorageRender(p) [] c = "vpc" -> VPCRender(p)
    [] c = "loadBalancer" -> LoadBalancerRender(p) [] c = "dns" -> DNSRender(p)
    [] c = "cdn" -> CDNRender(p) [] c = "messaging" -> MessagingRender(p)
    [] c = "identity" -> IdentityRender(p) [] c = "secrets" -> SecretsRender(p)
    [] c = "observability" -> ObservabilityRender(p)

\* What the fragments leave: tags and compliance always, the others if enabled.
specParts(p) == [c \in {"tags", "compliance"} \cup Enabled(p) |-> Part(p, c)]

\* The capabilities that have a builder.
paramBuilders == Capabilities

Built(p, c, in) ==
  CASE c = "kubernetes" -> buildKubernetesParams(p, in) [] c = "vm" -> buildVMParams(p, in)
    [] c = "database" -> buildDatabaseParams(p, in) [] c = "cache" -> buildCacheParams(p, in)
    [] c = "objectStorage" -> buildObjectStoreParams(p, in) [] c = "blockStorage" -> buildBlockStorageParams(p, in)
    [] c = "fileStorage" -> buildFileStorageParams(p, in) [] c = "vpc" -> buildVPCParams(p, in)
    [] c = "loadBalancer" -> buildLoadBalancerParams(p, in) [] c = "dns" -> buildDNSParams(p, in)
    [] c = "cdn" -> buildCDNParams(p, in) [] c = "messaging" -> buildMessagingParams(p, in)
    [] c = "identity" -> buildIdentityParams(p, in) [] c = "secrets" -> buildSecretsParams(p, in)
    [] c = "observability" -> buildObservabilityParams(p, in)

\* Mutant of ResolveProvider: the default of the request comes first.
ResolveDefaultFirst(p, c) == Coalesce(p.defaultProvider, Coalesce(p.caps[c].provider, "aws"))

ResolveProvider(p, c) == Coalesce(p.caps[c].provider, Coalesce(p.defaultProvider, "aws"))

\* A part that has no builder, like compliance, is left out without a word.
capabilityParts(p) == [c \in {"tags"} \cup (DOMAIN specParts(p) \cap paramBuilders) |-> specParts(p)[c]]

extractTags(parts) == parts["tags"]

\* The tags of the request replace the ones that a builder set.
Document(p, c, parts) ==
  [capability |-> c, provider |-> ResolveProvider(p, c), tags |-> extractTags(parts),
   parameters |-> Built(p, c, parts[c])]

\* Keys are taken in alphabetic order.
KeyOrder == <<"blockStorage", "cache", "cdn", "database", "dns", "fileStorage", "identity", "kubernetes",
              "loadBalancer", "messaging", "objectStorage", "observability", "secrets", "vm", "vpc">>

\* The k-th member of a set of numbers.
Nth(S, k) == CHOOSE i \in S : Cardinality({j \in S : j < i}) = k - 1

BuildXRs(p, parts) ==
  LET places == {i \in 1..Len(KeyOrder) : KeyOrder[i] \in DOMAIN parts}
  IN [k \in 1..Cardinality(places) |-> Document(p, KeyOrder[Nth(places, k)], parts)]

Supported(p) == \A c \in Enabled(p) : ResolveProvider(p, c) \in SupportedProviders[c]

\* What Render asks of a request before the fragments have their turn.
Admitted(p) ==
  /\ ValidateCatalogs
  /\ applyCatalog(p)
  /\ Validate(Defaulted(p)) /\ validateAtLeastOneCapability(Defaulted(p)) /\ validateCrossCutting(Defaulted(p))

\* The fragments validate and render in turn, up to the network: it panics.
UpToVPC == {"kubernetes", "vm", "database", "cache", "objectStorage", "blockStorage", "fileStorage", "vpc"}

Panics(p) ==
  LET q == Defaulted(p) IN
    /\ Admitted(p) /\ q.caps.vpc.enabled /\ ZonesPanic(q)
    /\ \A c \in Enabled(q) \cap UpToVPC : FragmentValidates(q)[c]

\* Whether Render returns documents, and which.
Rendered(p) ==
  LET q == Defaulted(p) IN
    /\ Admitted(p) /\ ~Panics(p)
    /\ \A c \in Enabled(q) : FragmentValidates(q)[c]
    /\ Supported(q)
    /\ BuildXRs(q, capabilityParts(q)) # << >>

Documents(p) == BuildXRs(Defaulted(p), capabilityParts(Defaulted(p)))

TemplateInit == request \in Requests /\ manifest = [state |-> "none", docs |-> << >>]

RenderManifests ==
  /\ manifest.state = "none"
  /\ manifest' = IF Rendered(request) THEN [state |-> "rendered", docs |-> Documents(request)]
                 ELSE [state |-> IF Panics(request) THEN "panic" ELSE "error", docs |-> << >>]
  /\ UNCHANGED request

TemplateSpec == TemplateInit /\ [][RenderManifests]_templateVars

-----------------------------------------------------------------------------
(* Properties.                                                              *)

DocumentsOf(m) == {m.docs[i] : i \in 1..Len(m.docs)}

\* A request that is rendered gets one resource for each capability it enables
\* and none besides, all that its catalogue item requires and nothing that it
\* forbids, each from a provider that the item allows and the engine supports,
\* each with the tags of the request: the item is checked against one lookup of
\* providers and the resources are built with another, and a part without a
\* builder is dropped (applyCatalog, Engine.Render and BuildXRs).
RenderedAsAllowed ==
  manifest.state = "rendered" =>
    LET cat == Catalogues[request.catalogueItem]
        rendered == {d.capability : d \in DocumentsOf(manifest)}
    IN /\ rendered = Enabled(request) /\ Len(manifest.docs) = Cardinality(rendered)
       /\ cat.required \subseteq rendered /\ cat.forbidden \cap rendered = {}
       /\ \A d \in DocumentsOf(manifest) :
            /\ d.provider \in cat.providers \cap SupportedProviders[d.capability]
            /\ {"cost-centre", "managed-by"} \subseteq DOMAIN d.tags
            /\ \A k \in DOMAIN request.extraTags : k \in DOMAIN d.tags /\ d.tags[k] = request.extraTags[k]

\* What validation demanded is what the resources say, after defaults, rendering
\* and the builders' conversions: a critical request gets replicas, flow logs and
\* observability, a restricted one versioned objects; provisioned storage has its
\* speed, a queue with dead letters its retries, a network its zones, a pool room.
\* Validation compares most numbers with zero and lets negative ones pass, so that
\* "some" is all that a resource can promise; a negative throughput is dropped.
\* What the builders drop is left out: zones of clusters and machines, retention
\* of backups, volumes, policies, HTTPS and WAF of a load balancer.
GuaranteesReachResources ==
  \A d \in DocumentsOf(manifest) :
    LET r == d.parameters IN
      CASE d.capability = "kubernetes" -> 2 <= r.minNodes /\ r.minNodes <= r.maxNodes
        [] d.capability = "vm" -> r.diskSizeGb # 0
        [] d.capability = "database" -> r.storageType = "io2" <=> r.iops # 0
        [] d.capability = "cache" -> Critical(request) => r.replicaCount >= 2
        [] d.capability = "objectStorage" -> Restricted(request) => r.versioning
        [] d.capability = "fileStorage" ->
             /\ r.throughput > 0 => r.throughputMode = "provisioned"
             /\ r.throughputMode = "provisioned" => r.throughput > 0 \/ request.caps.fileStorage.throughput < 0
        [] d.capability = "vpc" -> (Critical(request) => r.flowLogs) /\ (r.public > 0 => r.nat # 0) /\ r.zones # << >>
        [] d.capability = "loadBalancer" -> r.scheme = "internet-facing" => request.ingress \notin {"disabled", "internal"}
        [] d.capability = "dns" -> << >> \notin {r.records[i] : i \in 1..Len(r.records)}
        [] d.capability = "messaging" -> (r.queueCount # 0 \/ r.topicCount # 0) /\ (r.dlqEnabled => r.dlqMaxRetry # 0)
        [] OTHER -> Critical(request) => \E o \in DocumentsOf(manifest) : o.capability = "observability"
==============================================================================
