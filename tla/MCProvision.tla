----------------------------- MODULE MCProvision -----------------------------
(* Small instances for TLC: clients that commit two files at once ("git"),  *)
(* and provisioning jobs ("infra"), on one repository.                      *)
EXTENDS InfraModule, TLC

CONSTANTS c1, c2, j1, j2

VARIABLE part

\* A request with everything that a catalogue item wants: of one capability at
\* least, in good order.
Base ==
  [catalogueItem |-> "k8s_app", environment |-> "production", profile |-> "medium", availability |-> "high",
   residency |-> "eu", classification |-> "internal", ingress |-> "public", exposure |-> "public",
   dr |-> TRUE, secondary |-> "eu-central-1", backup |-> TRUE, ttl |-> "", costCentre |-> "CC-1",
   extraTags |-> [team |-> "core"], defaultProvider |-> "", missing |-> {}, caps |-> NoParams]

Good ==
  [NoParams EXCEPT
     !.kubernetes.size = "medium", !.kubernetes.multiAZ = TRUE,
     !.vm.count = 1, !.vm.family = "general", !.vm.size = "small", !.vm.os = "linux", !.vm.multiAZ = TRUE,
     !.database.engine = "postgres", !.database.tier = "standard", !.database.storage = 20, !.database.backup = TRUE,
     !.cache.engine = "redis", !.cache.tier = "clustered", !.cache.replicas = 2,
     !.objectStorage.class = "standard",
     !.blockStorage.volumes = <<[type |-> "ssd", size |-> 10, iops |-> 0]>>,
     !.fileStorage.multiAZ = TRUE,
     !.vpc.cidr = "valid", !.vpc.private = 1,
     !.messaging.tier = "standard", !.messaging.queues = 1,
     !.dns.zone = "example.org", !.loadBalancer.type = "application", !.loadBalancer.scheme = "internal",
     !.cdn.originType = "s3", !.identity.type = "service", !.secrets.provider = "aws"]

With(p, cs) == [p EXCEPT !.caps = [c \in Capabilities |-> [@[c] EXCEPT !.enabled = c \in cs]]]

\* For each item its required capabilities.
Plain(item) ==
  With([Base EXCEPT !.catalogueItem = item, !.caps = Good],
       IF item \in DOMAIN Catalogues THEN Catalogues[item].required ELSE {"kubernetes"})

\* Requests of up to two more capabilities, availabilities, classes and providers.
Combined ==
  {[With(Plain(item), Catalogues[item].required \cup {c, d})
      EXCEPT !.availability = a, !.classification = k, !.defaultProvider = o, !.caps[c].provider = q] :
     item \in DOMAIN Catalogues, c \in Capabilities, d \in {"observability", "vm", "objectStorage", "cdn"},
     a \in {"standard", "critical"}, k \in {"internal", "restricted"}, o \in {"", "gcp"}, q \in {"", "aws", "azure", "oci"}}

\* One capability with a field that is off, or that asks for more than the usual.
Odd ==
  LET G == Good IN
  [kubernetes |-> {[G.kubernetes EXCEPT !.size = ""], [G.kubernetes EXCEPT !.size = "xlarge", !.multiAZ = FALSE]},
   vm |-> {[G.vm EXCEPT !.count = 0], [G.vm EXCEPT !.spot = TRUE], [G.vm EXCEPT !.scaling = TRUE, !.min = 2, !.max = 1],
           [G.vm EXCEPT !.scaling = TRUE, !.max = 2, !.multiAZ = FALSE, !.os = "windows"],
           [G.vm EXCEPT !.disks = <<[type |-> "provisioned", iops |-> 0]>>]},
   database |-> {[G.database EXCEPT !.tier = "serverless"], [G.database EXCEPT !.backup = FALSE],
                 [G.database EXCEPT !.storageType = "provisioned"],
                 [G.database EXCEPT !.storageType = "provisioned", !.iops = -1],
                 [G.database EXCEPT !.storageType = "provisioned", !.iops = 3000, !.tier = "highly-available"]},
   cache |-> {[G.cache EXCEPT !.replicas = 1], [G.cache EXCEPT !.replicas = 0], [G.cache EXCEPT !.engine = "memcached"]},
   objectStorage |-> {[G.objectStorage EXCEPT !.class = ""], [G.objectStorage EXCEPT !.versioning = TRUE]},
   blockStorage |-> {[G.blockStorage EXCEPT !.volumes = << >>],
                     [G.blockStorage EXCEPT !.volumes = <<[type |-> "ssd", size |-> 0, iops |-> 0]>>]},
   fileStorage |-> {[G.fileStorage EXCEPT !.mode = "provisioned", !.throughput = t] : t \in {-1, 0, 64}},
   vpc |-> {[G.vpc EXCEPT !.cidr = "10.0.0.0"], [G.vpc EXCEPT !.private = 0], [G.vpc EXCEPT !.public = 1],
            [G.vpc EXCEPT !.public = 5, !.private = 5, !.nat = 1], [G.vpc EXCEPT !.public = 1, !.nat = -1],
            [G.vpc EXCEPT !.private = -1], [G.vpc EXCEPT !.private = MaxCapacity + 1, !.public = 1]},
   loadBalancer |-> {[G.loadBalancer EXCEPT !.scheme = "internet-facing", !.https = TRUE, !.waf = TRUE]},
   dns |-> {[G.dns EXCEPT !.records = <<<<"v">>, v>>] : v \in {<<"w">>, << >>}},
   cdn |-> {[G.cdn EXCEPT !.originType = ""]},
   messaging |-> {[G.messaging EXCEPT !.queues = 0], [G.messaging EXCEPT !.queues = -1, !.topics = 1], [G.messaging EXCEPT !.dlq = TRUE],
                  [G.messaging EXCEPT !.dlq = TRUE, !.retry = 3]},
   identity |-> {[G.identity EXCEPT !.type = "federated"], [G.identity EXCEPT !.type = "federated", !.federation = "idp"],
                 [G.identity EXCEPT !.policies = <<[effect |-> "Allow", resource |-> ""]>>]},
   secrets |-> {[G.secrets EXCEPT !.provider = ""], [G.secrets EXCEPT !.kms = "own"]},
   observability |-> {[G.observability EXCEPT !.logDays = 7]}]

Detailed ==
  UNION {{[With([Plain(item) EXCEPT !.caps[c] = f], Catalogues[item].required \cup {c, "observability"})
             EXCEPT !.availability = a, !.classification = k, !.ingress = i] :
            f \in Odd[c], a \in {"standard", "critical"}, k \in {"internal", "restricted"}, i \in {"public", "internal"}} :
         item \in DOMAIN Catalogues, c \in Capabilities}

\* A field of the request itself is off.
General ==
  UNION {{p, [p EXCEPT !.missing = {"owner"}], [p EXCEPT !.dr = FALSE], [p EXCEPT !.secondary = ""], [p EXCEPT !.backup = FALSE],
          [p EXCEPT !.ttl = "soon"], [p EXCEPT !.ttl = "a date"], [p EXCEPT !.profile = "small"], [p EXCEPT !.residency = "ap"],
          [p EXCEPT !.environment = "sandbox"], [p EXCEPT !.classification = ""], [p EXCEPT !.caps = NoParams],
          [p EXCEPT !.extraTags = ("cost-centre" :> "CC-2")]} :
           p \in {Plain("k8s_app"), Plain("vm_app"), Plain("data_proc"), Plain("unknown"), Plain(""),
                  With([Plain("k8s_app") EXCEPT !.availability = "critical"], {"kubernetes", "observability"})}}

ManyRequests == Combined \cup Detailed \cup General

\* The parameters of the jobs: an item that needs approval, one that does not, in
\* two sizes, one that cannot be rendered and one that panics.
SomeParams ==
  [app |-> Plain("k8s_app"), data |-> Plain("data_proc"),
   more |-> With(Plain("data_proc"), Enabled(Plain("data_proc")) \cup {"cache"}), bad |-> Plain("unknown"),
   dire |-> With([Plain("data_proc") EXCEPT !.caps.vpc.private = -1], Enabled(Plain("data_proc")) \cup {"vpc"})]

Job(flavour, params) ==
  [flavour |-> flavour, params |-> params, skipApproval |-> FALSE, skipHealth |-> FALSE, url |-> TRUE, maxAttempts |-> 2]

\* The second job has one attempt.
Two(x, y) == j1 :> x @@ j2 :> [y EXCEPT !.maxAttempts = 1]

\* Two jobs that want the same file alike or differently; one that is gated; one
\* that skips its checks; one without a callback_url, one that does not render, one
\* that takes the process down.
SomeJobs ==
  {Two([Job("github", "app") EXCEPT !.skipApproval = TRUE], Job("github", "app")),
   Two(Job("gitea", "data"), [Job("gitea", "more") EXCEPT !.skipApproval = TRUE, !.skipHealth = TRUE]),
   Two(Job("file", "data"), Job("file", "bad")),
   Two([Job("gitea", "data") EXCEPT !.url = FALSE], Job("gitea", "bad")),
   Two(Job("gitea", "dire"), Job("gitea", "bad"))}

OneJob == {Two(Job("gitea", "data"), Job("gitea", "bad"))}

\* Two files each, of which one or both are wanted differently by the other.
SomeFiles == {[k8s_app |-> "x", data_proc |-> "x"], [k8s_app |-> "y", data_proc |-> "x"]}

vars == <<part, gitVars, infraVars, templateVars>>

SomeTrees == [Paths -> {"x", Absent}]

\* In part "render" one request is rendered; in the others the one at hand is idle.
Init ==
  /\ part \in {"git", "infra", "render"}
  /\ GitInit /\ InfraInit
  /\ part # "infra" => job = CHOOSE js \in JobSets : TRUE
  /\ part # "git" => \A p \in Paths : Tip.tree[p] = Absent
  /\ \A j \in InfraJobs : part = "infra" <=> At(j, "queued")
  /\ IF part = "render" THEN TemplateInit
     ELSE request = "none" /\ manifest = [state |-> "none", docs |-> << >>]

\* In part "git" a client calls once, and nobody takes the result.
GitNext ==
  \E c \in GitClients \ InfraJobs :
    \/ \E flavour \in Flavours, files \in FileSets :
         /\ \A d \in GitClients : gitCall[d].flavour \in {"none", flavour}
         /\ CommitFiles(c, flavour, files)
    \/ GitStep(c)

Next ==
  \/ part = "git" /\ GitNext /\ UNCHANGED <<part, infraVars, templateVars>>
  \/ part = "infra" /\ InfraNext /\ UNCHANGED <<part, templateVars>>
  \/ part = "render" /\ RenderManifests /\ UNCHANGED <<part, gitVars, infraVars>>

JobRuns(j) == part = "infra" /\ InfraStep(j) /\ UNCHANGED <<part, templateVars>>
Decided1(j) == part = "infra" /\ Decide(j) /\ UNCHANGED <<part, templateVars>>

\* A run goes on until it ends; an approval request is decided or expires.
Fairness == \A j \in InfraJobs : WF_vars(JobRuns(j)) /\ WF_vars(Decided1(j))

Spec == Init /\ [][Next]_vars /\ Fairness
=============================================================================
