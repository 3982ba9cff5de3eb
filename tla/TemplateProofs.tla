--------------------------- MODULE TemplateProofs ---------------------------
(***************************************************************************)
(* What RenderManifests makes of a request, for every set of requests.     *)
(***************************************************************************)
EXTENDS Template, FiniteSetTheorems, FunctionTheorems, TLAPS

CapabilityNames ==
  {"kubernetes", "vm", "database", "cache", "objectStorage", "blockStorage", "fileStorage", "vpc", "loadBalancer",
   "dns", "cdn", "messaging", "identity", "secrets", "observability"}

LEMMA CapabilitiesAre == Capabilities = CapabilityNames
  BY DEF Capabilities, NoParams, CapabilityNames

\* A request as the decoder leaves it.
Decoded(p) == p = [x \in RequestFields |-> p[x]] /\ p.caps \in CapabilityParams

LEMMA CapsShape ==
  ASSUME NEW caps \in CapabilityParams
  PROVE  /\ DOMAIN caps = CapabilityNames
         /\ \A c \in CapabilityNames : caps[c].enabled \in BOOLEAN
  BY DEF CapabilityParams, CapabilityNames

\* applyCatalogDefaults, one capability at a time.
LEMMA DefaultsStep ==
  ASSUME NEW p, Decoded(p), NEW cat
  PROVE  LET q == applyCatalogDefaults(p, cat)
             k == [p.caps.kubernetes EXCEPT !.tier = Coalesce(@, cat.tier)]
             o == [p.caps.objectStorage EXCEPT !.versioning = @ \/ cat.versioning]
         IN  q = [p EXCEPT !.caps = [p.caps EXCEPT !.kubernetes = k, !.objectStorage = o]]
  BY DEF applyCatalogDefaults, Decoded, CapabilityParams, RequestFields

\* What the defaults leave of a request: all but a tier and a versioning.
SameButDefaults(p, q) ==
  /\ \A x \in RequestFields \ {"caps"} : q[x] = p[x]
  /\ \A c \in CapabilityNames \ {"kubernetes", "objectStorage"} : q.caps[c] = p.caps[c]
  /\ \A c \in CapabilityNames : q.caps[c].enabled = p.caps[c].enabled /\ q.caps[c].provider = p.caps[c].provider

LEMMA DefaultsKeep ==
  ASSUME NEW p, Decoded(p), NEW cat
  PROVE  SameButDefaults(p, applyCatalogDefaults(p, cat))
<1> DEFINE q == applyCatalogDefaults(p, cat)
           tier == Coalesce(p.caps.kubernetes.tier, cat.tier)
           versioning == p.caps.objectStorage.versioning \/ cat.versioning
           k == [p.caps.kubernetes EXCEPT !.tier = tier]
           o == [p.caps.objectStorage EXCEPT !.versioning = versioning]
           caps == [p.caps EXCEPT !.kubernetes = k, !.objectStorage = o]
<1>1. q = [p EXCEPT !.caps = caps]
  BY DefaultsStep
<1>2. p.caps \in CapabilityParams /\ DOMAIN p.caps = CapabilityNames
  BY CapsShape DEF Decoded
<1> HIDE DEF tier, versioning, q
<1>3. /\ k.enabled = p.caps.kubernetes.enabled /\ k.provider = p.caps.kubernetes.provider
      /\ o.enabled = p.caps.objectStorage.enabled /\ o.provider = p.caps.objectStorage.provider
  BY <1>2 DEF CapabilityParams
<1> HIDE DEF k, o
<1>4. /\ caps.kubernetes = k /\ caps.objectStorage = o
      /\ \A c \in CapabilityNames \ {"kubernetes", "objectStorage"} : caps[c] = p.caps[c]
  BY <1>2 DEF CapabilityNames
<1> HIDE DEF caps
<1>5. q.caps = caps /\ (\A x \in RequestFields \ {"caps"} : q[x] = p[x])
  BY <1>1 DEF Decoded, RequestFields
<1>6. \A c \in CapabilityNames : caps[c].enabled = p.caps[c].enabled /\ caps[c].provider = p.caps[c].provider
  BY <1>3, <1>4 DEF CapabilityNames
<1> QED
  BY <1>4, <1>5, <1>6 DEF SameButDefaults, q

LEMMA DefaultedKeeps ==
  ASSUME NEW p, Decoded(p)
  PROVE  SameButDefaults(p, Defaulted(p))
<1>1. CASE p.catalogueItem \in DOMAIN Catalogues
  BY <1>1, DefaultsKeep DEF Defaulted
<1>2. CASE p.catalogueItem \notin DOMAIN Catalogues
  BY <1>2 DEF Defaulted, SameButDefaults, CapabilityNames
<1> QED
  BY <1>1, <1>2

LEMMA SameFacts ==
  ASSUME NEW p, NEW q, SameButDefaults(p, q)
  PROVE  /\ Enabled(q) = Enabled(p)
         /\ Critical(q) <=> Critical(p)
         /\ Restricted(q) <=> Restricted(p)
         /\ q.ingress = p.ingress /\ q.extraTags = p.extraTags
         /\ \A c \in CapabilityNames : ResolveProvider(q, c) = ResolveProvider(p, c)
<1>1. Enabled(q) = Enabled(p)
  BY CapabilitiesAre DEF Enabled, SameButDefaults
<1>2. /\ q.availability = p.availability /\ q.classification = p.classification /\ q.ingress = p.ingress
      /\ q.extraTags = p.extraTags /\ q.defaultProvider = p.defaultProvider
  BY DEF SameButDefaults, RequestFields
<1>3. \A c \in CapabilityNames : q.caps[c].provider = p.caps[c].provider
  BY DEF SameButDefaults
<1> QED
  BY <1>1, <1>2, <1>3 DEF Critical, Restricted, ResolveProvider

-----------------------------------------------------------------------------
(* The documents.                                                           *)

\* Parts and documents go by capability.
LEMMA PartsAre ==
  ASSUME NEW q
  PROVE  LET parts == capabilityParts(q) IN
         /\ DOMAIN parts = {"tags"} \cup Enabled(q)
         /\ parts["tags"] = TagsRender(q)
         /\ \A c \in Enabled(q) : parts[c] = Part(q, c)
<1> DEFINE parts == capabilityParts(q)
           specs == specParts(q)
<1>1. Enabled(q) \subseteq Capabilities /\ "tags" \notin Capabilities /\ "compliance" \notin Capabilities
  BY CapabilitiesAre DEF Enabled, CapabilityNames
<1>2. /\ DOMAIN specs = {"tags", "compliance"} \cup Enabled(q)
      /\ \A c \in DOMAIN specs : specs[c] = Part(q, c)
  BY DEF specParts
<1>3. DOMAIN parts = {"tags"} \cup Enabled(q)
  BY <1>1, <1>2 DEF capabilityParts, paramBuilders
<1>4. \A c \in DOMAIN parts : parts[c] = Part(q, c)
  BY <1>1, <1>2, <1>3 DEF capabilityParts, paramBuilders
<1>5. Part(q, "tags") = TagsRender(q)
  BY DEF Part
<1> QED
  BY <1>3, <1>4, <1>5

\* The k-th of n numbers is one of them, and each is the k-th for some k.
LEMMA NthCounts ==
  ASSUME NEW n \in Nat, NEW S \in SUBSET (1..n)
  PROVE  /\ IsFiniteSet(S) /\ Cardinality(S) \in Nat
         /\ {Nth(S, k) : k \in 1..Cardinality(S)} = S
<1> DEFINE Below(i) == {j \in S : j < i}
           rank == [i \in S |-> Cardinality(Below(i)) + 1]
<1>1. IsFiniteSet(S) /\ Cardinality(S) \in Nat /\ S \subseteq Nat
  <2>1. IsFiniteSet(1..n)
    BY 1 \in Int, n \in Int, FS_Interval
  <2>2. IsFiniteSet(S)
    BY <2>1, FS_Subset
  <2> QED
    BY <2>2, FS_CardinalityType
<1>2. ASSUME NEW i \in S
      PROVE  Cardinality(Below(i)) \in Nat /\ Cardinality(Below(i)) < Cardinality(S)
  <2>1. IsFiniteSet(Below(i)) /\ Cardinality(Below(i)) <= Cardinality(S)
        /\ (Cardinality(S) = Cardinality(Below(i)) => S = Below(i))
    BY <1>1, FS_Subset
  <2>2. i \notin Below(i)
    OBVIOUS
  <2>3. Cardinality(Below(i)) \in Nat
    BY <2>1, FS_CardinalityType
  <2> HIDE DEF Below
  <2> QED
    BY <1>1, <2>1, <2>2, <2>3
<1>3. ASSUME NEW i \in S, NEW j \in S, i < j
      PROVE  Cardinality(Below(i)) < Cardinality(Below(j))
  <2>1. Below(i) \in SUBSET Below(j) /\ i \in Below(j) /\ i \notin Below(i)
    <3>1. i \in Nat /\ j \in Nat
      BY <1>1
    <3>2. ASSUME NEW m \in Below(i) PROVE m \in Below(j)
      <4>1. m \in S /\ m < i
        BY <3>2
      <4>2. m \in Nat
        BY <1>1, <4>1
      <4>3. m < j
        BY <1>3, <3>1, <4>1, <4>2
      <4> QED
        BY <4>1, <4>3
    <3>3. i \in Below(j)
      BY <1>3
    <3>4. i \notin Below(i)
      BY <3>1
    <3> QED
      BY <3>2, <3>3, <3>4
  <2>2. IsFiniteSet(Below(j))
    BY <1>1, FS_Subset
  <2> HIDE DEF Below
  <2> QED
    BY <1>2, <2>1, <2>2, FS_Subset
<1> HIDE DEF Below
<1>4. rank \in Injection(S, 1..Cardinality(S))
  <2>1. rank \in [S -> 1..Cardinality(S)]
    BY <1>1, <1>2
  <2>2. ASSUME NEW i \in S, NEW j \in S, rank[i] = rank[j] PROVE i = j
    BY <1>2, <1>3, <2>2
  <2> QED
    BY <2>1, <2>2, Fun_IsInj
<1>5. rank \in Surjection(S, 1..Cardinality(S))
  <2>1. IsFiniteSet(1..Cardinality(S)) /\ Cardinality(1..Cardinality(S)) = Cardinality(S)
    BY <1>1, FS_Interval
  <2> QED
    BY <1>4, <2>1, FS_Injection
<1>6. ASSUME NEW k \in 1..Cardinality(S) PROVE \E i \in S : Cardinality(Below(i)) = k - 1
  <2>1. PICK i \in S : rank[i] = k
    <3> HIDE DEF rank
    <3> QED
      BY <1>5 DEF Surjection
  <2> QED
    BY <1>1, <1>2, <2>1
<1>7. \A k \in 1..Cardinality(S) : Nth(S, k) \in S /\ Cardinality(Below(Nth(S, k))) = k - 1
  BY <1>6 DEF Nth, Below
<1>8. ASSUME NEW i \in S PROVE \E k \in 1..Cardinality(S) : Nth(S, k) = i
  <2> DEFINE k == Cardinality(Below(i)) + 1
  <2>1. k \in 1..Cardinality(S) /\ k - 1 = Cardinality(Below(i))
    BY <1>1, <1>2
  <2>2. Nth(S, k) \in S /\ Cardinality(Below(Nth(S, k))) = Cardinality(Below(i))
    BY <1>7, <2>1
  <2> HIDE DEF k
  <2>3. Nth(S, k) = i
    <3> DEFINE m == Nth(S, k)
    <3> HIDE DEF m
    <3>1. m \in S /\ Cardinality(Below(m)) = Cardinality(Below(i))
      BY <2>2 DEF m
    <3>2. m \in Nat /\ i \in Nat /\ Cardinality(Below(i)) \in Nat
      BY <1>1, <1>2, <3>1
    <3>3. ~(m < i) /\ ~(i < m)
      BY <1>3, <3>1, <3>2
    <3> QED
      BY <3>2, <3>3 DEF m
  <2> QED
    BY <2>1, <2>3
<1> QED
  BY <1>1, <1>7, <1>8

\* The alphabet has each capability once.
LEMMA KeyOrderIs ==
  /\ Len(KeyOrder) = 15
  /\ \A i \in 1..15 : KeyOrder[i] \in CapabilityNames
  /\ \A c \in CapabilityNames : \E i \in 1..15 : KeyOrder[i] = c
  /\ \A i, j \in 1..15 : KeyOrder[i] = KeyOrder[j] => i = j
<1>1. Len(KeyOrder) = 15
  BY DEF KeyOrder
<1>2. \A i \in 1..15 : KeyOrder[i] \in CapabilityNames
  BY DEF KeyOrder, CapabilityNames
<1>3. \A c \in CapabilityNames : \E i \in 1..15 : KeyOrder[i] = c
  BY DEF KeyOrder, CapabilityNames
<1>4. \A i, j \in 1..15 : KeyOrder[i] = KeyOrder[j] => i = j
  BY DEF KeyOrder
<1> QED
  BY <1>1, <1>2, <1>3, <1>4

\* One document for each enabled capability.
LEMMA DocumentsAre ==
  ASSUME NEW q
  PROVE  LET docs == BuildXRs(q, capabilityParts(q)) IN
         /\ IsFiniteSet(Enabled(q)) /\ Len(docs) = Cardinality(Enabled(q))
         /\ {docs[k] : k \in 1..Len(docs)} = {Document(q, c, capabilityParts(q)) : c \in Enabled(q)}
<1> DEFINE parts == capabilityParts(q)
           places == {i \in 1..15 : KeyOrder[i] \in Enabled(q)}
           docs == BuildXRs(q, parts)
           key == [i \in places |-> KeyOrder[i]]
<1>1. Enabled(q) \subseteq CapabilityNames /\ "tags" \notin CapabilityNames
  BY CapabilitiesAre DEF Enabled, CapabilityNames
<1>2. DOMAIN parts = {"tags"} \cup Enabled(q)
  BY PartsAre
<1>3. places = {i \in 1..Len(KeyOrder) : KeyOrder[i] \in DOMAIN parts}
  BY <1>1, <1>2, KeyOrderIs
<1>4. docs = [k \in 1..Cardinality(places) |-> Document(q, KeyOrder[Nth(places, k)], parts)]
  BY <1>3 DEF BuildXRs
<1>5. places \in SUBSET (1..15)
  OBVIOUS
<1>6. /\ \A i \in places : KeyOrder[i] \in Enabled(q)
      /\ \A c \in Enabled(q) : \E i \in places : KeyOrder[i] = c
      /\ \A i, j \in places : KeyOrder[i] = KeyOrder[j] => i = j
  BY <1>1, KeyOrderIs
<1> HIDE DEF places, parts, docs
<1>7. /\ IsFiniteSet(places) /\ Cardinality(places) \in Nat
      /\ {Nth(places, k) : k \in 1..Cardinality(places)} = places
  BY <1>5, 15 \in Nat, NthCounts
<1>8. key \in Bijection(places, Enabled(q))
  <2>1. key \in [places -> Enabled(q)]
    BY <1>6
  <2>2. \A i, j \in places : key[i] = key[j] => i = j
    BY <1>6
  <2>3. \A c \in Enabled(q) : \E i \in places : key[i] = c
    BY <1>6
  <2> HIDE DEF key
  <2>4. key \in Injection(places, Enabled(q))
    BY <2>1, <2>2, Fun_IsInj
  <2>5. key \in Surjection(places, Enabled(q))
    BY <2>1, <2>3, Fun_IsSurj
  <2> QED
    BY <2>4, <2>5 DEF Bijection
<1>9. IsFiniteSet(Enabled(q)) /\ Cardinality(Enabled(q)) = Cardinality(places)
  <2>1. ExistsBijection(places, Enabled(q))
    BY <1>8 DEF ExistsBijection
  <2> QED
    BY <1>7, <2>1, FS_Bijection
<1>10. Len(docs) = Cardinality(places) /\ DOMAIN docs = 1..Cardinality(places)
  BY <1>4, <1>7
<1>11. ASSUME NEW k \in 1..Len(docs) PROVE \E c \in Enabled(q) : docs[k] = Document(q, c, parts)
  <2>1. Nth(places, k) \in places
    BY <1>7, <1>10
  <2> QED
    BY <1>4, <1>6, <1>10, <2>1
<1>12. ASSUME NEW c \in Enabled(q) PROVE \E k \in 1..Len(docs) : docs[k] = Document(q, c, parts)
  <2>1. PICK i \in places : KeyOrder[i] = c
    BY <1>6
  <2>2. PICK k \in 1..Cardinality(places) : Nth(places, k) = i
    BY <1>7
  <2> QED
    BY <1>4, <1>10, <2>1, <2>2
<1>13. {docs[k] : k \in 1..Len(docs)} = {Document(q, c, parts) : c \in Enabled(q)}
  BY <1>11, <1>12
<1> QED
  BY <1>9, <1>10, <1>13 DEF docs, parts

LEMMA DocumentIs ==
  ASSUME NEW q, NEW c \in Enabled(q)
  PROVE  Document(q, c, capabilityParts(q)) =
           [capability |-> c, provider |-> ResolveProvider(q, c), tags |-> TagsRender(q),
            parameters |-> Built(q, c, Part(q, c))]
  BY PartsAre DEF Document, extractTags

-----------------------------------------------------------------------------
(* The states of a rendering.                                               *)

\* Nothing but the documents of the request is rendered, and only if it passed.
ManifestInv ==
  /\ request \in Requests
  /\ \/ manifest.state \in {"none", "error", "panic"} /\ manifest.docs = << >>
     \/ manifest.state = "rendered" /\ manifest.docs = Documents(request) /\ Rendered(request)

LEMMA ManifestInvHolds == TemplateSpec => []ManifestInv
<1>1. TemplateInit => ManifestInv
  BY DEF TemplateInit, ManifestInv
<1>2. ManifestInv /\ [RenderManifests]_templateVars => ManifestInv'
  <2> SUFFICES ASSUME ManifestInv, [RenderManifests]_templateVars
               PROVE  ManifestInv'
    OBVIOUS
  <2>1. CASE RenderManifests /\ Rendered(request)
    BY <2>1 DEF RenderManifests, ManifestInv
  <2>2. CASE RenderManifests /\ ~Rendered(request)
    BY <2>2 DEF RenderManifests, ManifestInv
  <2>3. CASE UNCHANGED templateVars
    BY <2>3 DEF templateVars, ManifestInv
  <2> QED
    BY <2>1, <2>2, <2>3
<1> QED
  BY <1>1, <1>2, PTL DEF TemplateSpec

\* What every document of a rendered manifest is.
LEMMA RenderedDocuments ==
  ASSUME ManifestInv, manifest.state = "rendered"
  PROVE  LET q == Defaulted(request) IN
         /\ Rendered(request) /\ Decoded(request) /\ SameButDefaults(request, q)
         /\ IsFiniteSet(Enabled(q)) /\ Len(manifest.docs) = Cardinality(Enabled(q))
         /\ DocumentsOf(manifest) =
              {[capability |-> c, provider |-> ResolveProvider(q, c), tags |-> TagsRender(q),
                parameters |-> Built(q, c, Part(q, c))] : c \in Enabled(q)}
<1> DEFINE q == Defaulted(request)
           docs == BuildXRs(q, capabilityParts(q))
<1>1. Rendered(request) /\ Decoded(request) /\ manifest.docs = docs
  BY RequestsAssumption DEF ManifestInv, Documents, Decoded
<1>2. SameButDefaults(request, q)
  BY <1>1, DefaultedKeeps
<1>3. /\ IsFiniteSet(Enabled(q)) /\ Len(docs) = Cardinality(Enabled(q))
      /\ {docs[k] : k \in 1..Len(docs)} = {Document(q, c, capabilityParts(q)) : c \in Enabled(q)}
  BY DocumentsAre
<1>4. DocumentsOf(manifest) = {Document(q, c, capabilityParts(q)) : c \in Enabled(q)}
  BY <1>1, <1>3 DEF DocumentsOf
<1> HIDE DEF q
<1>5. \A c \in Enabled(q) : Document(q, c, capabilityParts(q)) =
        [capability |-> c, provider |-> ResolveProvider(q, c), tags |-> TagsRender(q),
         parameters |-> Built(q, c, Part(q, c))]
  BY DocumentIs
<1>6. DocumentsOf(manifest) =
        {[capability |-> c, provider |-> ResolveProvider(q, c), tags |-> TagsRender(q),
          parameters |-> Built(q, c, Part(q, c))] : c \in Enabled(q)}
  BY <1>4, <1>5
<1> QED
  BY <1>1, <1>2, <1>3, <1>6 DEF q

LEMMA TagsAre ==
  ASSUME NEW q
  PROVE  /\ {"cost-centre", "managed-by"} \subseteq DOMAIN TagsRender(q)
         /\ \A k \in DOMAIN q.extraTags : k \in DOMAIN TagsRender(q) /\ TagsRender(q)[k] = q.extraTags[k]
  BY DEF TagsRender

\* No catalogue leaves its providers open.
LEMMA CataloguesAre ==
  ASSUME NEW name \in DOMAIN Catalogues
  PROVE  Catalogues[name].providers # {}
<1>1. K8sApp.providers # {} /\ VMApp.providers # {} /\ DataProc.providers # {}
  BY DEF K8sApp, VMApp, DataProc
<1>2. Catalogues[name] \in {K8sApp, VMApp, DataProc}
  BY DEF Catalogues
<1> QED
  BY <1>1, <1>2

LEMMA AsAllowed ==
  ASSUME ManifestInv
  PROVE  RenderedAsAllowed
<1> SUFFICES ASSUME manifest.state = "rendered"
             PROVE  RenderedAsAllowed
  BY DEF RenderedAsAllowed
<1> DEFINE q == Defaulted(request)
           cat == Catalogues[request.catalogueItem]
           rendered == {d.capability : d \in DocumentsOf(manifest)}
           Doc(c) == [capability |-> c, provider |-> ResolveProvider(q, c), tags |-> TagsRender(q),
                      parameters |-> Built(q, c, Part(q, c))]
<1>1. /\ Rendered(request) /\ Decoded(request) /\ SameButDefaults(request, q)
      /\ Len(manifest.docs) = Cardinality(Enabled(q))
      /\ DocumentsOf(manifest) = {Doc(c) : c \in Enabled(q)}
  BY RenderedDocuments
<1>2. /\ Enabled(q) = Enabled(request) /\ q.extraTags = request.extraTags
      /\ \A c \in CapabilityNames : ResolveProvider(q, c) = ResolveProvider(request, c)
  BY <1>1, SameFacts
<1>3. Admitted(request) /\ Supported(q)
  BY <1>1 DEF Rendered
<1>4. applyCatalog(request) /\ Validate(q)
  BY <1>3 DEF Admitted
<1>5. request.catalogueItem # ""
  <2>1. q.catalogueItem # ""
    BY <1>4 DEF Validate
  <2> QED
    BY <1>1, <2>1 DEF SameButDefaults, RequestFields
<1>6. request.catalogueItem \in DOMAIN Catalogues /\ ValidateCapabilities(cat, request)
  BY <1>4, <1>5 DEF applyCatalog
<1>7. rendered = Enabled(request)
  <2>1. \A c \in Enabled(q) : Doc(c).capability = c
    OBVIOUS
  <2> HIDE DEF Doc, q
  <2> QED
    BY <1>1, <1>2, <2>1
<1>8. Enabled(request) \subseteq CapabilityNames
  BY CapabilitiesAre DEF Enabled
<1>9. cat.required \subseteq rendered /\ cat.forbidden \cap rendered = {}
  BY <1>6, <1>7 DEF ValidateCapabilities
<1>10. ASSUME NEW c \in Enabled(request)
       PROVE  /\ ResolveProvider(q, c) \in cat.providers
              /\ ResolveProvider(q, c) \in SupportedProviders[c]
  <2>1. Among(ResolveProvider(request, c), cat.providers)
    BY <1>6 DEF ValidateCapabilities, ResolveProvider
  <2>2. ResolveProvider(request, c) \in cat.providers
    BY <1>6, <2>1, CataloguesAre DEF Among
  <2>3. ResolveProvider(q, c) \in SupportedProviders[c]
    BY <1>2, <1>3 DEF Supported
  <2> QED
    BY <1>2, <1>8, <2>2, <2>3
<1>11. ASSUME NEW d \in DocumentsOf(manifest)
       PROVE  /\ d.provider \in cat.providers \cap SupportedProviders[d.capability]
              /\ {"cost-centre", "managed-by"} \subseteq DOMAIN d.tags
              /\ \A k \in DOMAIN request.extraTags : k \in DOMAIN d.tags /\ d.tags[k] = request.extraTags[k]
  <2>1. PICK c \in Enabled(request) : d = Doc(c)
    BY <1>1, <1>2
  <2>2. d.capability = c /\ d.provider = ResolveProvider(q, c) /\ d.tags = TagsRender(q)
    BY <2>1
  <2> HIDE DEF q, Doc, cat
  <2> QED
    BY <1>2, <1>10, <2>2, TagsAre
<1> HIDE DEF q, cat, Doc
<1> QED
  BY <1>1, <1>2, <1>7, <1>9, <1>11 DEF RenderedAsAllowed, cat

\* Rendered documents are the request's: one for each capability that it enables,
\* as its catalogue item, the engine and its tags say, whatever the request
\* (applyCatalog, Engine.Render and BuildXRs).
THEOREM RenderedAsAllowedHolds == TemplateSpec => []RenderedAsAllowed
<1>1. ManifestInv => RenderedAsAllowed
  BY AsAllowed
<1> QED
  BY <1>1, ManifestInvHolds, PTL

-----------------------------------------------------------------------------
(* What each builder makes of a request that its fragment let pass.         *)

\* The resource of a capability, and whether its fragment had no objection.
Resource(q, c) == Built(q, c, Part(q, c))
Passed(q, c) == FragmentValidates(q)[c]

LEMMA KubernetesPool ==
  ASSUME NEW q
  PROVE  LET r == Resource(q, "kubernetes") IN 2 <= r.minNodes /\ r.minNodes <= r.maxNodes
<1> DEFINE k == q.caps.kubernetes
           pool == KubernetesNodePool(k.size, k.tier)
<1>1. Resource(q, "kubernetes") = buildKubernetesParams(q, KubernetesRender(q))
  BY DEF Resource, Built, Part
<1>2. Resource(q, "kubernetes").minNodes = pool.minNodes /\ Resource(q, "kubernetes").maxNodes = pool.maxNodes
  BY <1>1 DEF buildKubernetesParams, KubernetesRender
<1>3. 2 <= pool.minNodes /\ pool.minNodes <= pool.maxNodes
  BY DEF KubernetesNodePool
<1> QED
  BY <1>2, <1>3

LEMMA MachineDisk ==
  ASSUME NEW q
  PROVE  Resource(q, "vm").diskSizeGb # 0
<1>1. Resource(q, "vm") = buildVMParams(q, VMRender(q))
  BY DEF Resource, Built, Part
<1>2. Resource(q, "vm").diskSizeGb = CoalesceInt(q.caps.vm.bootGiB, IF q.caps.vm.os = "windows" THEN 100 ELSE 30)
  BY <1>1 DEF buildVMParams, VMRender
<1> QED
  BY <1>2 DEF CoalesceInt

LEMMA DatabaseSpeed ==
  ASSUME NEW q, Passed(q, "database")
  PROVE  LET r == Resource(q, "database") IN r.storageType = "io2" <=> r.iops # 0
<1> DEFINE db == q.caps.database
           r == Resource(q, "database")
<1>1. r = buildDatabaseParams(q, DatabaseRender(q))
  BY DEF Resource, Built, Part
<1>2. /\ r.storageType = DiskTypeToCloud(Coalesce(db.storageType, "ssd"))
      /\ r.iops = (IF db.storageType = "provisioned" THEN db.iops ELSE 0)
  BY <1>1 DEF buildDatabaseParams, DatabaseRender
<1>3. db.storageType = "provisioned" => db.iops # 0
  BY DEF Passed, FragmentValidates, DatabaseValidate
<1> HIDE DEF r
<1>4. r.storageType = "io2" <=> db.storageType = "provisioned"
  BY <1>2 DEF DiskTypeToCloud, Coalesce
<1> QED
  BY <1>2, <1>3, <1>4 DEF r

LEMMA CacheReplicas ==
  ASSUME NEW q, Passed(q, "cache"), Critical(q)
  PROVE  Resource(q, "cache").replicaCount >= 2
<1>1. Resource(q, "cache") = buildCacheParams(q, CacheRender(q))
  BY DEF Resource, Built, Part
<1>2. Resource(q, "cache").replicaCount = q.caps.cache.replicas
  BY <1>1 DEF buildCacheParams, CacheRender
<1>3. q.caps.cache.replicas >= 2
  BY DEF Passed, FragmentValidates, CacheValidate
<1> QED
  BY <1>2, <1>3

LEMMA ObjectVersions ==
  ASSUME NEW q, Passed(q, "objectStorage"), Restricted(q)
  PROVE  Resource(q, "objectStorage").versioning
<1>1. Resource(q, "objectStorage") = buildObjectStoreParams(q, ObjectStorageRender(q))
  BY DEF Resource, Built, Part
<1>2. Resource(q, "objectStorage").versioning = q.caps.objectStorage.versioning
  BY <1>1 DEF buildObjectStoreParams, ObjectStorageRender
<1>3. q.caps.objectStorage.versioning
  BY DEF Passed, FragmentValidates, ObjectStorageValidate
<1> QED
  BY <1>2, <1>3

LEMMA FileThroughput ==
  ASSUME NEW q, Passed(q, "fileStorage"), q.caps.fileStorage.throughput \in Int
  PROVE  LET r == Resource(q, "fileStorage") IN
         /\ r.throughput > 0 => r.throughputMode = "provisioned"
         /\ r.throughputMode = "provisioned" => r.throughput > 0 \/ q.caps.fileStorage.throughput < 0
<1> DEFINE fs == q.caps.fileStorage
           in == FileStorageRender(q)
           r == Resource(q, "fileStorage")
<1>1. r = buildFileStorageParams(q, in)
  BY DEF Resource, Built, Part
<1>2. /\ in.throughputMode = Coalesce(fs.mode, "bursting")
      /\ in.throughput = (IF fs.mode = "provisioned" THEN fs.throughput ELSE 0)
  BY DEF FileStorageRender
<1>3. fs.mode = "provisioned" => fs.throughput # 0
  BY DEF Passed, FragmentValidates, FileStorageValidate
<1>4. /\ r.throughputMode = in.throughputMode
      /\ r.throughput = (IF in.throughputMode = "provisioned" /\ in.throughput > 0 THEN in.throughput ELSE 0)
  BY <1>1 DEF buildFileStorageParams
<1>5. in.throughputMode = "provisioned" <=> fs.mode = "provisioned"
  BY <1>2 DEF Coalesce
<1> HIDE DEF r, in
<1>6. CASE fs.mode = "provisioned"
  <2>1. r.throughput = (IF fs.throughput > 0 THEN fs.throughput ELSE 0)
    BY <1>2, <1>4, <1>5, <1>6
  <2>2. fs.throughput > 0 \/ fs.throughput < 0
    BY <1>3, <1>6
  <2> QED
    BY <1>4, <1>5, <1>6, <2>1, <2>2 DEF r
<1>7. CASE fs.mode # "provisioned"
  <2>1. r.throughputMode # "provisioned" /\ r.throughput = 0
    BY <1>4, <1>5, <1>7
  <2> QED
    BY <2>1 DEF r
<1> QED
  BY <1>6, <1>7

\* RegionAZs is asked for one zone at least: none would be a panic.
LEMMA NetworkZones ==
  ASSUME NEW q, Passed(q, "vpc"), ~ZonesPanic(q), q.caps.vpc.private \in Int, q.caps.vpc.flowLogs \in BOOLEAN
  PROVE  LET r == Resource(q, "vpc") IN
         (Critical(q) => r.flowLogs) /\ (r.public > 0 => r.nat # 0) /\ r.zones # << >>
<1> DEFINE v == q.caps.vpc
           r == Resource(q, "vpc")
           zones == RegionAZs(CoalesceInt(v.private, 3))
<1>1. r = VPCRender(q)
  BY DEF Resource, Built, Part, buildVPCParams
<1>2. r.public = v.public /\ r.nat = v.nat /\ r.zones = zones /\ (Critical(q) => r.flowLogs)
  <2> DEFINE logs == v.flowLogs \/ Critical(q)
  <2>1. r = [private |-> v.private, public |-> v.public, nat |-> v.nat, flowLogs |-> logs, zones |-> zones]
    BY <1>1 DEF VPCRender
  <2>2. Critical(q) => logs
    OBVIOUS
  <2> HIDE DEF r, v, zones, logs
  <2>3. r.public = v.public /\ r.nat = v.nat /\ r.zones = zones /\ r.flowLogs = logs
    BY <2>1
  <2> QED
    BY <2>2, <2>3
<1>3. v.private # 0 /\ (v.public > 0 => v.nat # 0)
  BY DEF Passed, FragmentValidates, VPCValidate
<1>4. v.private >= 1 /\ CoalesceInt(v.private, 3) = v.private
  BY <1>3 DEF ZonesPanic, CoalesceInt
<1>5. Len(zones) >= 1
  <2> DEFINE n == IF v.private < 4 THEN v.private ELSE 4
  <2>1. n \in 1..4
    BY <1>4
  <2>2. zones = SubSeq(<<"a", "b", "c", "d">>, 1, n)
    BY <1>4 DEF RegionAZs
  <2>3. Len(SubSeq(<<"a", "b", "c", "d">>, 1, n)) = n
    BY <2>1
  <2> QED
    BY <2>1, <2>2, <2>3
<1>6. zones # << >>
  BY <1>5
<1> HIDE DEF r, zones
<1> QED
  BY <1>2, <1>3, <1>6 DEF r

LEMMA BalancerScheme ==
  ASSUME NEW q, Passed(q, "loadBalancer")
  PROVE  Resource(q, "loadBalancer").scheme = "internet-facing" => q.ingress \notin {"disabled", "internal"}
<1>1. Resource(q, "loadBalancer") = buildLoadBalancerParams(q, LoadBalancerRender(q))
  BY DEF Resource, Built, Part
<1>2. Resource(q, "loadBalancer").scheme = q.caps.loadBalancer.scheme
  BY <1>1 DEF buildLoadBalancerParams, LoadBalancerRender
<1>3. q.caps.loadBalancer.scheme = "internet-facing" => q.ingress \notin {"disabled", "internal"}
  BY DEF Passed, FragmentValidates, LoadBalancerValidate
<1> QED
  BY <1>2, <1>3

LEMMA DNSRecords ==
  ASSUME NEW q, Passed(q, "dns")
  PROVE  LET r == Resource(q, "dns") IN << >> \notin {r.records[i] : i \in 1..Len(r.records)}
<1>1. Resource(q, "dns") = buildDNSParams(q, DNSRender(q))
  BY DEF Resource, Built, Part
<1>2. Resource(q, "dns").records = q.caps.dns.records
  BY <1>1 DEF buildDNSParams, DNSRender
<1>3. \A i \in 1..Len(q.caps.dns.records) : q.caps.dns.records[i] # << >>
  BY DEF Passed, FragmentValidates, DNSValidate
<1> QED
  BY <1>2, <1>3

LEMMA MessagingRetries ==
  ASSUME NEW q, Passed(q, "messaging")
  PROVE  LET r == Resource(q, "messaging") IN
         (r.queueCount # 0 \/ r.topicCount # 0) /\ (r.dlqEnabled => r.dlqMaxRetry # 0)
<1> DEFINE r == Resource(q, "messaging")
           m == q.caps.messaging
<1>1. r = buildMessagingParams(q, MessagingRender(q))
  BY DEF Resource, Built, Part
<1>2. r.queueCount = m.queues /\ r.topicCount = m.topics /\ r.dlqEnabled = m.dlq /\ r.dlqMaxRetry = m.retry
  BY <1>1 DEF buildMessagingParams
<1>3. (m.queues # 0 \/ m.topics # 0) /\ (m.dlq => m.retry # 0)
  BY DEF Passed, FragmentValidates, MessagingValidate
<1> QED
  BY <1>2, <1>3

LEMMA Guaranteed ==
  ASSUME ManifestInv, manifest.state = "rendered", NEW c \in Enabled(Defaulted(request))
  PROVE  LET r == Resource(Defaulted(request), c) IN
         CASE c = "kubernetes" -> 2 <= r.minNodes /\ r.minNodes <= r.maxNodes
           [] c = "vm" -> r.diskSizeGb # 0
           [] c = "database" -> r.storageType = "io2" <=> r.iops # 0
           [] c = "cache" -> Critical(request) => r.replicaCount >= 2
           [] c = "objectStorage" -> Restricted(request) => r.versioning
           [] c = "fileStorage" ->
                /\ r.throughput > 0 => r.throughputMode = "provisioned"
                /\ r.throughputMode = "provisioned" => r.throughput > 0 \/ request.caps.fileStorage.throughput < 0
           [] c = "vpc" -> (Critical(request) => r.flowLogs) /\ (r.public > 0 => r.nat # 0) /\ r.zones # << >>
           [] c = "loadBalancer" -> r.scheme = "internet-facing" => request.ingress \notin {"disabled", "internal"}
           [] c = "dns" -> << >> \notin {r.records[i] : i \in 1..Len(r.records)}
           [] c = "messaging" -> (r.queueCount # 0 \/ r.topicCount # 0) /\ (r.dlqEnabled => r.dlqMaxRetry # 0)
           [] OTHER -> Critical(request) => \E o \in DocumentsOf(manifest) : o.capability = "observability"
<1> DEFINE q == Defaulted(request)
           r == Resource(q, c)
<1>1. Rendered(request) /\ Decoded(request) /\ SameButDefaults(request, q)
  BY RenderedDocuments
<1>2. /\ Enabled(q) = Enabled(request) /\ (Critical(q) <=> Critical(request))
      /\ (Restricted(q) <=> Restricted(request)) /\ q.ingress = request.ingress
  BY <1>1, SameFacts
<1>3. /\ q.caps.fileStorage = request.caps.fileStorage /\ q.caps.vpc = request.caps.vpc
  BY <1>1 DEF SameButDefaults, CapabilityNames
<1>4. /\ request.caps.fileStorage.throughput \in Int
      /\ request.caps.vpc.private \in Int /\ request.caps.vpc.flowLogs \in BOOLEAN
  BY <1>1 DEF Decoded, CapabilityParams
<1>5. Passed(q, c)
  BY <1>1 DEF Rendered, Passed
<1>6. Admitted(request) /\ ~Panics(request) /\ \A x \in Enabled(q) : FragmentValidates(q)[x]
  BY <1>1 DEF Rendered
<1>7. ASSUME c = "vpc" PROVE ~ZonesPanic(q)
  <2>1. q.caps.vpc.enabled
    BY <1>7 DEF Enabled
  <2> HIDE DEF q
  <2> QED
    BY <1>6, <2>1 DEF Panics, q
<1>8. ASSUME Critical(request)
      PROVE  \E o \in DocumentsOf(manifest) : o.capability = "observability"
  <2>1. q.caps.observability.enabled
    BY <1>2, <1>6, <1>8 DEF Admitted, validateCrossCutting
  <2>2. "observability" \in Enabled(q)
    BY <2>1, CapabilitiesAre DEF Enabled, CapabilityNames
  <2> DEFINE o == [capability |-> "observability", provider |-> ResolveProvider(q, "observability"),
                   tags |-> TagsRender(q), parameters |-> Built(q, "observability", Part(q, "observability"))]
  <2>3. o \in DocumentsOf(manifest)
    BY <2>2, RenderedDocuments
  <2>4. o.capability = "observability"
    OBVIOUS
  <2> QED
    BY <2>3, <2>4
<1> HIDE DEF q
<1>9. CASE c = "kubernetes"
  BY <1>9, KubernetesPool DEF q
<1>10. CASE c = "vm"
  BY <1>10, MachineDisk DEF q
<1>11. CASE c = "database"
  BY <1>5, <1>11, DatabaseSpeed DEF q
<1>12. CASE c = "cache"
  BY <1>2, <1>5, <1>12, CacheReplicas DEF q
<1>13. CASE c = "objectStorage"
  BY <1>2, <1>5, <1>13, ObjectVersions DEF q
<1>14. CASE c = "fileStorage"
  BY <1>3, <1>4, <1>5, <1>14, FileThroughput DEF q
<1>15. CASE c = "vpc"
  BY <1>2, <1>3, <1>4, <1>5, <1>7, <1>15, NetworkZones DEF q
<1>16. CASE c = "loadBalancer"
  BY <1>2, <1>5, <1>16, BalancerScheme DEF q
<1>17. CASE c = "dns"
  BY <1>5, <1>17, DNSRecords DEF q
<1>18. CASE c = "messaging"
  BY <1>5, <1>18, MessagingRetries DEF q
<1>19. CASE c \notin {"kubernetes", "vm", "database", "cache", "objectStorage", "fileStorage", "vpc", "loadBalancer",
                      "dns", "messaging"}
  BY <1>8, <1>19
<1> QED
  BY <1>9, <1>10, <1>11, <1>12, <1>13, <1>14, <1>15, <1>16, <1>17, <1>18, <1>19

LEMMA GuaranteesReach ==
  ASSUME ManifestInv
  PROVE  GuaranteesReachResources
<1> DEFINE q == Defaulted(request)
<1>1. CASE manifest.state = "rendered"
  <2> SUFFICES ASSUME NEW d \in DocumentsOf(manifest)
               PROVE  GuaranteesReachResources!(d)
    BY DEF GuaranteesReachResources
  <2>1. PICK c \in Enabled(q) : d = [capability |-> c, provider |-> ResolveProvider(q, c), tags |-> TagsRender(q),
                                     parameters |-> Built(q, c, Part(q, c))]
    BY <1>1, RenderedDocuments
  <2>2. d.capability = c /\ d.parameters = Resource(q, c)
    BY <2>1 DEF Resource
  <2> QED
    BY <1>1, <2>2, Guaranteed
<1>2. CASE manifest.docs = << >>
  <2>1. DocumentsOf(manifest) = {}
    BY <1>2 DEF DocumentsOf
  <2> QED
    BY <2>1 DEF GuaranteesReachResources
<1> QED
  BY <1>1, <1>2 DEF ManifestInv

\* What validation demanded of a request is what its resources say, for every
\* request whose parameters have their Go types (the fragments' Validate and
\* Render, and the builders of xr.go).
THEOREM GuaranteesReachResourcesHold == TemplateSpec => []GuaranteesReachResources
<1>1. ManifestInv => GuaranteesReachResources
  BY GuaranteesReach
<1> QED
  BY <1>1, ManifestInvHolds, PTL
=============================================================================
