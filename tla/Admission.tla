------------------------------ MODULE Admission ------------------------------
(***************************************************************************)
(* How a HermesAgent spec gets into the API server and what becomes of it: *)
(* the defaults of the CRD schema, the mutating and the validating webhook *)
(* (internal/webhook/v1/hermesagent_webhook.go), which an install may      *)
(* switch off, and the controller's own defaults and checks, repeated in   *)
(* hermesagent_resources.go, with the API server's verdict on the children *)
(* built from the spec.                                                    *)
(*                                                                         *)
(* A document is a spec as submitted: a field left out is Unset.  given is *)
(* the set of the optional objects the document has; the schema fills in   *)
(* fields of those only.  A spec is a document as Go decodes it: left out  *)
(* values are zero ("" is Empty), left out pointers are Unset.  Bad stands *)
(* for any text that is not what the field needs.                          *)
(***************************************************************************)
EXTENDS Integers, Sequences, Functions

CONSTANTS
    Unset,      \* left out of the document
    Empty,      \* the empty string
    Bad,        \* a text the field cannot use
    Text,       \* the texts of all fields
    Documents,  \* the documents users create agents from
    Updates     \* the documents they replace the spec of an agent with

VARIABLES
    stored,    \* the agent's spec, Unset when there is no agent
    admitted,  \* the stored spec went through the webhooks
    webhooks,  \* "off", "serving", or installed and "unreachable"
    outcome    \* what the last pass over the stored spec came to

vars == <<stored, admitted, webhooks, outcome>>

ProbeNames == {"startup", "readiness", "liveness"}
MaxPort    == 65535
MaxMode    == 511

Outcomes == {"Accepted", "InvalidConfig", "PersistentVolumeClaimReconcileFailed",
             "StatefulSetReconcileFailed", "ServiceReconcileFailed",
             "NetworkPolicyReconcileFailed"}

-----------------------------------------------------------------------------
(* The shapes of documents and specs.                                      *)

Optional(S) == S \cup {Unset}

\* A reference has its parts, a path its segments and whether it starts with a slash, a
\* CIDR block its addresses.
KeyRef   == {"name", "key"}
NameRef  == {"name"}
Ref      == Optional(SUBSET KeyRef)
FilePath == [abs : BOOLEAN, segments : Seq(Text)]
Block    == SUBSET Nat \cup {Empty, Bad}

ConfigSource == [raw : BOOLEAN, configMapRef : Ref, secretRef : Ref]
EnvVar       == [name : Text, value : BOOLEAN, configMapKeyRef : Ref, secretKeyRef : Ref]
EnvFrom      == [configMapRef : Ref, secretRef : Ref]
FileItem     == [key : Text, path : FilePath, mode : Optional(Int)]
FileMount    == [ configMapRef : Ref, secretRef : Ref, mountPath : FilePath,
                  items : Seq(FileItem), defaultMode : Optional(Int) ]
Peer         == [ cidr : Block, except : SUBSET Block,
                  namespaceSelector : Optional(Text), podSelector : Optional(Text) ]
ProbeSpec    == [ enabled : Optional(BOOLEAN), initialDelay : Int, period : Int,
                  timeout : Int, failures : Int ]

Document ==
    [ given : SUBSET {"updateStrategy", "persistence", "service", "networkPolicy"},
      image : [repository : Optional(Text), tag : Optional(Text), pullPolicy : Optional(Text)],
      mode : Optional(Text), replicas : Optional(Int), automount : Optional(BOOLEAN),
      config : ConfigSource, gatewayConfig : ConfigSource,
      env : Seq(EnvVar), envFrom : SUBSET EnvFrom,
      secretRefs : Seq(Text), imagePullSecrets : SUBSET Text, fileMounts : Seq(FileMount),
      updateStrategy : [ type : Optional(Text), rollingUpdate : BOOLEAN,
                         partition : Optional(Int) ],
      persistence : [ enabled : Optional(BOOLEAN), size : Optional(Int \cup {Empty, Bad}),
                      accessModes : Optional(SUBSET Text) ],
      service : [ enabled : Optional(BOOLEAN), type : Optional(Text),
                  port : Optional(Int), targetPort : Optional(Int) ],
      networkPolicy : [ enabled : Optional(BOOLEAN), destinations : SUBSET Peer,
                        tcp : SUBSET Int, udp : SUBSET Int ],
      probes : [ProbeNames -> ProbeSpec] ]

HermesAgentSpec ==
    [ image : [repository : Text, tag : Text, pullPolicy : Text],
      mode : Text, replicas : Int, automount : BOOLEAN,
      config : ConfigSource, gatewayConfig : ConfigSource,
      env : Seq(EnvVar), envFrom : SUBSET EnvFrom,
      secretRefs : Seq(Text), imagePullSecrets : SUBSET Text, fileMounts : Seq(FileMount),
      updateStrategy : [type : Text, rollingUpdate : BOOLEAN, partition : Optional(Int)],
      persistence : [ enabled : Optional(BOOLEAN), size : Int \cup {Empty, Bad},
                      accessModes : SUBSET Text ],
      service : [enabled : BOOLEAN, type : Text, port : Int, targetPort : Int],
      networkPolicy : [ enabled : Optional(BOOLEAN), destinations : SUBSET Peer,
                        tcp : SUBSET Int, udp : SUBSET Int ],
      probes : [ProbeNames -> ProbeSpec] ]

ASSUME AdmissionAssumption ==
    /\ Documents \subseteq Document /\ Updates \subseteq Document
    /\ Unset \notin HermesAgentSpec /\ Unset \notin Outcomes
    /\ Unset \notin BOOLEAN /\ Bad \notin Int /\ Empty # "HERMES_HOME"
    /\ {"hermes", "v2026.3.30", "IfNotPresent", "gateway", "RollingUpdate", "ClusterIP",
        "ReadWriteOnce", Empty} \subseteq Text

-----------------------------------------------------------------------------
(* The schema of the CRD.                                                  *)

OrElse(v, zero, default) == IF v = zero THEN default ELSE v

\* A field of the optional object p, with the schema's default and Go's zero value.
Field(doc, p, v, default, zero) ==
    CASE v # Unset                      -> v
      [] v = Unset /\ p \in doc.given    -> default
      [] v = Unset /\ p \notin doc.given -> zero

decoded(doc) ==
    [ image    |-> [ repository |-> OrElse(doc.image.repository, Unset, "hermes"),
                     tag        |-> OrElse(doc.image.tag, Unset, "v2026.3.30"),
                     pullPolicy |-> OrElse(doc.image.pullPolicy, Unset, "IfNotPresent") ],
      mode     |-> OrElse(doc.mode, Unset, "gateway"),
      replicas |-> OrElse(doc.replicas, Unset, 1),
      automount |-> OrElse(doc.automount, Unset, FALSE),
      config   |-> doc.config,
      gatewayConfig |-> doc.gatewayConfig,
      env      |-> doc.env,
      envFrom  |-> doc.envFrom,
      secretRefs |-> doc.secretRefs,
      imagePullSecrets |-> doc.imagePullSecrets,
      fileMounts |-> doc.fileMounts,
      updateStrategy |->
          [ doc.updateStrategy EXCEPT !.type =
                Field(doc, "updateStrategy", @, "RollingUpdate", Empty) ],
      persistence |->
          [ enabled     |-> Field(doc, "persistence", doc.persistence.enabled, TRUE, Unset),
            size        |-> Field(doc, "persistence", doc.persistence.size, 10, Empty),
            accessModes |-> Field(doc, "persistence", doc.persistence.accessModes,
                                  {"ReadWriteOnce"}, {}) ],
      service  |-> [ enabled    |-> Field(doc, "service", doc.service.enabled, FALSE, FALSE),
                     type       |-> Field(doc, "service", doc.service.type, "ClusterIP", Empty),
                     port       |-> Field(doc, "service", doc.service.port, 8080, 0),
                     targetPort |-> Field(doc, "service", doc.service.targetPort, 0, 0) ],
      \* the schema's default for a networkPolicy left out is {enabled: false}
      networkPolicy |-> [ doc.networkPolicy EXCEPT !.enabled =
                            IF "networkPolicy" \in doc.given THEN @ ELSE FALSE ],
      probes   |-> doc.probes ]

\* The schema's rules, applied to what the mutating webhook made of the document.  An
\* enum holds for a field that is there, and a left out updateStrategy has no type.
schemaValid(doc, s) ==
    /\ s.image.repository # Empty
    /\ s.mode = "gateway"
    /\ \/ s.updateStrategy.type \in {"RollingUpdate", "OnDelete"}
       \/ s.updateStrategy.type = Empty /\ "updateStrategy" \notin doc.given

-----------------------------------------------------------------------------
(* The mutating webhook.                                                   *)

\* The profile of each probe; the webhook and the controller each have a table.
webhookProbeDefaults ==
    [ startup   |-> [initialDelay |-> 0,  period |-> 10, timeout |-> 5, failures |-> 18],
      readiness |-> [initialDelay |-> 5,  period |-> 10, timeout |-> 5, failures |-> 3],
      liveness  |-> [initialDelay |-> 15, period |-> 10, timeout |-> 5, failures |-> 3] ]

\* Mutant of defaultProbe: an initial delay is always at least one second.
defaultProbeZeroDelay(probe, d) ==
    [ enabled      |-> OrElse(probe.enabled, Unset, TRUE),
      initialDelay |-> IF probe.initialDelay = 0 THEN 1 ELSE probe.initialDelay,
      period       |-> OrElse(probe.period, 0, d.period),
      timeout      |-> OrElse(probe.timeout, 0, d.timeout),
      failures     |-> OrElse(probe.failures, 0, d.failures) ]

defaultProbe(probe, d) ==
    [ enabled      |-> OrElse(probe.enabled, Unset, TRUE),
      initialDelay |-> OrElse(probe.initialDelay, 0, d.initialDelay),
      period       |-> OrElse(probe.period, 0, d.period),
      timeout      |-> OrElse(probe.timeout, 0, d.timeout),
      failures     |-> OrElse(probe.failures, 0, d.failures) ]

\* The sections of a spec.
defaultImage(image) ==
    [ repository |-> OrElse(image.repository, Empty, "hermes"),
      tag        |-> OrElse(image.tag, Empty, "v2026.3.30"),
      pullPolicy |-> OrElse(image.pullPolicy, Empty, "IfNotPresent") ]

defaultPersistence(persistence) ==
    [ enabled     |-> OrElse(persistence.enabled, Unset, TRUE),
      size        |-> OrElse(persistence.size, Empty, 10),
      accessModes |-> OrElse(persistence.accessModes, {}, {"ReadWriteOnce"}) ]

defaultService(service) ==
    [service EXCEPT !.type = OrElse(service.type, Empty, "ClusterIP"),
                    !.port = OrElse(service.port, 0, 8080)]

defaultNetworkPolicy(policy) ==
    [policy EXCEPT !.enabled = OrElse(policy.enabled, Unset, FALSE)]

defaultStrategy(strategy) ==
    [strategy EXCEPT !.type = OrElse(strategy.type, Empty, "RollingUpdate")]

defaultProbes(probes) ==
    [p \in ProbeNames |-> defaultProbe(probes[p], webhookProbeDefaults[p])]

Default(s) ==
    [ s EXCEPT
        !.mode           = OrElse(s.mode, Empty, "gateway"),
        !.image          = defaultImage(s.image),
        !.replicas       = OrElse(s.replicas, 0, 1),
        !.automount      = OrElse(s.automount, Unset, FALSE),
        !.persistence    = defaultPersistence(s.persistence),
        !.service        = defaultService(s.service),
        !.networkPolicy  = defaultNetworkPolicy(s.networkPolicy),
        !.updateStrategy = defaultStrategy(s.updateStrategy),
        !.probes         = defaultProbes(s.probes) ]

-----------------------------------------------------------------------------
(* The validating webhook.                                                 *)

Complete(ref, parts) == ref # Unset => ref = parts
ExactlyOne(a, b) == (a # Unset) # (b # Unset)

validateConfigSource(source) ==
    /\ source.raw => source.configMapRef = Unset /\ source.secretRef = Unset
    /\ source.configMapRef = Unset \/ source.secretRef = Unset
    /\ Complete(source.configMapRef, KeyRef) /\ Complete(source.secretRef, KeyRef)

validateEnv(env) ==
    \A v \in Range(env) : /\ v.name # Empty
                   /\ Complete(v.configMapKeyRef, KeyRef) /\ Complete(v.secretKeyRef, KeyRef)

validateEnvFrom(sources) ==
    \A e \in sources : /\ ExactlyOne(e.configMapRef, e.secretRef)
                       /\ Complete(e.configMapRef, NameRef) /\ Complete(e.secretRef, NameRef)

validateLocalObjectReferences(names) == Empty \notin names

validateMode(mode) == mode # Unset => mode \in 0..MaxMode

NoPath == [abs |-> FALSE, segments |-> <<>>]

validateFileMountItemPath(path) ==
    ~path.abs /\ \A i \in DOMAIN path.segments : path.segments[i] \notin {"", ".", ".."}

validateItems(items) ==
    /\ \A i \in DOMAIN items :
          /\ items[i].key # Empty
          /\ items[i].path # NoPath /\ validateFileMountItemPath(items[i].path)
          /\ validateMode(items[i].mode)
    /\ \A i, j \in DOMAIN items :
          i # j => items[i].key # items[j].key /\ items[i].path # items[j].path

\* Mutant of validateFileMounts: modes are not looked at, nor equal mount paths.
validateFileMountSources(mounts) ==
    \A i \in DOMAIN mounts :
        /\ ExactlyOne(mounts[i].configMapRef, mounts[i].secretRef)
        /\ mounts[i].mountPath # NoPath /\ mounts[i].mountPath.abs
        /\ Complete(mounts[i].configMapRef, NameRef) /\ Complete(mounts[i].secretRef, NameRef)
        /\ validateItems(mounts[i].items)

validateFileMounts(mounts) ==
    /\ \A i \in DOMAIN mounts :
          /\ ExactlyOne(mounts[i].configMapRef, mounts[i].secretRef)
          /\ mounts[i].mountPath # NoPath /\ mounts[i].mountPath.abs
          /\ Complete(mounts[i].configMapRef, NameRef) /\ Complete(mounts[i].secretRef, NameRef)
          /\ validateMode(mounts[i].defaultMode)
          /\ validateItems(mounts[i].items)
    /\ \A i, j \in DOMAIN mounts : i # j => mounts[i].mountPath # mounts[j].mountPath

validateReplicas(s) ==
    /\ s.replicas > 0
    /\ s.replicas > 1 => s.persistence.enabled \notin {Unset, TRUE}

validateUpdateStrategy(strategy) ==
    strategy.rollingUpdate => /\ strategy.type # "OnDelete"
                              /\ strategy.partition # Unset => strategy.partition >= 0

validateService(service) ==
    /\ service.enabled => service.port > 0
    /\ service.targetPort >= 0

\* netip.ParsePrefix and ValidateLabelSelector
\* are external: Bad is what they refuse.
validateNetworkPolicy(policy) ==
    /\ \A d \in policy.destinations :
          /\ d.cidr # Empty \/ d.namespaceSelector # Unset \/ d.podSelector # Unset
          /\ d.except # {} => d.cidr # Empty
          /\ Bad \notin {d.cidr} \cup d.except
          /\ Bad \notin {d.namespaceSelector, d.podSelector}
    /\ \A port \in policy.tcp \cup policy.udp : port > 0 /\ port <= MaxPort

validateStorage(persistence) ==
    persistence.size # Empty => persistence.size # Bad /\ persistence.size > 0

validateProbeSpec(probe) ==
    probe.initialDelay >= 0 /\ probe.period >= 0 /\ probe.timeout >= 0 /\ probe.failures >= 0

validateHermesAgent(s) ==
    /\ validateConfigSource(s.config) /\ validateConfigSource(s.gatewayConfig)
    /\ validateEnv(s.env)
    /\ validateEnvFrom(s.envFrom)
    /\ validateLocalObjectReferences(Range(s.secretRefs))
    /\ validateFileMounts(s.fileMounts)
    /\ validateLocalObjectReferences(s.imagePullSecrets)
    /\ validateReplicas(s)
    /\ validateUpdateStrategy(s.updateStrategy)
    /\ validateService(s.service)
    /\ validateNetworkPolicy(s.networkPolicy)
    /\ validateStorage(s.persistence)
    /\ \A p \in ProbeNames : validateProbeSpec(s.probes[p])

-----------------------------------------------------------------------------
(* The controller: its own checks of sources and file mounts.              *)

\* Mutant of resolveConfigFile: text wins over a reference.
resolveTextFirst(source) ==
    source.raw \/ (Complete(source.configMapRef, KeyRef) /\ Complete(source.secretRef, KeyRef))

\* More than one source is an error; the one that is set must be complete.
resolveConfigFile(source) ==
    \/ source.raw /\ source.configMapRef = Unset /\ source.secretRef = Unset
    \/ ~source.raw /\ source.configMapRef = Unset /\ source.secretRef \in {Unset, KeyRef}
    \/ ~source.raw /\ source.configMapRef = KeyRef /\ source.secretRef = Unset

validateFileModeValue(mode) == mode # Unset => mode >= 0 /\ mode <= MaxMode

validateFileMountSpecs(mounts) ==
    \A i \in DOMAIN mounts :
        LET mount == mounts[i]
        IN  /\ mount.configMapRef = Unset <=> mount.secretRef # Unset
            /\ mount.mountPath.abs
            /\ \A j \in 1..(i - 1) : mounts[j].mountPath # mount.mountPath
            /\ mount.configMapRef \in {Unset, NameRef} /\ mount.secretRef \in {Unset, NameRef}
            /\ validateFileModeValue(mount.defaultMode)
            /\ \A k \in DOMAIN mount.items :
                  LET item == mount.items[k]
                  IN  /\ item.key # Empty /\ item.path # NoPath
                      /\ ~item.path.abs
                      /\ {"", ".", ".."} \cap Range(item.path.segments) = {}
                      /\ \A j \in 1..(k - 1) : /\ mount.items[j].key # item.key
                                               /\ mount.items[j].path # item.path
                      /\ validateFileModeValue(item.mode)

buildConfigPlan(s) ==
    /\ validateFileMountSpecs(s.fileMounts)
    /\ resolveConfigFile(s.config)
    /\ resolveConfigFile(s.gatewayConfig)

-----------------------------------------------------------------------------
(* The controller: what it builds, with its own defaults.                  *)

persistenceEnabled(s) == s.persistence.enabled # FALSE

persistenceSize(s) == IF s.persistence.size = Empty THEN 10 ELSE s.persistence.size

persistenceAccessModes(s) ==
    IF s.persistence.accessModes = {} THEN {"ReadWriteOnce"} ELSE s.persistence.accessModes

desiredReplicas(s) == IF s.replicas = 0 THEN 1 ELSE s.replicas

networkPolicyEnabled(s) == s.networkPolicy.enabled = TRUE

servicePort(s) == IF s.service.port <= 0 THEN 8080 ELSE s.service.port

serviceTargetPort(s) ==
    IF s.service.targetPort <= 0 THEN servicePort(s) ELSE s.service.targetPort

serviceType(s) == IF s.service.type = Empty THEN "ClusterIP" ELSE s.service.type

\* rollingUpdate is sent only with its own strategy.
statefulSetUpdateStrategy(s) ==
    LET type == IF s.updateStrategy.type = Empty THEN "RollingUpdate" ELSE s.updateStrategy.type
    IN  [ type |-> type,
          partition |-> IF type = "RollingUpdate" /\ s.updateStrategy.rollingUpdate
                        THEN s.updateStrategy.partition ELSE Unset ]

startupProbeDefaults   == [initialDelay |-> 0,  period |-> 10, timeout |-> 5, failures |-> 18]
readinessProbeDefaults == [initialDelay |-> 5,  period |-> 10, timeout |-> 5, failures |-> 3]
livenessProbeDefaults  == [initialDelay |-> 15, period |-> 10, timeout |-> 5, failures |-> 3]

\* Only a positive value overrides a default.
resolveProbeConfig(probe, d) ==
    [ enabled      |-> probe.enabled # FALSE,
      initialDelay |-> IF probe.initialDelay > 0 THEN probe.initialDelay ELSE d.initialDelay,
      period       |-> IF probe.period > 0 THEN probe.period ELSE d.period,
      timeout      |-> IF probe.timeout > 0 THEN probe.timeout ELSE d.timeout,
      failures     |-> IF probe.failures > 0 THEN probe.failures ELSE d.failures ]

\* A pull policy that is not set is the API server's choice (external).
hermesImage(image) ==
    [ repository |-> image.repository,
      tag        |-> image.tag,
      pullPolicy |-> CASE image.pullPolicy # Empty -> image.pullPolicy
                       [] image.pullPolicy = Empty /\ image.tag \in {Empty, "latest"} -> "Always"
                       [] OTHER -> "IfNotPresent" ]

hermesHome == <<"data", "hermes">>

At(segments) == [abs |-> TRUE, segments |-> segments]

\* The mount paths of the container, in order: files, secrets, mounts, data, tmp.
containerPaths(config, gatewayConfig, secretRefs, fileMounts) ==
    LET file(source, name) ==
            IF source.raw \/ source.configMapRef # Unset \/ source.secretRef # Unset
            THEN <<At(hermesHome \o <<name>>)>> ELSE <<>>
        named == SelectSeq(secretRefs, LAMBDA name : name # Empty)
    IN  file(config, "config.yaml") \o file(gatewayConfig, "gateway.json")
          \o [i \in DOMAIN named |-> At(<<"var", "run", "hermes", "secrets", named[i]>>)]
          \o [i \in DOMAIN fileMounts |-> fileMounts[i].mountPath]
          \o <<At(hermesHome), At(<<"tmp">>)>>

mountPaths(s) == containerPaths(s.config, s.gatewayConfig, s.secretRefs, s.fileMounts)

\* The first variable of this name is replaced, whatever it was; else one is added.
upsertEnvVar(env, v) ==
    LET named == {i \in DOMAIN env : env[i].name = v.name}
    IN  IF named = {} THEN Append(env, v)
        ELSE [i \in DOMAIN env |->
                 IF i \in named /\ \A j \in named : i <= j THEN v ELSE env[i]]

\* The variables of the container: the operator sets HERMES_HOME.
containerEnv(s) ==
    upsertEnvVar(s.env, [ name |-> "HERMES_HOME", value |-> TRUE,
                          configMapKeyRef |-> Unset, secretKeyRef |-> Unset ])

buildStatefulSet(s) ==
    [ replicas  |-> desiredReplicas(s),
      strategy  |-> statefulSetUpdateStrategy(s),
      image     |-> hermesImage(s.image),
      mode      |-> IF s.mode = Empty THEN "gateway" ELSE s.mode,
      automount |-> s.automount = TRUE,
      env       |-> containerEnv(s),
      envFrom   |-> s.envFrom,
      port      |-> IF s.service.enabled THEN serviceTargetPort(s) ELSE Unset,
      mounts    |-> mountPaths(s),
      claim     |-> persistenceEnabled(s),
      probes    |-> [ startup   |-> resolveProbeConfig(s.probes.startup, startupProbeDefaults),
                      readiness |-> resolveProbeConfig(s.probes.readiness, readinessProbeDefaults),
                      liveness  |-> resolveProbeConfig(s.probes.liveness, livenessProbeDefaults) ] ]

buildPersistentVolumeClaim(s) ==
    [size |-> persistenceSize(s), accessModes |-> persistenceAccessModes(s)]

buildService(s) ==
    [type |-> serviceType(s), port |-> servicePort(s), targetPort |-> serviceTargetPort(s)]

DefaultTCP == {53, 80, 443}
DefaultUDP == {53}

\* Egress besides DNS and HTTP(S): what is asked for and not already open.  (Port 22
\* follows the terminal backend, which is no matter of admission.)
buildNetworkPolicy(s) ==
    [ peers |-> s.networkPolicy.destinations,
      tcp   |-> s.networkPolicy.tcp \ DefaultTCP,
      udp   |-> s.networkPolicy.udp \ DefaultUDP ]

\* Everything the controller makes of a spec.
Children(s) ==
    [ statefulSet   |-> buildStatefulSet(s),
      claim         |-> IF persistenceEnabled(s) THEN buildPersistentVolumeClaim(s) ELSE Unset,
      service       |-> IF s.service.enabled THEN buildService(s) ELSE Unset,
      networkPolicy |-> IF networkPolicyEnabled(s) THEN buildNetworkPolicy(s) ELSE Unset ]

-----------------------------------------------------------------------------
(* The API server's validation of the children (external).                 *)

Port(n) == n > 0 /\ n <= MaxPort

\* ReadWriteOncePod does not go with another mode.
AccessModes(modes) ==
    \/ modes \subseteq {"ReadWriteOnce", "ReadOnlyMany", "ReadWriteMany"}
    \/ modes = {"ReadWriteOncePod"}

AcceptsClaim(claim) == claim.size > 0 /\ AccessModes(claim.accessModes)

\* A variable has at most one source: a value, a ConfigMap's key or a Secret's.
OneSource(v) ==
    /\ v.configMapKeyRef = Unset \/ v.secretKeyRef = Unset
    /\ v.value => v.configMapKeyRef = Unset /\ v.secretKeyRef = Unset

AcceptsStatefulSet(sts) ==
    /\ sts.replicas >= 0
    /\ sts.strategy.partition # Unset => sts.strategy.partition >= 0
    /\ sts.image.pullPolicy \in {"IfNotPresent", "Always", "Never"}
    /\ \A v \in Range(sts.env) :
          /\ v.name # Empty
          /\ OneSource(v)
          /\ {v.configMapKeyRef, v.secretKeyRef} \subseteq {Unset, KeyRef}
    /\ \A e \in sts.envFrom : /\ ExactlyOne(e.configMapRef, e.secretRef)
                              /\ {e.configMapRef, e.secretRef} \subseteq {Unset, NameRef}
    /\ sts.port # Unset => Port(sts.port)
    /\ IsInjective(sts.mounts)

AcceptsService(service) ==
    /\ service.type \in {"ClusterIP", "NodePort", "LoadBalancer"}
    /\ Port(service.port) /\ Port(service.targetPort)

AcceptsNetworkPolicy(policy) ==
    /\ \A d \in policy.peers :
          /\ d.cidr # Empty => /\ d.cidr # Bad
                               /\ d.namespaceSelector = Unset /\ d.podSelector = Unset
                               /\ \A e \in d.except : e # Bad /\ e \subseteq d.cidr /\ e # d.cidr
          /\ d.cidr = Empty => d.namespaceSelector # Unset \/ d.podSelector # Unset
          /\ Bad \notin {d.namespaceSelector, d.podSelector}
    /\ \A p \in policy.tcp \cup policy.udp : Port(p)

-----------------------------------------------------------------------------
(* The system.                                                             *)

Init ==
    /\ stored = Unset
    /\ admitted = FALSE
    /\ webhooks \in {"off", "serving"}
    /\ outcome = Unset

\* One write of the agent: defaults, schema, validation.  Webhooks that do not answer
\* refuse it (failurePolicy=fail).  A refused write changes nothing.
Admit(doc, s) ==
    /\ \/ /\ webhooks = "serving"
          /\ schemaValid(doc, Default(s))
          /\ validateHermesAgent(Default(s))
          /\ stored' = Default(s)
          /\ admitted' = TRUE
       \/ /\ webhooks = "off"
          /\ schemaValid(doc, s)
          /\ stored' = s
          /\ admitted' = FALSE
    /\ outcome' = Unset
    /\ UNCHANGED webhooks

\* ValidateCreate.
Create(doc) == stored = Unset /\ Admit(doc, decoded(doc))

\* ValidateUpdate does not look at the old spec.
Update(doc) == stored # Unset /\ Admit(doc, decoded(doc))

\* A user changes a label of the agent: the spec comes back as it was read.
Touch ==
    /\ stored # Unset
    /\ webhooks = "serving"
    /\ Admit([given |-> {}], stored)

Remove ==
    /\ stored # Unset
    /\ stored' = Unset /\ admitted' = FALSE /\ outcome' = Unset
    /\ UNCHANGED webhooks

\* The operator is upgraded to other chart values, or its webhook server comes or goes.
SetWebhooks ==
    /\ \E w \in {"off", "serving", "unreachable"} \ {webhooks} : webhooks' = w
    /\ UNCHANGED <<stored, admitted, outcome>>

\* The stages of a pass, each with whether it gets through.
Stages(s) ==
    LET c == Children(s)
    IN  << [reason |-> "InvalidConfig", ok |-> buildConfigPlan(s)],
           [reason |-> "PersistentVolumeClaimReconcileFailed",
            ok |-> c.claim = Unset \/ (c.claim.size # Bad /\ AcceptsClaim(c.claim))],
           [reason |-> "StatefulSetReconcileFailed", ok |-> AcceptsStatefulSet(c.statefulSet)],
           [reason |-> "ServiceReconcileFailed",
            ok |-> c.service = Unset \/ AcceptsService(c.service)],
           [reason |-> "NetworkPolicyReconcileFailed",
            ok |-> c.networkPolicy = Unset \/ AcceptsNetworkPolicy(c.networkPolicy)] >>

\* A pass of the controller ends with the first stage that fails.
Reconcile ==
    /\ stored # Unset
    /\ outcome = Unset
    /\ LET stages   == Stages(stored)
           Gets(i)  == \A j \in 1 .. i - 1 : stages[j].ok
       IN  \/ Gets(Len(stages) + 1) /\ outcome' = "Accepted"
           \/ \E i \in DOMAIN stages :
                 Gets(i) /\ ~stages[i].ok /\ outcome' = stages[i].reason
    /\ UNCHANGED <<stored, admitted, webhooks>>

Next ==
    \/ \E doc \in Documents : Create(doc)
    \/ \E doc \in Updates : Update(doc)
    \/ Touch
    \/ Remove
    \/ SetWebhooks
    \/ Reconcile

Spec == Init /\ [][Next]_vars

-----------------------------------------------------------------------------
(* What holds.                                                             *)

\* What the webhook lets through and the API server refuses: ports beyond the range, a
\* mount path used twice once the operator's own are counted, a variable with two
\* sources, an unknown pull policy or Service type, access modes that are unknown or do
\* not go together, a peer that is a block
\* and a selector, an exception outside its block.
Gap(s) ==
    \/ s.service.enabled /\ (s.service.port > MaxPort \/ s.service.targetPort > MaxPort)
    \/ ~IsInjective(mountPaths(s))
    \/ \E v \in Range(containerEnv(s)) : ~OneSource(v)
    \/ s.image.pullPolicy \notin {"IfNotPresent", "Always", "Never"}
    \/ ~AccessModes(s.persistence.accessModes)
    \/ s.service.enabled /\ s.service.type \notin {"ClusterIP", "NodePort", "LoadBalancer"}
    \/ \E d \in s.networkPolicy.destinations :
          d.cidr # Empty /\ \/ d.namespaceSelector # Unset \/ d.podSelector # Unset
                            \/ \E e \in d.except : ~(e \subseteq d.cidr) \/ e = d.cidr

\* A spec the webhooks admitted is never refused by the controller's own checks, and
\* outside the listed gaps every child of it is accepted by the API server and no two
\* pods share the claim; also once the webhooks are gone (validateHermesAgent against
\* buildConfigPlan, buildPersistentVolumeClaim and the builders of the children).
AdmittedRuns ==
    (admitted /\ outcome # Unset) =>
        /\ outcome # "InvalidConfig"
        /\ ~Gap(stored) => outcome = "Accepted"
        /\ persistenceEnabled(stored) => desiredReplicas(stored) = 1

\* Without webhooks the controller refuses exactly the sources and file mounts the
\* webhook would have refused: the two copies of these rules agree
\* (validateFileMountSpecs, resolveConfigFile against validateFileMounts,
\* validateConfigSource).
BackstopAgrees ==
    (stored # Unset /\ outcome # Unset) =>
        (outcome = "InvalidConfig") =
            ~(/\ validateFileMounts(stored.fileMounts)
              /\ validateConfigSource(stored.config)
              /\ validateConfigSource(stored.gatewayConfig))

\* Turning the webhooks on does not roll a pod or change a child of an agent stored
\* without them, when somebody next touches it: the defaults the webhook writes into the
\* spec are the ones the controller applied all along.  An image tag or pull policy
\* written out as "" is the exception (Default against the controller's defaults).
DefaultsHarmless ==
    [][ (stored # Unset /\ Touch /\ Empty \notin {stored.image.tag, stored.image.pullPolicy})
        => Children(stored') = Children(stored) ]_vars

-----------------------------------------------------------------------------
(* What the README says and the code does not keep.                        *)

\* "invalid specs are rejected on create and update instead of being accepted and then
\* failing later in reconcile status" (validateHermesAgent).
AdmittedIsAccepted == (admitted /\ outcome # Unset) => outcome = "Accepted"
=============================================================================
