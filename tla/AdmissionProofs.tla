--------------------------- MODULE AdmissionProofs ---------------------------
(***************************************************************************)
(* Admission for every document users may submit.  Three copies of the     *)
(* rules meet here: the webhook's checks against the controller's          *)
(* (SourcesAgree, FileMountsAgree), the checks against what the API server *)
(* takes (ValidPasses), the webhook's defaults against the controller's    *)
(* (SameChildren).  The invariant Kept says what is known of a stored spec *)
(* however it got there.                                                   *)
(***************************************************************************)
EXTENDS Admission, TLAPS

-----------------------------------------------------------------------------
(* The two copies of the checks.                                           *)

\* One file has one complete source, or none.
LEMMA SourcesAgree ==
    ASSUME NEW source \in ConfigSource
    PROVE  resolveConfigFile(source) <=> validateConfigSource(source)
  BY DEF ConfigSource, resolveConfigFile, validateConfigSource, Complete

\* A mode in its range.
LEMMA ModesAgree ==
    ASSUME NEW mode \in Optional(Int)
    PROVE  validateFileModeValue(mode) <=> validateMode(mode)
  BY DEF Optional, validateFileModeValue, validateMode, MaxMode

\* The items of one mount, as the controller checks them.
ItemsChecked(items) ==
    \A k \in DOMAIN items :
        LET item == items[k]
        IN  /\ item.key # Empty /\ item.path # NoPath
            /\ ~item.path.abs
            /\ {"", ".", ".."} \cap Range(item.path.segments) = {}
            /\ \A j \in 1..(k - 1) : items[j].key # item.key /\ items[j].path # item.path
            /\ validateFileModeValue(item.mode)

\* An earlier item, or mount, is another one, and of two one is the earlier.
LEMMA Earlier ==
    ASSUME NEW S, NEW s \in Seq(S)
    PROVE  /\ \A k \in DOMAIN s : \A j \in 1..(k - 1) : j \in DOMAIN s /\ j # k
           /\ \A j, k \in DOMAIN s : j # k => j \in 1..(k - 1) \/ k \in 1..(j - 1)
  OBVIOUS

\* The controller and the webhook accept the same items.
LEMMA ItemsAgree ==
    ASSUME NEW items \in Seq(FileItem)
    PROVE  ItemsChecked(items) <=> validateItems(items)
<1>1. \A i \in DOMAIN items : items[i] \in FileItem
  OBVIOUS
<1>2. \A i \in DOMAIN items :
          validateFileModeValue(items[i].mode) <=> validateMode(items[i].mode)
  BY <1>1, ModesAgree DEF FileItem
<1>3. \A i \in DOMAIN items :
          (~items[i].path.abs /\ {"", ".", ".."} \cap Range(items[i].path.segments) = {})
              <=> validateFileMountItemPath(items[i].path)
  BY DEF validateFileMountItemPath, Range
<1>4. (\A k \in DOMAIN items : \A j \in 1..(k - 1) :
            items[j].key # items[k].key /\ items[j].path # items[k].path)
      <=> (\A i, j \in DOMAIN items :
               i # j => items[i].key # items[j].key /\ items[i].path # items[j].path)
  BY Earlier
<1> QED
  BY <1>2, <1>3, <1>4 DEF ItemsChecked, validateItems

\* The controller and the webhook accept the same file mounts.
LEMMA FileMountsAgree ==
    ASSUME NEW mounts \in Seq(FileMount)
    PROVE  validateFileMountSpecs(mounts) <=> validateFileMounts(mounts)
<1>1. \A i \in DOMAIN mounts : mounts[i] \in FileMount
  OBVIOUS
<1>2. \A i \in DOMAIN mounts :
          /\ ItemsChecked(mounts[i].items) <=> validateItems(mounts[i].items)
          /\ validateFileModeValue(mounts[i].defaultMode) <=> validateMode(mounts[i].defaultMode)
  BY <1>1, ItemsAgree, ModesAgree DEF FileMount
<1>3. \A i \in DOMAIN mounts : mounts[i].mountPath.abs => mounts[i].mountPath # NoPath
  BY DEF NoPath
<1>4. \A i \in DOMAIN mounts :
          /\ ExactlyOne(mounts[i].configMapRef, mounts[i].secretRef)
                <=> (mounts[i].configMapRef = Unset <=> mounts[i].secretRef # Unset)
          /\ Complete(mounts[i].configMapRef, NameRef)
                <=> mounts[i].configMapRef \in {Unset, NameRef}
          /\ Complete(mounts[i].secretRef, NameRef) <=> mounts[i].secretRef \in {Unset, NameRef}
  BY DEF ExactlyOne, Complete
<1>5. (\A k \in DOMAIN mounts : \A j \in 1..(k - 1) : mounts[j].mountPath # mounts[k].mountPath)
      <=> (\A i, j \in DOMAIN mounts : i # j => mounts[i].mountPath # mounts[j].mountPath)
  BY Earlier
<1>6. validateFileMountSpecs(mounts) <=>
          \A i \in DOMAIN mounts :
              /\ mounts[i].configMapRef = Unset <=> mounts[i].secretRef # Unset
              /\ mounts[i].mountPath.abs
              /\ \A j \in 1..(i - 1) : mounts[j].mountPath # mounts[i].mountPath
              /\ mounts[i].configMapRef \in {Unset, NameRef}
              /\ mounts[i].secretRef \in {Unset, NameRef}
              /\ validateFileModeValue(mounts[i].defaultMode)
              /\ ItemsChecked(mounts[i].items)
  BY DEF validateFileMountSpecs, ItemsChecked
<1> QED
  BY <1>2, <1>3, <1>4, <1>5, <1>6 DEF validateFileMounts

\* The checks of sources and file mounts the webhook and the controller both make.
Checked(s) ==
    /\ validateFileMounts(s.fileMounts)
    /\ validateConfigSource(s.config)
    /\ validateConfigSource(s.gatewayConfig)

\* The controller finds a plan exactly for the specs the webhook finds no fault with.
LEMMA PlansAgree ==
    ASSUME NEW s \in HermesAgentSpec
    PROVE  buildConfigPlan(s) <=> Checked(s)
<1>1. s.fileMounts \in Seq(FileMount) /\ s.config \in ConfigSource /\ s.gatewayConfig \in ConfigSource
  BY DEF HermesAgentSpec
<1> QED
  BY <1>1, SourcesAgree, FileMountsAgree DEF buildConfigPlan, Checked

-----------------------------------------------------------------------------
(* Defaults.                                                               *)

\* A default, or a field's own value.
LEMMA Filled ==
    ASSUME NEW S, NEW v \in Optional(S), NEW default \in S, NEW zero \in S
    PROVE  /\ OrElse(v, Unset, default) \in S
           /\ \A doc, p : Field(doc, p, v, default, zero) \in S
  BY DEF Optional, OrElse, Field

\* The schema makes a spec of a document.
LEMMA DecodedTyped ==
    ASSUME NEW doc \in Document
    PROVE  decoded(doc) \in HermesAgentSpec
<1> DEFINE d == decoded(doc)
<1>0. /\ "hermes" \in Text /\ "v2026.3.30" \in Text /\ "IfNotPresent" \in Text
      /\ "gateway" \in Text /\ "RollingUpdate" \in Text /\ "ClusterIP" \in Text
      /\ Empty \in Text /\ {"ReadWriteOnce"} \in SUBSET Text
  BY AdmissionAssumption, Zenon
<1>1. d.image \in [repository : Text, tag : Text, pullPolicy : Text]
  <2>1. /\ doc.image.repository \in Optional(Text) /\ doc.image.tag \in Optional(Text)
        /\ doc.image.pullPolicy \in Optional(Text)
    BY DEF Document
  <2>2. d.image = [ repository |-> OrElse(doc.image.repository, Unset, "hermes"),
                    tag        |-> OrElse(doc.image.tag, Unset, "v2026.3.30"),
                    pullPolicy |-> OrElse(doc.image.pullPolicy, Unset, "IfNotPresent") ]
    BY DEF decoded
  <2> HIDE DEF d
  <2> QED
    BY <1>0, <2>1, <2>2, Filled
<1>2. d.mode \in Text /\ d.replicas \in Int /\ d.automount \in BOOLEAN
  <2>1. /\ doc.mode \in Optional(Text) /\ doc.replicas \in Optional(Int)
        /\ doc.automount \in Optional(BOOLEAN)
    BY DEF Document
  <2>2. /\ d.mode = OrElse(doc.mode, Unset, "gateway")
        /\ d.replicas = OrElse(doc.replicas, Unset, 1)
        /\ d.automount = OrElse(doc.automount, Unset, FALSE)
    BY DEF decoded
  <2> HIDE DEF d
  <2>3. d.mode \in Text
    BY <1>0, <2>1, <2>2, Filled
  <2>4. d.replicas \in Int
    BY <2>1, <2>2 DEF Optional, OrElse
  <2>5. d.automount \in BOOLEAN
    BY <2>1, <2>2, Zenon DEF Optional, OrElse
  <2> QED
    BY <2>3, <2>4, <2>5
<1>3. d.updateStrategy \in [type : Text, rollingUpdate : BOOLEAN, partition : Optional(Int)]
  <2>1. doc.updateStrategy \in [ type : Optional(Text), rollingUpdate : BOOLEAN,
                                 partition : Optional(Int) ]
    BY DEF Document
  <2>2. d.updateStrategy = [ doc.updateStrategy EXCEPT !.type =
                               Field(doc, "updateStrategy", doc.updateStrategy.type,
                                     "RollingUpdate", Empty) ]
    BY DEF decoded
  <2>3. Field(doc, "updateStrategy", doc.updateStrategy.type, "RollingUpdate", Empty) \in Text
    BY <1>0, <2>1, Filled
  <2> HIDE DEF d
  <2> QED
    BY <2>1, <2>2, <2>3
<1>4. d.persistence \in [ enabled : Optional(BOOLEAN), size : Int \cup {Empty, Bad},
                          accessModes : SUBSET Text ]
  <2>1. /\ doc.persistence.enabled \in Optional(BOOLEAN)
        /\ doc.persistence.size \in Optional(Int \cup {Empty, Bad})
        /\ doc.persistence.accessModes \in Optional(SUBSET Text)
    BY DEF Document
  <2> DEFINE e == Field(doc, "persistence", doc.persistence.enabled, TRUE, Unset)
             n == Field(doc, "persistence", doc.persistence.size, 10, Empty)
             m == Field(doc, "persistence", doc.persistence.accessModes, {"ReadWriteOnce"}, {})
  <2>2. d.persistence = [enabled |-> e, size |-> n, accessModes |-> m]
    BY DEF decoded
  <2>3. e \in Optional(BOOLEAN)
    BY <2>1 DEF Field, Optional
  <2>4. n \in Int \cup {Empty, Bad}
    <3>1. 10 \in Int \cup {Empty, Bad} /\ Empty \in Int \cup {Empty, Bad}
      OBVIOUS
    <3> QED
      BY <2>1, <3>1, Filled, Zenon
  <2>5. m \in SUBSET Text
    BY <1>0, <2>1, Filled
  <2> HIDE DEF d, e, n, m
  <2> QED
    BY <2>2, <2>3, <2>4, <2>5
<1>5. d.service \in [enabled : BOOLEAN, type : Text, port : Int, targetPort : Int]
  <2>1. /\ doc.service.enabled \in Optional(BOOLEAN) /\ doc.service.type \in Optional(Text)
        /\ doc.service.port \in Optional(Int) /\ doc.service.targetPort \in Optional(Int)
    BY DEF Document
  <2> DEFINE e == Field(doc, "service", doc.service.enabled, FALSE, FALSE)
             t == Field(doc, "service", doc.service.type, "ClusterIP", Empty)
             p == Field(doc, "service", doc.service.port, 8080, 0)
             q == Field(doc, "service", doc.service.targetPort, 0, 0)
  <2>2. d.service = [enabled |-> e, type |-> t, port |-> p, targetPort |-> q]
    BY DEF decoded
  <2>3. e \in BOOLEAN
    BY <2>1, Filled, Zenon
  <2>4. t \in Text
    BY <1>0, <2>1, Filled, Zenon
  <2>5. p \in Int /\ q \in Int
    BY <2>1 DEF Field, Optional
  <2> HIDE DEF d, e, t, p, q
  <2> QED
    BY <2>2, <2>3, <2>4, <2>5
<1>6. d.networkPolicy \in [ enabled : Optional(BOOLEAN), destinations : SUBSET Peer,
                            tcp : SUBSET Int, udp : SUBSET Int ]
  <2>1. doc.networkPolicy \in [ enabled : Optional(BOOLEAN), destinations : SUBSET Peer,
                                tcp : SUBSET Int, udp : SUBSET Int ]
    BY DEF Document
  <2>2. \E e \in {doc.networkPolicy.enabled, FALSE} :
            d.networkPolicy = [doc.networkPolicy EXCEPT !.enabled = e]
    BY DEF decoded
  <2> HIDE DEF d
  <2> QED
    BY <2>1, <2>2 DEF Optional
<1>7. /\ d.config \in ConfigSource /\ d.gatewayConfig \in ConfigSource
      /\ d.env \in Seq(EnvVar) /\ d.envFrom \in SUBSET EnvFrom
      /\ d.secretRefs \in Seq(Text) /\ d.imagePullSecrets \in SUBSET Text
      /\ d.fileMounts \in Seq(FileMount) /\ d.probes \in [ProbeNames -> ProbeSpec]
  BY DEF Document, decoded
<1>8. d = [ image |-> d.image, mode |-> d.mode, replicas |-> d.replicas,
            automount |-> d.automount, config |-> d.config,
            gatewayConfig |-> d.gatewayConfig, env |-> d.env, envFrom |-> d.envFrom,
            secretRefs |-> d.secretRefs, imagePullSecrets |-> d.imagePullSecrets,
            fileMounts |-> d.fileMounts, updateStrategy |-> d.updateStrategy,
            persistence |-> d.persistence, service |-> d.service,
            networkPolicy |-> d.networkPolicy, probes |-> d.probes ]
  BY DEF decoded
<1> HIDE DEF d
<1> QED
  BY <1>1, <1>2, <1>3, <1>4, <1>5, <1>6, <1>7, <1>8 DEF HermesAgentSpec, d

\* What the mutating webhook makes of a spec, field by field.
LEMMA Defaulted ==
    ASSUME NEW s \in HermesAgentSpec
    PROVE  LET d == Default(s)
           IN  /\ d.mode = OrElse(s.mode, Empty, "gateway")
               /\ d.image = defaultImage(s.image)
               /\ d.replicas = OrElse(s.replicas, 0, 1)
               /\ d.automount = OrElse(s.automount, Unset, FALSE)
               /\ d.persistence = defaultPersistence(s.persistence)
               /\ d.service = defaultService(s.service)
               /\ d.networkPolicy = defaultNetworkPolicy(s.networkPolicy)
               /\ d.updateStrategy = defaultStrategy(s.updateStrategy)
               /\ d.probes = defaultProbes(s.probes)
               /\ d.config = s.config /\ d.gatewayConfig = s.gatewayConfig
               /\ d.env = s.env /\ d.envFrom = s.envFrom /\ d.secretRefs = s.secretRefs
               /\ d.imagePullSecrets = s.imagePullSecrets /\ d.fileMounts = s.fileMounts
               /\ DOMAIN d = DOMAIN s
<1> DEFINE mode == OrElse(s.mode, Empty, "gateway")
           image == defaultImage(s.image)
           replicas == OrElse(s.replicas, 0, 1)
           automount == OrElse(s.automount, Unset, FALSE)
           persistence == defaultPersistence(s.persistence)
           service == defaultService(s.service)
           policy == defaultNetworkPolicy(s.networkPolicy)
           strategy == defaultStrategy(s.updateStrategy)
           probes == defaultProbes(s.probes)
<1>1. Default(s) = [ s EXCEPT !.mode = mode, !.image = image, !.replicas = replicas,
                              !.automount = automount, !.persistence = persistence,
                              !.service = service, !.networkPolicy = policy,
                              !.updateStrategy = strategy, !.probes = probes ]
  BY Zenon DEF Default
<1> HIDE DEF mode, image, replicas, automount, persistence, service, policy, strategy, probes
<1>2. LET d == Default(s)
      IN  /\ d.mode = mode /\ d.image = image /\ d.replicas = replicas
          /\ d.automount = automount /\ d.persistence = persistence
          /\ d.service = service /\ d.networkPolicy = policy
          /\ d.updateStrategy = strategy /\ d.probes = probes
          /\ d.config = s.config /\ d.gatewayConfig = s.gatewayConfig
          /\ d.env = s.env /\ d.envFrom = s.envFrom /\ d.secretRefs = s.secretRefs
          /\ d.imagePullSecrets = s.imagePullSecrets /\ d.fileMounts = s.fileMounts
          /\ DOMAIN d = DOMAIN s
  <2>1. DOMAIN s = {"mode", "image", "replicas", "automount", "persistence", "service",
                    "networkPolicy", "updateStrategy", "probes", "config", "gatewayConfig",
                    "env", "envFrom", "secretRefs", "imagePullSecrets", "fileMounts"}
    BY DEF HermesAgentSpec
  <2> QED
    BY <1>1, <2>1
<1> QED
  BY <1>2, Zenon
  DEF mode, image, replicas, automount, persistence, service, policy, strategy, probes

\* The webhook leaves a spec a spec.
LEMMA DefaultTyped ==
    ASSUME NEW s \in HermesAgentSpec
    PROVE  Default(s) \in HermesAgentSpec
<1> DEFINE mode == OrElse(s.mode, Empty, "gateway")
           image == defaultImage(s.image)
           replicas == OrElse(s.replicas, 0, 1)
           automount == OrElse(s.automount, Unset, FALSE)
           persistence == defaultPersistence(s.persistence)
           service == defaultService(s.service)
           policy == defaultNetworkPolicy(s.networkPolicy)
           strategy == defaultStrategy(s.updateStrategy)
           probes == defaultProbes(s.probes)
<1>1. Default(s) = [ s EXCEPT !.mode = mode, !.image = image, !.replicas = replicas,
                              !.automount = automount, !.persistence = persistence,
                              !.service = service, !.networkPolicy = policy,
                              !.updateStrategy = strategy, !.probes = probes ]
  BY Zenon DEF Default
<1>2. /\ "hermes" \in Text /\ "v2026.3.30" \in Text /\ "IfNotPresent" \in Text
      /\ "gateway" \in Text /\ "RollingUpdate" \in Text /\ "ClusterIP" \in Text
      /\ {"ReadWriteOnce"} \in SUBSET Text
  BY AdmissionAssumption, Zenon
<1>3. mode \in Text
  BY <1>2 DEF HermesAgentSpec, OrElse
<1>4. image \in [repository : Text, tag : Text, pullPolicy : Text]
  <2>1. s.image \in [repository : Text, tag : Text, pullPolicy : Text]
    BY DEF HermesAgentSpec
  <2> QED
    BY <1>2, <2>1 DEF defaultImage, OrElse
<1>5. replicas \in Int
  BY DEF HermesAgentSpec, OrElse
<1>6. automount \in BOOLEAN
  <2>1. s.automount \in BOOLEAN
    BY DEF HermesAgentSpec
  <2> QED
    BY <2>1, Zenon DEF OrElse
<1>7. persistence \in [ enabled : Optional(BOOLEAN), size : Int \cup {Empty, Bad},
                        accessModes : SUBSET Text ]
  <2>1. /\ s.persistence.enabled \in Optional(BOOLEAN)
        /\ s.persistence.size \in Int \cup {Empty, Bad}
        /\ s.persistence.accessModes \in SUBSET Text
    BY DEF HermesAgentSpec
  <2> DEFINE e == OrElse(s.persistence.enabled, Unset, TRUE)
             n == OrElse(s.persistence.size, Empty, 10)
             m == OrElse(s.persistence.accessModes, {}, {"ReadWriteOnce"})
  <2>2. e \in Optional(BOOLEAN)
    BY <2>1, Zenon DEF OrElse, Optional
  <2>3. n \in Int \cup {Empty, Bad}
    BY <2>1 DEF OrElse
  <2>4. m \in SUBSET Text
    BY <1>2, <2>1 DEF OrElse
  <2>5. persistence = [enabled |-> e, size |-> n, accessModes |-> m]
    BY DEF defaultPersistence
  <2> HIDE DEF e, n, m, persistence
  <2> QED
    BY <2>2, <2>3, <2>4, <2>5
<1>8. service \in [enabled : BOOLEAN, type : Text, port : Int, targetPort : Int]
  <2>1. s.service \in [enabled : BOOLEAN, type : Text, port : Int, targetPort : Int]
    BY DEF HermesAgentSpec
  <2> DEFINE t == OrElse(s.service.type, Empty, "ClusterIP")
             p == OrElse(s.service.port, 0, 8080)
  <2>2. t \in Text /\ p \in Int
    BY <1>2, <2>1 DEF OrElse
  <2>3. service = [s.service EXCEPT !.type = t, !.port = p]
    BY DEF defaultService
  <2> HIDE DEF t, p, service
  <2> QED
    BY <2>1, <2>2, <2>3
<1>9. policy \in [ enabled : Optional(BOOLEAN), destinations : SUBSET Peer,
                   tcp : SUBSET Int, udp : SUBSET Int ]
  <2>1. s.networkPolicy \in [ enabled : Optional(BOOLEAN), destinations : SUBSET Peer,
                              tcp : SUBSET Int, udp : SUBSET Int ]
    BY DEF HermesAgentSpec
  <2> DEFINE e == OrElse(s.networkPolicy.enabled, Unset, FALSE)
  <2>2. e \in Optional(BOOLEAN)
    <3>1. s.networkPolicy.enabled \in Optional(BOOLEAN)
      BY <2>1
    <3> QED
      BY <3>1, Zenon DEF OrElse, Optional
  <2>3. policy = [s.networkPolicy EXCEPT !.enabled = e]
    BY DEF defaultNetworkPolicy
  <2> HIDE DEF e, policy
  <2> QED
    BY <2>1, <2>2, <2>3
<1>10. strategy \in [type : Text, rollingUpdate : BOOLEAN, partition : Optional(Int)]
  <2>1. s.updateStrategy \in [type : Text, rollingUpdate : BOOLEAN, partition : Optional(Int)]
    BY DEF HermesAgentSpec
  <2> DEFINE t == OrElse(s.updateStrategy.type, Empty, "RollingUpdate")
  <2>2. t \in Text
    BY <1>2, <2>1 DEF OrElse
  <2>3. strategy = [s.updateStrategy EXCEPT !.type = t]
    BY DEF defaultStrategy
  <2> HIDE DEF t, strategy
  <2> QED
    BY <2>1, <2>2, <2>3
<1>11. probes \in [ProbeNames -> ProbeSpec]
  <2>1. ASSUME NEW probe \in ProbeSpec, NEW n \in ProbeNames
        PROVE  defaultProbe(probe, webhookProbeDefaults[n]) \in ProbeSpec
    <3> DEFINE d == webhookProbeDefaults[n]
               e == OrElse(probe.enabled, Unset, TRUE)
    <3>1. /\ d.initialDelay \in Int /\ d.period \in Int /\ d.timeout \in Int
          /\ d.failures \in Int
      BY DEF webhookProbeDefaults, ProbeNames
    <3>2. /\ probe.initialDelay \in Int /\ probe.period \in Int /\ probe.timeout \in Int
          /\ probe.failures \in Int /\ probe.enabled \in Optional(BOOLEAN)
      BY DEF ProbeSpec
    <3>3. e \in Optional(BOOLEAN)
      BY <3>2, Zenon DEF OrElse, Optional
    <3> HIDE DEF d, e
    <3> QED
      BY <3>1, <3>2, <3>3 DEF defaultProbe, ProbeSpec, OrElse, d, e
  <2>2. s.probes \in [ProbeNames -> ProbeSpec]
    BY DEF HermesAgentSpec
  <2> QED
    BY <2>1, <2>2 DEF defaultProbes
<1> DEFINE a == [s EXCEPT !.mode = mode, !.image = image, !.replicas = replicas]
           b == [a EXCEPT !.automount = automount, !.persistence = persistence,
                          !.service = service]
           c == [b EXCEPT !.networkPolicy = policy, !.updateStrategy = strategy,
                          !.probes = probes]
<1> HIDE DEF mode, image, replicas, automount, persistence, service, policy, strategy, probes
<1>12. a \in HermesAgentSpec
  BY <1>3, <1>4, <1>5 DEF HermesAgentSpec
<1>13. b \in HermesAgentSpec
  <2> HIDE DEF a
  <2> QED
    BY <1>6, <1>7, <1>8, <1>12 DEF HermesAgentSpec
<1>14. c \in HermesAgentSpec
  <2> HIDE DEF b
  <2> QED
    BY <1>9, <1>10, <1>11, <1>13 DEF HermesAgentSpec
<1>15. Default(s) = c
  BY <1>1
<1> QED
  BY <1>14, <1>15

-----------------------------------------------------------------------------
(* The two copies of the defaults.                                         *)

\* A probe the webhook completed resolves as before.
LEMMA SameProbe ==
    ASSUME NEW probe \in ProbeSpec, NEW d,
           d.initialDelay \in Int, d.period \in Int, d.timeout \in Int, d.failures \in Int
    PROVE  resolveProbeConfig(defaultProbe(probe, d), d) = resolveProbeConfig(probe, d)
<1> DEFINE q == defaultProbe(probe, d)
<1>1. /\ probe.initialDelay \in Int /\ probe.period \in Int
      /\ probe.timeout \in Int /\ probe.failures \in Int
  BY DEF ProbeSpec
<1>2. /\ q.enabled = OrElse(probe.enabled, Unset, TRUE)
      /\ q.initialDelay = OrElse(probe.initialDelay, 0, d.initialDelay)
      /\ q.period = OrElse(probe.period, 0, d.period)
      /\ q.timeout = OrElse(probe.timeout, 0, d.timeout)
      /\ q.failures = OrElse(probe.failures, 0, d.failures)
  BY DEF defaultProbe
<1> HIDE DEF q
<1>3. (q.enabled # FALSE) = (probe.enabled # FALSE)
  BY <1>2, AdmissionAssumption, Zenon DEF OrElse
<1> DEFINE First(v, w) == IF v > 0 THEN v ELSE w
<1>4. /\ First(q.initialDelay, d.initialDelay) = First(probe.initialDelay, d.initialDelay)
      /\ First(q.period, d.period) = First(probe.period, d.period)
      /\ First(q.timeout, d.timeout) = First(probe.timeout, d.timeout)
      /\ First(q.failures, d.failures) = First(probe.failures, d.failures)
  BY <1>1, <1>2 DEF OrElse
<1>5. \A r : resolveProbeConfig(r, d) =
          [ enabled |-> r.enabled # FALSE,
            initialDelay |-> First(r.initialDelay, d.initialDelay),
            period |-> First(r.period, d.period), timeout |-> First(r.timeout, d.timeout),
            failures |-> First(r.failures, d.failures) ]
  BY Zenon DEF resolveProbeConfig
<1> HIDE DEF First
<1> QED
  BY <1>3, <1>4, <1>5, Zenon DEF q

\* The webhook's table of probe profiles is the controller's.
LEMMA SameProbes ==
    ASSUME NEW s \in HermesAgentSpec
    PROVE  LET p == defaultProbes(s.probes)
           IN  /\ resolveProbeConfig(p.startup, startupProbeDefaults)
                      = resolveProbeConfig(s.probes.startup, startupProbeDefaults)
               /\ resolveProbeConfig(p.readiness, readinessProbeDefaults)
                      = resolveProbeConfig(s.probes.readiness, readinessProbeDefaults)
               /\ resolveProbeConfig(p.liveness, livenessProbeDefaults)
                      = resolveProbeConfig(s.probes.liveness, livenessProbeDefaults)
<1>1. /\ s.probes.startup \in ProbeSpec /\ s.probes.readiness \in ProbeSpec
      /\ s.probes.liveness \in ProbeSpec
  BY DEF HermesAgentSpec, ProbeNames
<1>2. /\ webhookProbeDefaults["startup"] = startupProbeDefaults
      /\ webhookProbeDefaults["readiness"] = readinessProbeDefaults
      /\ webhookProbeDefaults["liveness"] = livenessProbeDefaults
  BY DEF webhookProbeDefaults, startupProbeDefaults, readinessProbeDefaults,
         livenessProbeDefaults
<1>3. LET p == defaultProbes(s.probes)
      IN  /\ p.startup = defaultProbe(s.probes.startup, webhookProbeDefaults["startup"])
          /\ p.readiness = defaultProbe(s.probes.readiness, webhookProbeDefaults["readiness"])
          /\ p.liveness = defaultProbe(s.probes.liveness, webhookProbeDefaults["liveness"])
  BY DEF defaultProbes, ProbeNames
<1>4. \A d \in {startupProbeDefaults, readinessProbeDefaults, livenessProbeDefaults} :
          /\ d.initialDelay \in Int /\ d.period \in Int
          /\ d.timeout \in Int /\ d.failures \in Int
  BY DEF startupProbeDefaults, readinessProbeDefaults, livenessProbeDefaults
<1> QED
  BY <1>1, <1>2, <1>3, <1>4, SameProbe

\* The controller makes the same of a spec before and after the webhook completed it, but
\* for the parts of the image.
LEMMA SameChildren ==
    ASSUME NEW s \in HermesAgentSpec,
           Empty \notin {s.image.repository, s.image.tag, s.image.pullPolicy}
    PROVE  Children(Default(s)) = Children(s)
<1> DEFINE d == Default(s)
<1>1. /\ d.mode = OrElse(s.mode, Empty, "gateway")
      /\ d.image = defaultImage(s.image)
      /\ d.replicas = OrElse(s.replicas, 0, 1)
      /\ d.automount = OrElse(s.automount, Unset, FALSE)
      /\ d.persistence = defaultPersistence(s.persistence)
      /\ d.service = defaultService(s.service)
      /\ d.networkPolicy = defaultNetworkPolicy(s.networkPolicy)
      /\ d.updateStrategy = defaultStrategy(s.updateStrategy)
      /\ d.probes = defaultProbes(s.probes)
      /\ d.config = s.config /\ d.gatewayConfig = s.gatewayConfig
      /\ d.env = s.env /\ d.envFrom = s.envFrom /\ d.secretRefs = s.secretRefs
      /\ d.fileMounts = s.fileMounts
  BY Defaulted, Zenon
<1> HIDE DEF d
<1>2. desiredReplicas(d) = desiredReplicas(s)
  BY <1>1 DEF desiredReplicas, OrElse
<1>3. statefulSetUpdateStrategy(d) = statefulSetUpdateStrategy(s)
  <2>1. s.updateStrategy \in [type : Text, rollingUpdate : BOOLEAN, partition : Optional(Int)]
    BY DEF HermesAgentSpec
  <2>2. /\ d.updateStrategy.type = OrElse(s.updateStrategy.type, Empty, "RollingUpdate")
        /\ d.updateStrategy.rollingUpdate = s.updateStrategy.rollingUpdate
        /\ d.updateStrategy.partition = s.updateStrategy.partition
    BY <1>1, <2>1 DEF defaultStrategy
  <2> QED
    BY <2>2, Zenon DEF statefulSetUpdateStrategy, OrElse
<1>4. hermesImage(d.image) = hermesImage(s.image)
  <2>1. /\ d.image.repository = s.image.repository /\ d.image.tag = s.image.tag
        /\ d.image.pullPolicy = s.image.pullPolicy
    BY <1>1 DEF defaultImage, OrElse
  <2> QED
    BY <2>1, Zenon DEF hermesImage
<1>5. (IF d.mode = Empty THEN "gateway" ELSE d.mode)
        = (IF s.mode = Empty THEN "gateway" ELSE s.mode)
  BY <1>1 DEF OrElse
<1>6. (d.automount = TRUE) = (s.automount = TRUE)
  BY <1>1, AdmissionAssumption, Zenon DEF OrElse
<1>7. /\ servicePort(d) = servicePort(s) /\ serviceTargetPort(d) = serviceTargetPort(s)
      /\ serviceType(d) = serviceType(s) /\ d.service.enabled = s.service.enabled
  <2>1. s.service \in [enabled : BOOLEAN, type : Text, port : Int, targetPort : Int]
    BY DEF HermesAgentSpec
  <2>2. /\ d.service.type = OrElse(s.service.type, Empty, "ClusterIP")
        /\ d.service.port = OrElse(s.service.port, 0, 8080)
        /\ d.service.targetPort = s.service.targetPort
        /\ d.service.enabled = s.service.enabled
    BY <1>1, <2>1 DEF defaultService
  <2>3. servicePort(d) = servicePort(s)
    BY <2>1, <2>2 DEF servicePort, OrElse
  <2> QED
    BY <2>2, <2>3 DEF serviceTargetPort, serviceType, OrElse
<1>8. mountPaths(d) = mountPaths(s) /\ containerEnv(d) = containerEnv(s)
  BY <1>1, Zenon DEF mountPaths, containerEnv
<1>9. /\ persistenceEnabled(d) = persistenceEnabled(s)
      /\ persistenceSize(d) = persistenceSize(s)
      /\ persistenceAccessModes(d) = persistenceAccessModes(s)
  <2>1. /\ d.persistence.enabled = OrElse(s.persistence.enabled, Unset, TRUE)
        /\ d.persistence.size = OrElse(s.persistence.size, Empty, 10)
        /\ d.persistence.accessModes = OrElse(s.persistence.accessModes, {}, {"ReadWriteOnce"})
    BY <1>1 DEF defaultPersistence
  <2>2. persistenceEnabled(d) = persistenceEnabled(s)
    BY <2>1, AdmissionAssumption, Zenon DEF persistenceEnabled, OrElse
  <2>3. persistenceSize(d) = persistenceSize(s)
    BY <2>1 DEF persistenceSize, OrElse
  <2>4. persistenceAccessModes(d) = persistenceAccessModes(s)
    BY <2>1 DEF persistenceAccessModes, OrElse
  <2> QED
    BY <2>2, <2>3, <2>4
<1>10. /\ networkPolicyEnabled(d) = networkPolicyEnabled(s)
       /\ buildNetworkPolicy(d) = buildNetworkPolicy(s)
  <2>1. s.networkPolicy \in [ enabled : Optional(BOOLEAN), destinations : SUBSET Peer,
                              tcp : SUBSET Int, udp : SUBSET Int ]
    BY DEF HermesAgentSpec
  <2>2. /\ d.networkPolicy.enabled = OrElse(s.networkPolicy.enabled, Unset, FALSE)
        /\ d.networkPolicy.destinations = s.networkPolicy.destinations
        /\ d.networkPolicy.tcp = s.networkPolicy.tcp
        /\ d.networkPolicy.udp = s.networkPolicy.udp
    BY <1>1, <2>1 DEF defaultNetworkPolicy
  <2>3. networkPolicyEnabled(d) = networkPolicyEnabled(s)
    BY <2>2, AdmissionAssumption, Zenon DEF networkPolicyEnabled, OrElse
  <2>4. buildNetworkPolicy(d) = buildNetworkPolicy(s)
    BY <2>2, Zenon DEF buildNetworkPolicy
  <2> QED
    BY <2>3, <2>4
<1>11. buildStatefulSet(d) = buildStatefulSet(s)
  BY <1>1, <1>2, <1>3, <1>4, <1>5, <1>6, <1>7, <1>8, <1>9, SameProbes, Zenon
  DEF buildStatefulSet
<1>12. buildPersistentVolumeClaim(d) = buildPersistentVolumeClaim(s)
  BY <1>9, Zenon DEF buildPersistentVolumeClaim
<1>13. buildService(d) = buildService(s)
  BY <1>7, Zenon DEF buildService
<1> QED
  BY <1>7, <1>9, <1>10, <1>11, <1>12, <1>13, Zenon DEF Children, d

-----------------------------------------------------------------------------
(* The checks against the API server.                                      *)

\* Every stage of a pass gets through.
Passes(s) == \A i \in DOMAIN Stages(s) : Stages(s)[i].ok

\* The stages of a pass, one by one.
LEMMA StagesAre ==
    ASSUME NEW s
    PROVE  LET c == Children(s)
               g == Stages(s)
           IN  /\ DOMAIN g = 1..5 /\ Len(g) = 5
               /\ g[1].ok <=> buildConfigPlan(s)
               /\ g[2].ok <=> (c.claim = Unset \/ (c.claim.size # Bad /\ AcceptsClaim(c.claim)))
               /\ g[3].ok <=> AcceptsStatefulSet(c.statefulSet)
               /\ g[4].ok <=> (c.service = Unset \/ AcceptsService(c.service))
               /\ g[5].ok <=> (c.networkPolicy = Unset \/ AcceptsNetworkPolicy(c.networkPolicy))
               /\ g[1].reason = "InvalidConfig"
               /\ \A i \in 2..5 : g[i].reason \in Outcomes \ {"Accepted", "InvalidConfig"}
<1> DEFINE c  == Children(s)
           k1 == buildConfigPlan(s)
           k2 == c.claim = Unset \/ (c.claim.size # Bad /\ AcceptsClaim(c.claim))
           k3 == AcceptsStatefulSet(c.statefulSet)
           k4 == c.service = Unset \/ AcceptsService(c.service)
           k5 == c.networkPolicy = Unset \/ AcceptsNetworkPolicy(c.networkPolicy)
<1>1. Stages(s) = << [reason |-> "InvalidConfig", ok |-> k1],
                     [reason |-> "PersistentVolumeClaimReconcileFailed", ok |-> k2],
                     [reason |-> "StatefulSetReconcileFailed", ok |-> k3],
                     [reason |-> "ServiceReconcileFailed", ok |-> k4],
                     [reason |-> "NetworkPolicyReconcileFailed", ok |-> k5] >>
  BY Zenon DEF Stages
<1> HIDE DEF k1, k2, k3, k4, k5
<1>2. LET g == Stages(s)
      IN  /\ DOMAIN g = 1..5 /\ Len(g) = 5
          /\ g[1].ok = k1 /\ g[2].ok = k2 /\ g[3].ok = k3 /\ g[4].ok = k4 /\ g[5].ok = k5
          /\ g[1].reason = "InvalidConfig"
          /\ \A i \in 2..5 : g[i].reason \in Outcomes \ {"Accepted", "InvalidConfig"}
  BY <1>1 DEF Outcomes
<1> QED
  BY <1>2, Zenon DEF k1, k2, k3, k4, k5

\* The claim of a spec the webhook lets through.
LEMMA ClaimPasses ==
    ASSUME NEW s \in HermesAgentSpec, validateHermesAgent(s), ~Gap(s)
    PROVE  LET claim == Children(s).claim
           IN  claim = Unset \/ (claim.size # Bad /\ AcceptsClaim(claim))
<1>1. /\ validateStorage(s.persistence)
      /\ AccessModes(s.persistence.accessModes)
  BY Zenon DEF validateHermesAgent, Gap
<1>2. s.persistence.size \in Int \cup {Empty, Bad}
  BY DEF HermesAgentSpec
<1>3. Children(s).claim = IF persistenceEnabled(s) THEN buildPersistentVolumeClaim(s) ELSE Unset
  BY DEF Children
<1>4. LET claim == buildPersistentVolumeClaim(s)
      IN  claim.size # Bad /\ AcceptsClaim(claim)
  <2>1. Bad \notin Int
    BY AdmissionAssumption
  <2> QED
    BY <1>1, <1>2, <2>1 DEF validateStorage, buildPersistentVolumeClaim, AcceptsClaim,
                            AccessModes, persistenceSize, persistenceAccessModes
<1> QED
  BY <1>3, <1>4, Zenon

\* The ports of a spec the webhook lets through, when it has a Service.
LEMMA PortsPass ==
    ASSUME NEW s \in HermesAgentSpec, validateHermesAgent(s), ~Gap(s), s.service.enabled
    PROVE  Port(servicePort(s)) /\ Port(serviceTargetPort(s))
<1>1. /\ validateService(s.service)
      /\ ~(s.service.port > MaxPort) /\ ~(s.service.targetPort > MaxPort)
  BY Zenon DEF validateHermesAgent, Gap
<1>2. s.service.port \in Int /\ s.service.targetPort \in Int
  BY DEF HermesAgentSpec
<1> QED
  BY <1>1, <1>2 DEF validateService, servicePort, serviceTargetPort, Port, MaxPort

\* The variable the operator sets.
HermesHome == [ name |-> "HERMES_HOME", value |-> TRUE,
                configMapKeyRef |-> Unset, secretKeyRef |-> Unset ]

\* The container has the variables of the spec and the operator's.
LEMMA ContainerEnv ==
    ASSUME NEW s \in HermesAgentSpec
    PROVE  \A v \in Range(containerEnv(s)) : v \in Range(s.env) \/ v = HermesHome
<1> DEFINE named == {i \in DOMAIN s.env : s.env[i].name = HermesHome.name}
           replaced == [i \in DOMAIN s.env |->
                           IF i \in named /\ \A j \in named : i <= j
                           THEN HermesHome ELSE s.env[i]]
<1>1. s.env \in Seq(EnvVar)
  BY DEF HermesAgentSpec
<1>2. containerEnv(s) = IF named = {} THEN Append(s.env, HermesHome) ELSE replaced
  BY DEF containerEnv, upsertEnvVar, HermesHome
<1> HIDE DEF HermesHome
<1>3. \A v \in Range(replaced) : v \in Range(s.env) \/ v = HermesHome
  BY DEF Range
<1>4. \A v \in Range(Append(s.env, HermesHome)) : v \in Range(s.env) \/ v = HermesHome
  BY <1>1 DEF Range
<1> QED
  BY <1>2, <1>3, <1>4, Zenon

\* Its StatefulSet.
LEMMA StatefulSetPasses ==
    ASSUME NEW s \in HermesAgentSpec, validateHermesAgent(s), ~Gap(s)
    PROVE  AcceptsStatefulSet(Children(s).statefulSet)
<1> DEFINE sts == buildStatefulSet(s)
<1>1. Children(s).statefulSet = sts
  BY DEF Children
<1>2. /\ sts.replicas = desiredReplicas(s)
      /\ sts.strategy = statefulSetUpdateStrategy(s)
      /\ sts.image = hermesImage(s.image)
      /\ sts.env = containerEnv(s) /\ sts.envFrom = s.envFrom
      /\ sts.port = IF s.service.enabled THEN serviceTargetPort(s) ELSE Unset
      /\ sts.mounts = mountPaths(s)
  BY DEF buildStatefulSet
<1> HIDE DEF sts
<1>3. sts.replicas >= 0
  <2>1. validateReplicas(s)
    BY Zenon DEF validateHermesAgent
  <2>2. s.replicas \in Int
    BY DEF HermesAgentSpec
  <2> QED
    BY <1>2, <2>1, <2>2 DEF validateReplicas, desiredReplicas
<1>4. sts.strategy.partition # Unset => sts.strategy.partition >= 0
  <2>1. validateUpdateStrategy(s.updateStrategy)
    BY Zenon DEF validateHermesAgent
  <2>2. sts.strategy.partition = Unset
        \/ (s.updateStrategy.rollingUpdate /\ sts.strategy.partition = s.updateStrategy.partition)
    BY <1>2 DEF statefulSetUpdateStrategy
  <2> QED
    BY <2>1, <2>2 DEF validateUpdateStrategy
<1>5. sts.image.pullPolicy \in {"IfNotPresent", "Always", "Never"}
  <2>1. s.image.pullPolicy \in {"IfNotPresent", "Always", "Never"}
    BY Zenon DEF Gap
  <2> QED
    BY <1>2, <2>1 DEF hermesImage
<1>6. \A v \in Range(sts.env) :
          /\ v.name # Empty
          /\ OneSource(v)
          /\ {v.configMapKeyRef, v.secretKeyRef} \subseteq {Unset, KeyRef}
  <2>1. /\ validateEnv(s.env)
        /\ \A v \in Range(containerEnv(s)) : OneSource(v)
    BY Zenon DEF validateHermesAgent, Gap
  <2>2. \A v \in Range(containerEnv(s)) : v \in Range(s.env) \/ v = HermesHome
    BY ContainerEnv
  <2>3. \A v \in Range(s.env) :
           v.name # Empty /\ {v.configMapKeyRef, v.secretKeyRef} \subseteq {Unset, KeyRef}
    BY <2>1 DEF validateEnv, Complete
  <2>4. /\ HermesHome.name # Empty
        /\ {HermesHome.configMapKeyRef, HermesHome.secretKeyRef} \subseteq {Unset, KeyRef}
    BY AdmissionAssumption DEF HermesHome
  <2> QED
    BY <1>2, <2>1, <2>2, <2>3, <2>4, Zenon
<1>7. \A e \in sts.envFrom : /\ ExactlyOne(e.configMapRef, e.secretRef)
                             /\ {e.configMapRef, e.secretRef} \subseteq {Unset, NameRef}
  <2>1. validateEnvFrom(s.envFrom)
    BY Zenon DEF validateHermesAgent
  <2> QED
    BY <1>2, <2>1 DEF validateEnvFrom, Complete
<1>8. sts.port # Unset => Port(sts.port)
  BY <1>2, PortsPass
<1>9. IsInjective(sts.mounts)
  BY <1>2, Zenon DEF Gap
<1> QED
  BY <1>1, <1>3, <1>4, <1>5, <1>6, <1>7, <1>8, <1>9, Zenon DEF AcceptsStatefulSet

\* Its Service.
LEMMA ServicePasses ==
    ASSUME NEW s \in HermesAgentSpec, validateHermesAgent(s), ~Gap(s)
    PROVE  Children(s).service = Unset \/ AcceptsService(Children(s).service)
<1>1. Children(s).service = IF s.service.enabled THEN buildService(s) ELSE Unset
  BY DEF Children
<1>2. CASE s.service.enabled
  <2>1. s.service.type \in {"ClusterIP", "NodePort", "LoadBalancer"}
    BY <1>2, Zenon DEF Gap
  <2>2. serviceType(s) \in {"ClusterIP", "NodePort", "LoadBalancer"}
    BY <2>1 DEF serviceType
  <2>3. Port(servicePort(s)) /\ Port(serviceTargetPort(s))
    BY <1>2, PortsPass
  <2>4. /\ Children(s).service.type = serviceType(s)
        /\ Children(s).service.port = servicePort(s)
        /\ Children(s).service.targetPort = serviceTargetPort(s)
    BY <1>1, <1>2 DEF buildService
  <2> QED
    BY <2>2, <2>3, <2>4 DEF AcceptsService
<1> QED
  BY <1>1, <1>2

\* Its NetworkPolicy.
LEMMA NetworkPolicyPasses ==
    ASSUME NEW s \in HermesAgentSpec, validateHermesAgent(s), ~Gap(s)
    PROVE  Children(s).networkPolicy = Unset \/ AcceptsNetworkPolicy(Children(s).networkPolicy)
<1> DEFINE policy == buildNetworkPolicy(s)
<1>1. Children(s).networkPolicy = IF networkPolicyEnabled(s) THEN policy ELSE Unset
  BY DEF Children
<1>2. /\ policy.peers = s.networkPolicy.destinations
      /\ policy.tcp \subseteq s.networkPolicy.tcp /\ policy.udp \subseteq s.networkPolicy.udp
  BY DEF buildNetworkPolicy
<1>3. validateNetworkPolicy(s.networkPolicy)
  BY Zenon DEF validateHermesAgent
<1>4. \A d \in s.networkPolicy.destinations : d.cidr # Empty =>
          /\ d.namespaceSelector = Unset /\ d.podSelector = Unset
          /\ \A e \in d.except : e \subseteq d.cidr /\ e # d.cidr
  BY Zenon DEF Gap
<1>5. AcceptsNetworkPolicy(policy)
  <2> HIDE DEF policy
  <2> QED
    BY <1>2, <1>3, <1>4, Zenon DEF validateNetworkPolicy, AcceptsNetworkPolicy, Port
<1> QED
  BY <1>1, <1>5, Zenon

\* Outside the gaps, what the webhook lets through the API server takes.
LEMMA ValidPasses ==
    ASSUME NEW s \in HermesAgentSpec, validateHermesAgent(s), ~Gap(s)
    PROVE  Passes(s)
<1>1. buildConfigPlan(s)
  BY PlansAgree, Zenon DEF validateHermesAgent, Checked
<1>2. \A i \in 1..5 : i = 1 \/ i = 2 \/ i = 3 \/ i = 4 \/ i = 5
  OBVIOUS
<1> QED
  BY <1>1, <1>2, StagesAre, ClaimPasses, StatefulSetPasses, ServicePasses,
     NetworkPolicyPasses, Zenon DEF Passes

\* No two pods share the claim.
LEMMA OnePodPerClaim ==
    ASSUME NEW s \in HermesAgentSpec, validateHermesAgent(s), persistenceEnabled(s)
    PROVE  desiredReplicas(s) = 1
<1>1. validateReplicas(s)
  BY Zenon DEF validateHermesAgent
<1>2. s.replicas \in Int /\ s.persistence.enabled \in Optional(BOOLEAN)
  BY DEF HermesAgentSpec
<1>3. s.persistence.enabled \in {Unset, TRUE}
  BY <1>2, Zenon DEF persistenceEnabled, Optional
<1>4. s.replicas > 0 /\ ~(s.replicas > 1)
  BY <1>1, <1>3, Zenon DEF validateReplicas
<1> QED
  BY <1>2, <1>4 DEF desiredReplicas

-----------------------------------------------------------------------------
(* The system.                                                             *)

\* What is known of the stored spec however it got there.
Typed ==
    /\ stored \in HermesAgentSpec \cup {Unset}
    /\ outcome \in Outcomes \cup {Unset}
    /\ stored # Unset => stored.image.repository # Empty

\* The outcome of a pass is about the spec that is stored now.
Current ==
    outcome # Unset =>
        /\ stored # Unset
        /\ outcome = "InvalidConfig" <=> ~buildConfigPlan(stored)
        /\ Passes(stored) => outcome = "Accepted"

\* An admitted spec went through the validating webhook as it is now.
Validated == admitted => stored # Unset /\ validateHermesAgent(stored)

Kept == Typed /\ Current /\ Validated

\* A pass of the controller comes to its first stage that fails.
LEMMA Verdict ==
    ASSUME Reconcile
    PROVE  /\ outcome' \in Outcomes
           /\ outcome' = "InvalidConfig" <=> ~buildConfigPlan(stored)
           /\ Passes(stored) => outcome' = "Accepted"
<1> DEFINE g == Stages(stored)
<1>1. \/ (\A j \in 1 .. (Len(g) + 1) - 1 : g[j].ok) /\ outcome' = "Accepted"
      \/ \E i \in DOMAIN g : /\ \A j \in 1 .. i - 1 : g[j].ok
                             /\ ~g[i].ok /\ outcome' = g[i].reason
  BY Zenon DEF Reconcile
<1>2. /\ DOMAIN g = 1..5 /\ Len(g) = 5
      /\ g[1].ok <=> buildConfigPlan(stored)
      /\ g[1].reason = "InvalidConfig"
      /\ \A i \in 2..5 : g[i].reason \in Outcomes \ {"Accepted", "InvalidConfig"}
  BY StagesAre, Zenon
<1> HIDE DEF g
<1>3. CASE (\A j \in 1 .. (Len(g) + 1) - 1 : g[j].ok) /\ outcome' = "Accepted"
  <2>1. 1 \in 1 .. (Len(g) + 1) - 1
    BY <1>2
  <2>2. "Accepted" \in Outcomes /\ "Accepted" # "InvalidConfig"
    BY DEF Outcomes
  <2> QED
    BY <1>2, <1>3, <2>1, <2>2, Zenon
<1>4. ASSUME NEW i \in DOMAIN g, \A j \in 1 .. i - 1 : g[j].ok, ~g[i].ok,
             outcome' = g[i].reason
      PROVE  /\ outcome' \in Outcomes
             /\ outcome' = "InvalidConfig" <=> ~buildConfigPlan(stored)
             /\ ~Passes(stored)
  <2>1. ~Passes(stored)
    BY <1>4, Zenon DEF Passes, g
  <2>2. CASE i = 1
    <3>1. "InvalidConfig" \in Outcomes
      BY DEF Outcomes
    <3> QED
      BY <1>2, <1>4, <2>1, <2>2, <3>1, Zenon
  <2>3. CASE i # 1
    <3>1. i \in 2..5 /\ 1 \in 1 .. i - 1
      BY <1>2, <2>3
    <3>2. g[1].ok /\ g[i].reason \in Outcomes \ {"Accepted", "InvalidConfig"}
      BY <1>2, <1>4, <3>1, Zenon
    <3> QED
      BY <1>2, <1>4, <2>1, <3>2, Zenon
  <2> QED
    BY <2>2, <2>3
<1> QED
  BY <1>1, <1>3, <1>4, Zenon

\* A write leaves a spec the schema takes, and one the webhook takes when it is asked.
LEMMA AdmitKeeps ==
    ASSUME NEW doc, NEW s \in HermesAgentSpec, Admit(doc, s)
    PROVE  Kept'
<1>1. /\ outcome' = Unset
      /\ \E t \in HermesAgentSpec : /\ stored' = t
                                    /\ t.image.repository # Empty
                                    /\ admitted' => validateHermesAgent(t)
  <2>1. CASE webhooks = "serving"
    BY <2>1, DefaultTyped, Zenon DEF Admit, schemaValid
  <2>2. CASE webhooks # "serving"
    BY <2>2, Zenon DEF Admit, schemaValid
  <2> QED
    BY <2>1, <2>2
<1>2. Unset \notin HermesAgentSpec
  BY AdmissionAssumption
<1>3. Typed' /\ Current'
  BY <1>1, <1>2, Zenon DEF Typed, Current
<1>4. Validated'
  BY <1>1, <1>2, Zenon DEF Validated
<1> QED
  BY <1>3, <1>4 DEF Kept

\* A write comes with a spec.
LEMMA DecodedOf ==
    /\ \A doc \in Documents : decoded(doc) \in HermesAgentSpec
    /\ \A doc \in Updates : decoded(doc) \in HermesAgentSpec
  BY AdmissionAssumption, DecodedTyped

\* Every step keeps what is known.
LEMMA StepKeeps ==
    ASSUME Kept, [Next]_vars
    PROVE  Kept'
<1>1. ASSUME NEW doc \in Documents, Create(doc)
      PROVE  Kept'
  BY <1>1, AdmitKeeps, DecodedOf DEF Create
<1>2. ASSUME NEW doc \in Updates, Update(doc)
      PROVE  Kept'
  BY <1>2, AdmitKeeps, DecodedOf DEF Update
<1>3. CASE Touch
  <2>1. stored \in HermesAgentSpec
    BY <1>3, Zenon DEF Touch, Kept, Typed
  <2> QED
    BY <1>3, <2>1, AdmitKeeps, Zenon DEF Touch
<1>4. CASE Remove
  BY <1>4, Zenon DEF Remove, Kept, Typed, Current, Validated
<1>5. CASE SetWebhooks
  BY <1>5, Zenon DEF SetWebhooks, Kept, Typed, Current, Validated
<1>6. CASE Reconcile
  <2>1. stored # Unset /\ stored' = stored /\ admitted' = admitted
    BY <1>6, Zenon DEF Reconcile
  <2> QED
    BY <1>6, <2>1, Verdict, Zenon DEF Kept, Typed, Current, Validated
<1>7. CASE UNCHANGED vars
  BY <1>7, Zenon DEF vars, Kept, Typed, Current, Validated
<1> QED
  BY <1>1, <1>2, <1>3, <1>4, <1>5, <1>6, <1>7 DEF Next

\* Before there is an agent nothing is known of it.
LEMMA InitKept == Init => Kept
  BY Zenon DEF Init, Kept, Typed, Current, Validated

LEMMA AlwaysKept == Spec => []Kept
  BY InitKept, StepKeeps, PTL DEF Spec

\* Without webhooks the controller refuses exactly the sources and file mounts the
\* webhook would have refused, for every spec a document can leave in the API server
\* (validateFileMountSpecs, resolveConfigFile against validateFileMounts,
\* validateConfigSource).
THEOREM BackstopHolds == Spec => []BackstopAgrees
<1>1. ASSUME Kept
      PROVE  BackstopAgrees
  <2>1. SUFFICES ASSUME stored # Unset, outcome # Unset
                 PROVE  (outcome = "InvalidConfig") = ~Checked(stored)
    BY Zenon DEF BackstopAgrees, Checked
  <2>2. stored \in HermesAgentSpec
    BY <1>1, <2>1, Zenon DEF Kept, Typed
  <2>3. outcome = "InvalidConfig" <=> ~Checked(stored)
    BY <1>1, <2>1, <2>2, PlansAgree, Zenon DEF Kept, Current
  <2> QED
    BY <2>3, Zenon
<1> QED
  BY <1>1, AlwaysKept, PTL

\* What the webhook admits the controller's own checks take; outside the gaps the API
\* server takes all its children, and no two pods share its claim (validateHermesAgent
\* against buildConfigPlan and the builders of the children).
THEOREM AdmittedAlwaysRuns == Spec => []AdmittedRuns
<1>1. ASSUME Kept
      PROVE  AdmittedRuns
  <2>1. SUFFICES ASSUME admitted, outcome # Unset
                 PROVE  /\ outcome # "InvalidConfig"
                        /\ ~Gap(stored) => outcome = "Accepted"
                        /\ persistenceEnabled(stored) => desiredReplicas(stored) = 1
    BY Zenon DEF AdmittedRuns
  <2>2. stored \in HermesAgentSpec /\ validateHermesAgent(stored)
    BY <1>1, <2>1, Zenon DEF Kept, Typed, Validated
  <2>3. Checked(stored)
    BY <2>2, Zenon DEF validateHermesAgent, Checked
  <2>4. outcome # "InvalidConfig"
    BY <1>1, <2>1, <2>2, <2>3, PlansAgree, Zenon DEF Kept, Current
  <2>5. ~Gap(stored) => outcome = "Accepted"
    BY <1>1, <2>1, <2>2, ValidPasses, Zenon DEF Kept, Current
  <2> QED
    BY <2>2, <2>4, <2>5, OnePodPerClaim
<1> QED
  BY <1>1, AlwaysKept, PTL

\* Touching an agent after the webhooks were turned on changes no child of it: the
\* defaults Default writes into its spec are the ones the controller applied all along.
THEOREM DefaultsChangeNothing == Spec => DefaultsHarmless
<1> DEFINE Harmless ==
        (stored # Unset /\ Touch /\ Empty \notin {stored.image.tag, stored.image.pullPolicy})
            => Children(stored') = Children(stored)
<1>1. ASSUME Kept
      PROVE  Harmless
  <2>1. SUFFICES ASSUME stored # Unset, Touch,
                        Empty \notin {stored.image.tag, stored.image.pullPolicy}
                 PROVE  Children(stored') = Children(stored)
    BY Zenon
  <2>2. /\ stored \in HermesAgentSpec
        /\ Empty \notin {stored.image.repository, stored.image.tag, stored.image.pullPolicy}
    BY <1>1, <2>1, Zenon DEF Kept, Typed
  <2>3. webhooks = "serving" /\ webhooks # "off"
    BY <2>1 DEF Touch
  <2>4. stored' = Default(stored)
    BY <2>1, <2>3, Zenon DEF Touch, Admit
  <2> QED
    BY <2>2, <2>4, SameChildren, Zenon
<1>2. Kept => [Harmless]_vars
  BY <1>1
<1> HIDE DEF Harmless
<1>3. Spec => [][Harmless]_vars
  BY <1>2, AlwaysKept, PTL
<1> QED
  BY <1>3 DEF DefaultsHarmless, Harmless
=============================================================================
