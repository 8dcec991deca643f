--------------------------- MODULE HermesResources ---------------------------
(***************************************************************************)
(* What the operator derives from a HermesAgent spec and from the          *)
(* ConfigMaps and Secrets the spec refers to: the config plan and its      *)
(* hash, and the desired spec of every child object                        *)
(* (internal/controller/hermesagent_resources.go).                         *)
(*                                                                         *)
(* A spec is a record of the fields the reconciler branches on.  A file    *)
(* (config.yaml, gateway.json) comes from spec text (a member of           *)
(* Contents), from a referenced object (a member of Inputs) or is not set  *)
(* (None).  An input holds the content of the one key the spec asks for,   *)
(* or lacks that key (NoKey), or does not exist (Absent).                  *)
(***************************************************************************)
EXTENDS Integers

CONSTANTS
    None,          \* an unset field
    Absent,        \* no object of this name
    NoKey,         \* the object exists but lacks the key
    Contents,      \* file contents
    Inputs,        \* names of referenced ConfigMaps and Secrets
    Images,        \* container images
    Classes,       \* storage classes
    DefaultClass,  \* the cluster's default storage class
    BackendOf,     \* the terminal.backend a content names, None if it names none
    NodePorts      \* node ports the API server may allocate

ASSUME ResourcesAssumption ==
    /\ None \notin Contents \cup Inputs \cup Classes
    /\ Absent \notin Contents
    /\ NoKey \notin Contents
    /\ NoKey # Absent
    /\ Contents \cap Inputs = {}
    /\ DefaultClass \in Classes
    /\ BackendOf \in [Contents -> {"ssh", "local", None}]
    /\ NodePorts \subseteq Nat \ {0}

ConfigIds == {"config", "gateway-config"}
OptKinds  == {"Service", "NetworkPolicy", "PodDisruptionBudget"}
Children  == ConfigIds \cup {"PersistentVolumeClaim", "StatefulSet"} \cup OptKinds

(* How a spec uses an input besides its two files: not at all, one key of  *)
(* it (env valueFrom, a projected file mount), or the whole object         *)
(* (envFrom, secretRefs, a file mount without items).                      *)
Uses == {"none", "key", "optionalKey", "whole", "optionalWhole"}

Modes == {"ReadWriteOnce", "ReadWriteMany"}

ServiceTypes == {"ClusterIP", "NodePort", "LoadBalancer"}

AgentSpec ==
    [ valid         : BOOLEAN,   \* at most one source per file, well-formed mounts
      image         : Images,
      src           : [ConfigIds -> Contents \cup Inputs \cup {None}],
      env           : [Inputs -> Uses],
      persistence   : BOOLEAN,
      modes         : SUBSET Modes,
      class         : Classes \cup {None},
      size          : Nat,       \* 0: a string that is not a quantity
      service       : [type : ServiceTypes, port : Nat] \cup {None},
      networkPolicy : BOOLEAN,
      terminal      : {"ssh", "local"},
      replicas      : Nat ]

InputValues == Contents \cup {NoKey, Absent}

-----------------------------------------------------------------------------
(* The config plan.                                                        *)

\* The files the operator keeps in ConfigMaps of its own.
Generated(s) == {id \in ConfigIds : s.src[id] \in Contents}

FileRefs(s) == {s.src[id] : id \in ConfigIds} \cap Inputs

\* referencesConfigMap and referencesSecret.
Referenced(s) == FileRefs(s) \cup {i \in Inputs : s.env[i] # "none"}

\* Inputs the config plan cannot do without and the snapshot does not have.
missingReferences(s, refs) ==
    {i \in Inputs :
        \/ (i \in FileRefs(s) \/ s.env[i] = "key") /\ refs[i] \in {Absent, NoKey}
        \/ s.env[i] = "whole" /\ refs[i] = Absent}

Snapshot(s, refs) ==
    [i \in Inputs |-> IF i \in Referenced(s) THEN refs[i] ELSE Absent]

\* SHA-256 of the plan: taken to be injective, so the payload stands for it.
configHash(s, refs) ==
    [src |-> s.src, env |-> s.env, refs |-> Snapshot(s, refs)]

Hashes ==
    [ src  : [ConfigIds -> Contents \cup Inputs \cup {None}],
      env  : [Inputs -> Uses],
      refs : [Inputs -> InputValues] ]

\* The backend config.yaml names wins over spec.terminal.backend.
effectiveTerminalBackend(s, refs) ==
    LET source  == s.src["config"]
        content == IF source \in Inputs THEN refs[source] ELSE source
        named   == IF content \in Contents THEN BackendOf[content] ELSE None
    IN  IF named # None THEN named ELSE s.terminal

-----------------------------------------------------------------------------
(* The desired spec of each child.                                         *)

desiredReplicas(s) == IF s.replicas = 0 THEN 1 ELSE s.replicas

persistenceAccessModes(s) == IF s.modes = {} THEN {"ReadWriteOnce"} ELSE s.modes

\* 0 stands for an unset port (serviceTargetPort follows servicePort).
servicePort(s) == IF s.service.port = 0 THEN 8080 ELSE s.service.port

buildPersistentVolumeClaim(s) ==
    [modes |-> persistenceAccessModes(s), class |-> s.class, size |-> s.size]

buildStatefulSet(s, hash) ==
    [ hash     |-> hash,
      image    |-> s.image,
      replicas |-> desiredReplicas(s),
      claim    |-> s.persistence,
      port     |-> IF s.service = None THEN 0 ELSE servicePort(s),
      mounts   |-> Generated(s) ]

buildService(s) ==
    [type |-> s.service.type, port |-> servicePort(s), nodePort |-> 0]

\* Port 22 is open only for the ssh backend; the rest does not depend on inputs.
buildNetworkPolicy(s, refs) == [ssh |-> effectiveTerminalBackend(s, refs) = "ssh"]

buildPodDisruptionBudget == [maxUnavailable |-> 1]

Enabled(k, s) ==
    CASE k = "Service"             -> s.service # None
      [] k = "NetworkPolicy"       -> s.networkPolicy
      [] k = "PodDisruptionBudget" -> desiredReplicas(s) > 1

Desired(k, s, refs) ==
    CASE k \in ConfigIds               -> s.src[k]
      [] k = "PersistentVolumeClaim"   -> buildPersistentVolumeClaim(s)
      [] k = "StatefulSet"             -> buildStatefulSet(s, configHash(s, refs))
      [] k = "Service"                 -> buildService(s)
      [] k = "NetworkPolicy"           -> buildNetworkPolicy(s, refs)
      [] k = "PodDisruptionBudget"     -> buildPodDisruptionBudget

\* The specs a child object of kind k can hold.
ChildSpec(k) ==
    CASE k \in ConfigIds -> Contents
      [] k = "PersistentVolumeClaim" ->
            [modes : SUBSET Modes, class : Classes \cup {None}, size : Nat]
      [] k = "StatefulSet" ->
            [ hash : Hashes, image : Images, replicas : Nat, claim : BOOLEAN,
              port : Nat, mounts : SUBSET ConfigIds ]
      [] k = "Service" -> [type : ServiceTypes, port : Nat, nodePort : Nat]
      [] k = "NetworkPolicy" -> [ssh : BOOLEAN]
      [] k = "PodDisruptionBudget" -> [maxUnavailable : Nat]
=============================================================================
