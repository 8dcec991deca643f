------------------------------- MODULE Rollout -------------------------------
(***************************************************************************)
(* From the inputs of one HermesAgent to the content its pods run with:    *)
(* the passes of the reconciler, which write the generated ConfigMaps in   *)
(* place before they change the pod template, the StatefulSet controller,  *)
(* which replaces pods when the template changes, and the kubelet, which   *)
(* reads the mounted objects when a container starts, whatever template    *)
(* the pod was made from.                                                  *)
(*                                                                         *)
(* The worker reads current objects here; lagging caches, lost wake-ups    *)
(* and ownership are the subject of HermesReconciler.                      *)
(***************************************************************************)
EXTENDS ReferencedInputs

CONSTANTS
    Specs,         \* the specs the agent may start with
    SpecEdits,     \* pairs of specs: what users change a spec to
    InitialInputs, \* the inputs there may be at first
    InputEdits,    \* pairs of inputs: what users change an object to
    Replicas,      \* pods of the StatefulSet
    MaxChanges,    \* bound on edits of the spec and of the inputs
    MaxEvictions,  \* bound on pods lost to their node
    MaxFaults      \* bound on passes cut short by an error or a crash

\* The specs with a config plan: a file has one source at most (the other specs end in
\* InvalidConfig before anything is resolved, see Admission).
HasPlan(spec) ==
    /\ spec.raw \in [ConfigIds -> Contents \cup {None}]
    /\ spec.uses \subseteq Use
    /\ \A u \in spec.uses : u.role \in ConfigIds =>
          spec.raw[u.role] = None /\ \A v \in spec.uses : v.role = u.role => v = u

ASSUME RolloutAssumption ==
    /\ \A spec \in Specs : HasPlan(spec)
    /\ \A edit \in SpecEdits : HasPlan(edit[2])
    /\ \A objects \in InitialInputs :
          DOMAIN objects = Names /\ \A n \in Names : objects[n] \in ObjectsOf(n) \cup {None}
    /\ \A n \in Names : \A edit \in InputEdits[n] : edit[2] \in ObjectsOf(n) \cup {None}
    /\ \A n \in Names : None \notin ObjectsOf(n)
    /\ \A selected \in SUBSET Keys :
          None \notin [selected -> (Contents \cup {None}) \X (Contents \cup {None})]
    /\ Replicas \in Nat \ {0}
    /\ {MaxChanges, MaxEvictions, MaxFaults} \subseteq Nat

VARIABLES
    inputs,       \* the ConfigMaps and Secrets users own
    agent,        \* spec of the HermesAgent
    configMaps,   \* content of the generated ConfigMaps
    statefulSet,  \* template, strategy and revisions
    ssh,          \* the NetworkPolicy lets the pods reach port 22
    missing,      \* the references the status reports as missing
    pods,         \* by ordinal: template, and what it read when it started
    pc, job,      \* the worker
    queued,       \* the agent is in the work queue
    changes, evictions, faults

worker == <<pc, job, missing, configMaps, ssh>>
vars == <<inputs, agent, statefulSet, pods, queued, changes, evictions, faults, worker>>

Ordinals == 0 .. Replicas - 1

Init ==
    /\ inputs \in InitialInputs
    /\ agent \in Specs
    /\ configMaps = [id \in ConfigIds |-> None]
    /\ statefulSet = None
    /\ ssh = FALSE
    /\ missing = {}
    /\ pods = [i \in Ordinals |-> None]
    /\ pc = "idle" /\ job = None
    /\ queued = TRUE
    /\ changes = 0 /\ evictions = 0 /\ faults = 0

-----------------------------------------------------------------------------
(* A pass.                                                                 *)

rawFiles(spec) == {id \in ConfigIds : spec.raw[id] # None}

\* The hash is an annotation of the template; the mounts are part of it too.
buildPodTemplateInputs(spec, refs) ==
    [ hash  |-> computeConfigHash(spec, refs),
      files |-> rawFiles(spec),
      uses  |-> spec.uses ]

\* The worker takes the agent from the queue; missing inputs lead to a status and no
\* further.
Resolve ==
    LET refs == resolveReferencedInputs(agent.uses, inputs)
    IN  /\ pc = "idle" /\ queued
        /\ queued' = FALSE
        /\ pc' = IF missingReferences(refs) = {} THEN "config" ELSE "missing"
        /\ job' = [spec |-> agent, refs |-> refs]
        /\ UNCHANGED <<inputs, agent, configMaps, statefulSet, ssh, missing, pods,
                       changes, evictions, faults>>

\* The pass ends without an error once the status is written.
returnStatusFailure ==
    /\ pc = "missing"
    /\ missing' = missingReferences(job.refs)
    /\ pc' = "idle" /\ job' = None
    /\ UNCHANGED <<inputs, agent, configMaps, statefulSet, ssh, pods, queued,
                   changes, evictions, faults>>

\* The generated ConfigMap of a file is overwritten in place.
reconcileInlineConfigMap(id) ==
    /\ pc = id
    /\ configMaps' = IF id \in rawFiles(job.spec)
                     THEN [configMaps EXCEPT ![id] = job.spec.raw[id]]
                     ELSE configMaps
    /\ pc' = IF id = "config" THEN "gateway-config" ELSE "cleanup"
    /\ UNCHANGED <<inputs, agent, statefulSet, ssh, missing, pods, job, queued,
                   changes, evictions, faults>>

Ready(i) == pods[i] # None /\ pods[i].read # None
readyReplicas == Cardinality({i \in Ordinals : Ready(i)})

\* Ready pods are counted whatever template they were made from.
statefulSetReadyForGeneratedConfigCleanup ==
    statefulSet # None /\ readyReplicas >= Replicas /\ statefulSet.observed

cleanupStaleGeneratedConfigMaps ==
    /\ pc = "cleanup"
    /\ configMaps' =
          IF statefulSetReadyForGeneratedConfigCleanup
          THEN [id \in ConfigIds |->
                   IF id \in rawFiles(job.spec) THEN configMaps[id] ELSE None]
          ELSE configMaps
    /\ pc' = "statefulset"
    /\ UNCHANGED <<inputs, agent, statefulSet, ssh, missing, pods, job, queued,
                   changes, evictions, faults>>

statefulSetUpdateStrategy(spec) ==
    IF spec.strategy = "OnDelete"
    THEN [type |-> "OnDelete", partition |-> 0]
    ELSE [type |-> "RollingUpdate", partition |-> spec.partition]

\* A new StatefulSet has one revision; an update leaves the current one in place.
reconcileStatefulSet ==
    LET template == buildPodTemplateInputs(job.spec, job.refs)
        strategy == statefulSetUpdateStrategy(job.spec)
        changed  == \/ statefulSet = None
                    \/ statefulSet.template # template
                    \/ statefulSet.strategy # strategy
    IN  /\ pc = "statefulset"
        /\ statefulSet' =
              IF ~changed THEN statefulSet
              ELSE [ template |-> template, strategy |-> strategy, observed |-> FALSE,
                     current  |-> IF statefulSet = None THEN template ELSE statefulSet.current ]
        /\ queued' = (queued \/ changed)
        /\ pc' = "networkpolicy"
        /\ UNCHANGED <<inputs, agent, configMaps, ssh, missing, pods, job,
                       changes, evictions, faults>>

reconcileNetworkPolicy ==
    /\ pc = "networkpolicy"
    /\ ssh' = (effectiveTerminalBackend(job.spec, job.refs) = "ssh")
    /\ pc' = "status"
    /\ UNCHANGED <<inputs, agent, configMaps, statefulSet, missing, pods, job, queued,
                   changes, evictions, faults>>

reconcileStatus ==
    /\ pc = "status"
    /\ missing' = {}
    /\ pc' = "idle" /\ job' = None
    /\ UNCHANGED <<inputs, agent, configMaps, statefulSet, ssh, pods, queued,
                   changes, evictions, faults>>

\* A call fails or the operator restarts: the agent is reconciled again from the start.
Interrupt ==
    /\ pc # "idle" /\ faults < MaxFaults
    /\ faults' = faults + 1
    /\ queued' = TRUE
    /\ pc' = "idle" /\ job' = None
    /\ UNCHANGED <<inputs, agent, configMaps, statefulSet, ssh, missing, pods,
                   changes, evictions>>

Worker ==
    \/ Resolve
    \/ returnStatusFailure
    \/ \E id \in ConfigIds : reconcileInlineConfigMap(id)
    \/ cleanupStaleGeneratedConfigMaps
    \/ reconcileStatefulSet
    \/ reconcileNetworkPolicy
    \/ reconcileStatus

-----------------------------------------------------------------------------
(* Users.  The watches queue the agent when its spec or an object it       *)
(* refers to changes.                                                      *)

UpdateAgent(spec) ==
    /\ changes < MaxChanges
    /\ <<agent, spec>> \in SpecEdits
    /\ agent' = spec
    /\ queued' = TRUE
    /\ changes' = changes + 1
    /\ UNCHANGED <<inputs, statefulSet, pods, evictions, faults, worker>>

ChangeInput(n, o) ==
    /\ changes < MaxChanges
    /\ <<inputs[n], o>> \in InputEdits[n]
    /\ inputs' = [inputs EXCEPT ![n] = o]
    /\ queued' = (queued \/ references(agent, n))
    /\ changes' = changes + 1
    /\ UNCHANGED <<agent, statefulSet, pods, evictions, faults, worker>>

-----------------------------------------------------------------------------
(* The StatefulSet controller (OrderedReady pods) and the kubelet.  Every  *)
(* change of the StatefulSet's status queues the agent.                    *)

external == <<inputs, agent, changes, faults, worker>>

\* The generation, and the revision a rollout has completed.
SyncStatefulSet ==
    LET done == \A i \in Ordinals : Ready(i) /\ pods[i].template = statefulSet.template
        synced == [statefulSet EXCEPT
                      !.observed = TRUE,
                      !.current  = IF done /\ statefulSet.strategy.type = "RollingUpdate"
                                   THEN statefulSet.template ELSE statefulSet.current]
    IN  /\ statefulSet # None /\ synced # statefulSet
        /\ statefulSet' = synced
        /\ queued' = TRUE
        /\ UNCHANGED <<pods, evictions, external>>

\* Below the partition a pod is made from the current revision.
Revision(i) ==
    IF statefulSet.strategy.type = "RollingUpdate" /\ i < statefulSet.strategy.partition
    THEN statefulSet.current ELSE statefulSet.template

CreatePod(i) ==
    /\ statefulSet # None /\ statefulSet.observed
    /\ pods[i] = None
    /\ \A j \in Ordinals : j < i => Ready(j)
    /\ pods' = [pods EXCEPT ![i] = [template |-> Revision(i), read |-> None]]
    /\ UNCHANGED <<statefulSet, queued, evictions, external>>

\* The highest outdated pod at or above the partition goes once all pods are ready.
RollPod(i) ==
    /\ statefulSet # None /\ statefulSet.observed
    /\ statefulSet.strategy.type = "RollingUpdate" /\ i >= statefulSet.strategy.partition
    /\ \A j \in Ordinals : Ready(j)
    /\ pods[i].template # statefulSet.template
    /\ \A j \in Ordinals : j > i => pods[j].template = statefulSet.template
    /\ pods' = [pods EXCEPT ![i] = None]
    /\ queued' = TRUE
    /\ UNCHANGED <<statefulSet, evictions, external>>

CanStart(t) ==
    /\ \A id \in t.files : configMaps[id] # None
    /\ \A u \in t.uses : Startable(u, inputs[u.name])

\* What a container made from template t finds when it starts now.
Reads(t) ==
    [ files |-> [id \in ConfigIds |-> IF id \in t.files THEN configMaps[id] ELSE None],
      uses  |-> [u \in t.uses |-> Seen(u, inputs[u.name])] ]

StartPod(i) ==
    /\ pods[i] # None /\ pods[i].read = None
    /\ CanStart(pods[i].template)
    /\ pods' = [pods EXCEPT ![i].read = Reads(pods[i].template)]
    /\ queued' = TRUE
    /\ UNCHANGED <<statefulSet, evictions, external>>

\* A pod is lost with its node, or a user deletes it.
EvictPod(i) ==
    /\ evictions < MaxEvictions
    /\ pods[i] # None
    /\ pods' = [pods EXCEPT ![i] = None]
    /\ evictions' = evictions + 1
    /\ queued' = TRUE
    /\ UNCHANGED <<statefulSet, external>>

StatefulSetController ==
    SyncStatefulSet \/ \E i \in Ordinals : CreatePod(i) \/ RollPod(i)

Next ==
    \/ Worker \/ Interrupt
    \/ StatefulSetController
    \/ \E i \in Ordinals : StartPod(i) \/ EvictPod(i)
    \/ \E edit \in SpecEdits : UpdateAgent(edit[2])
    \/ \E n \in Names : \E edit \in InputEdits[n] : ChangeInput(n, edit[2])

(* The worker, the StatefulSet controller and the kubelets go on working.  *)
Spec ==
    /\ Init /\ [][Next]_vars
    /\ WF_vars(Worker)
    /\ WF_vars(StatefulSetController)
    /\ \A i \in Ordinals : WF_vars(StartPod(i))

-----------------------------------------------------------------------------
(* What the rollout promises.                                              *)

\* Content the agent's references put before its container, and all that the
\* references select of an object.
Visible(objects)  == [u \in agent.uses |-> Seen(u, objects[u.name])]
Referred(objects) ==
    [u \in agent.uses |->
        IF objects[u.name] = None THEN None
        ELSE [k \in Selected(u) |-> <<objects[u.name].data[k], objects[u.name].binaryData[k]>>]]

Hash(objects) == computeConfigHash(agent, resolveReferencedInputs(agent.uses, objects))

\* Whenever a pass takes its snapshots, and whatever object a user then puts in place
\* of one of the inputs: content that a pod of this agent would see differently gives
\* another hash, and a change outside the selected keys leaves the hash alone
\* (computeConfigHash, new*Snapshot; "the rollout hash only tracks the selected keys").
HashTracksContent ==
    [][Resolve =>
        \A n \in Names : \A o \in ObjectsOf(n) \cup {None} :
            LET new == [inputs EXCEPT ![n] = o]
            IN  /\ Visible(new) # Visible(inputs) => Hash(new) # Hash(inputs)
                /\ Referred(new) = Referred(inputs) => Hash(new) = Hash(inputs)]_vars

Idle == pc = "idle" /\ ~queued

\* A text the env of a container cannot take although the snapshot has it.
OnlyBytes(u) ==
    /\ u.role = "env" /\ inputs[u.name] # None
    /\ inputs[u.name].binaryData[u.key] # None

\* While the operator sleeps the references it reports as missing are exactly those
\* that would keep a new pod of this agent from starting; the one exception is an env
\* value whose ConfigMap holds the key as bytes (missingReferenceMessages against
\* the kubelet).  HERMES_HOME, which upsertEnvVar replaces, is not among the uses.
MissingIsStuck ==
    Idle => \A u \in agent.uses :
                ~OnlyBytes(u) => (u \in missing <=> ~Startable(u, inputs[u.name]))

ConfigContent ==
    {agent.raw["config"]}
      \cup {Seen(u, inputs[u.name])[u.key] : u \in {v \in agent.uses : v.role = "config"}}

ConfigIsBytes ==
    \E u \in agent.uses : /\ u.role = "config" /\ inputs[u.name] # None
                          /\ inputs[u.name].binaryData[u.key] # None

\* While the operator sleeps and the inputs resolve, the NetworkPolicy opens port 22
\* exactly when the config.yaml a pod would read names the ssh backend, or names none
\* and the spec does; a config.yaml kept as bytes in a ConfigMap is the exception
\* (effectiveTerminalBackend, configSourceTerminalBackend).
PolicyFollowsConfig ==
    (Idle /\ missing = {} /\ ~ConfigIsBytes) =>
        LET named == {Backend[c] : c \in ConfigContent \ {None}} \ {None}
        IN  ssh <=> "ssh" \in (IF named = {} THEN {agent.terminal} ELSE named)

Wanted == [files |-> agent.raw, uses |-> Visible(inputs)]
Fresh  == \A i \in Ordinals : pods[i] # None /\ pods[i].read = Wanted

\* No pod waits for an object its template needs and that is not there: the StatefulSet
\* controller does not replace such a pod.
NoneStuck ==
    \A i \in Ordinals :
        (pods[i] # None /\ pods[i].read = None) => CanStart(pods[i].template)

Resolves == missingReferences(resolveReferencedInputs(agent.uses, inputs)) = {}

\* Under RollingUpdate without a partition every pod ends up, for good, with exactly
\* the content the spec and the inputs have now, whatever was edited while pods were
\* replaced, lost or started and while passes were cut short, as long as no content
\* comes back to an earlier one ("external updates trigger a deterministic reconcile
\* and rollout"; Reconcile, computeConfigHash).
EventuallyFresh ==
    <>[](/\ agent.strategy = "RollingUpdate" /\ agent.partition = 0
         /\ Resolves /\ NoneStuck) => <>[]Fresh

\* "pods with ordinal lower than the partition wait for an explicit strategy change
\* before updating": a pod below the partition runs with the text its own revision was
\* made from (reconcileInlineConfigMap overwrites it in place).
PartitionHolds ==
    \A i \in Ordinals :
        (statefulSet # None /\ i < statefulSet.strategy.partition /\ Ready(i)) =>
            pods[i].read.files = pods[i].template.hash.raw
=============================================================================
