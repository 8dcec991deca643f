-------------------------- MODULE HermesProperties --------------------------
(***************************************************************************)
(* What the reconciler promises.  StatusConverged and what is said of the  *)
(* status need a current cache of the HermesAgent (Agent \notin            *)
(* LaggyKinds); the others hold whatever caches lag.                       *)
(***************************************************************************)
EXTENDS HermesReconciler

-----------------------------------------------------------------------------
(* Convergence, as safety: nothing is wrong while the operator sleeps.     *)

\* Nothing is queued, nothing runs, every watch event has been delivered.
Quiet == pc = "idle" /\ ~queued /\ due = {} /\ seen = api

CurrentSpec == api[Agent].spec
CurrentRefs == Snapshot(CurrentSpec, api)

Reconcilable == CurrentSpec.valid /\ missingReferences(CurrentSpec, CurrentRefs) = {}

Mine(k) == api[k] # Absent /\ api[k].owner = api[Agent].uid

OptionalConverged(k) ==
    IF Enabled(k, CurrentSpec)
    THEN /\ Mine(k)
         /\ IF k = "Service"
            THEN [api[k].spec EXCEPT !.nodePort = 0] = buildService(CurrentSpec)
            ELSE api[k].spec = Desired(k, CurrentSpec, CurrentRefs)
    ELSE ~Mine(k)

ClaimConverged ==
    LET k == "PersistentVolumeClaim"
    IN  /\ Mine(k)
        /\ api[k].spec.size = CurrentSpec.size
        /\ persistentVolumeClaimImmutableFieldDrift(CurrentSpec, api[k].spec) = {}

\* Whenever the operator is quiet and the agent's configuration resolves, every
\* child is controlled by this agent and is what its spec and the current inputs
\* ask for: no lost wake-up, no forgotten error, across lagging caches, failed
\* calls, restarts and re-created agents.  Once the StatefulSet is ready no
\* generated ConfigMap of a file that is no longer inline is left (Reconcile,
\* SetupWithManager).
ChildrenConverged ==
    (Quiet /\ api[Agent] # Absent /\ Reconcilable) =>
        /\ \A id \in Generated(CurrentSpec) : Mine(id) /\ api[id].spec = CurrentSpec.src[id]
        /\ CurrentSpec.persistence => ClaimConverged
        /\ Mine("StatefulSet")
        /\ api["StatefulSet"].spec = Desired("StatefulSet", CurrentSpec, CurrentRefs)
        /\ \A k \in OptKinds : OptionalConverged(k)
        /\ statefulSetReady(api["StatefulSet"]) =>
              \A id \in ConfigIds \ Generated(CurrentSpec) : ~Mine(id)

ExpectedStatus ==
    LET missing == missingReferences(CurrentSpec, CurrentRefs)
        base(h) == populateStatusMetadata(
                      [EmptyStatus EXCEPT !.observedGeneration = api[Agent].gen],
                      CurrentSpec, h)
    IN  CASE ~CurrentSpec.valid -> markConfigFailure(base(None), "InvalidConfig", <<>>)
          [] CurrentSpec.valid /\ missing # {} ->
                markConfigFailure(base(None), "MissingReferencedInput", <<"missing", missing>>)
          [] OTHER ->
                markView(base(configHash(CurrentSpec, CurrentRefs)),
                         readStatusView(CurrentSpec, api["PersistentVolumeClaim"],
                                        api["StatefulSet"]))

\* Whenever the operator is quiet the whole status is the one the current spec,
\* inputs, claim and StatefulSet call for; in particular an agent that waits for a
\* missing input is waiting for one that is missing now (returnStatusFailure does
\* not retry, so only the watches can wake it).
StatusConverged ==
    (Quiet /\ api[Agent] # Absent) => api[Agent].status = ExpectedStatus

\* Once users, pods and volumes are left alone the operator falls asleep and stays
\* asleep: it neither retries a configuration that only a user can fix nor wakes
\* itself with its own writes (returnStatusFailure, GenerationChangedPredicate,
\* the DeepEqual of patchStatus).
EventuallyQuiet == <>[]Quiet

-----------------------------------------------------------------------------
(* The status.                                                             *)

IsTrue(st, t) == st.conditions[t] # None /\ st.conditions[t].status = "True"

\* phase is Ready exactly when condition Ready is True, Ready needs the other three
\* conditions, persistenceBound never stands beside a PersistenceReady that is not
\* True, and drifted fields are listed only while PersistenceReady says so, however
\* the failure of one stage overwrites the status of another (mark*Failure,
\* readStatusView, patchStatus).
StatusCoherent ==
    api[Agent] # Absent =>
        LET st == api[Agent].status
        IN  /\ st.phase = "Ready" <=> IsTrue(st, "Ready")
            /\ IsTrue(st, "Ready") => \A t \in ConditionTypes : IsTrue(st, t)
            /\ st.persistenceBound => IsTrue(st, "PersistenceReady")
            /\ st.driftedFields # {} =>
                  st.conditions["PersistenceReady"].reason = "PersistentVolumeClaimSpecDrift"

ReadyNow  == api[Agent] # Absent /\ IsTrue(api[Agent].status, "Ready")

\* No silent change of readiness: a patch that turns Ready on or off raises an
\* event, although statusEventsForTransition drops normal ConfigReady events,
\* Unknown reasons and some WorkloadReady events (statusEventsForTransition).
ReadinessAnnounced ==
    [][(patchStatus /\ faults' = faults /\ ReadyNow # ReadyNow') => emitted' # {}]_vars

\* status.observedGeneration never runs ahead of the agent and never goes back, although
\* it is stamped from the cache (patchStatus).  This holds for the first agent of its
\* name: a pass that began for a deleted agent may patch the status of its successor.
ObservedGenerationAdvances ==
    [][ (uids' = 1 /\ api[Agent] # Absent /\ api'[Agent] # Absent) =>
          /\ api'[Agent].status.observedGeneration >= api[Agent].status.observedGeneration
          /\ api'[Agent].status.observedGeneration <= api'[Agent].gen ]_vars

Drift == persistentVolumeClaimImmutableFieldDrift(
            CurrentSpec, api["PersistentVolumeClaim"].spec)

Drifting ==
    /\ api[Agent] # Absent /\ Reconcilable
    /\ CurrentSpec.persistence /\ CurrentSpec.size # 0
    /\ api["PersistentVolumeClaim"] # Absent /\ Drift # {}

\* A claim that cannot follow the spec is reported with exactly the fields that
\* differ, and stays reported, however long the operator keeps retrying
\* (reconcilePersistentVolumeClaim, markPersistenceFailure).
DriftReported ==
    <>[]Drifting =>
        <>[](Drifting /\ api[Agent].status.driftedFields = Drift
                      /\ api[Agent].status.phase = "StorageError")

-----------------------------------------------------------------------------
(* The children.                                                           *)

\* The operator never writes over an object something else controls, and deletes one
\* only when its cache of that kind lagged behind (SetControllerReference,
\* metav1.IsControlledBy, resourceVersion conflicts).
ForeignKept ==
    [][ Worker => \A k \in Children :
          (api[k] # Absent /\ api[k].owner = OtherOwner) =>
              \/ api'[k] = api[k]
              \/ k \in LaggyKinds /\ api'[k] = Absent ]_vars

\* Control of a child moves only from an older incarnation of the agent to a newer
\* one, also while a worker still acts for an agent that has been deleted and
\* created again (Reconcile, SetControllerReference).
OwnersMoveForward ==
    [][ \A k \in Children :
          (OwnedByAgent(api[k]) /\ OwnedByAgent(api'[k])) =>
              api'[k].owner >= api[k].owner ]_vars

Holder(k) == IF api[k] = Absent THEN Absent ELSE api[k].owner

Control == INSTANCE Ownership WITH
              Resources <- Children, Free <- Absent,
              holder <- [k \in Children |-> Holder(k)], born <- uids

\* The reconciler, with users, garbage collector and other controllers around it,
\* implements Ownership: whatever is lagging, being retried or being created again, no
\* step hands over a child in a way that specification does not allow
\* (SetControllerReference, CreateOrUpdate).
ControlRefined == Control!Spec

\* A Service that stays exposed on the nodes keeps its node port through every
\* update the operator makes (reconcileService).
NodePortKept ==
    [][ LET old == api["Service"]
            new == api'["Service"]
        IN  (Worker /\ old # Absent /\ new # Absent
               /\ old.spec.nodePort # 0 /\ new.spec.type # "ClusterIP") =>
                 new.spec.nodePort = old.spec.nodePort ]_vars
-----------------------------------------------------------------------------
(* What the API's comments, the docs and the tests say, and the code does  *)
(* not keep.                                                               *)

\* "conditions represent the current state of the HermesAgent resource": they do so
\* at least while the operator has nothing left to do (patchStatus with a cached
\* base, GenerationChangedPredicate).
ConditionsCurrent ==
    (Quiet /\ api[Agent] # Absent) => api[Agent].status.conditions = ExpectedStatus.conditions

\* "Workload state is unchanged, but the requested PVC spec cannot be applied in
\* place": while the status says so the ConfigMaps the StatefulSet mounts are there
\* (cleanupStaleGeneratedConfigMaps runs before the claim is reconciled).
DriftLeavesWorkloadAlone ==
    (api[Agent] # Absent /\ api[Agent].status.driftedFields # {}
       /\ api["StatefulSet"] # Absent) =>
        \A id \in api["StatefulSet"].spec.mounts : api[id] # Absent
=============================================================================
