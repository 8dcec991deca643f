------------------------- MODULE HermesSafetyProofs -------------------------
(***************************************************************************)
(* What the operator never does to the children, for every instance.       *)
(* ChildWrites says what any step of Reconcile that changes a child must   *)
(* have done first; ForeignSafe needs besides that caches that do not lag  *)
(* are current (Current), OwnersForward that the uids in play are in order *)
(* (UidsInOrder).                                                          *)
(***************************************************************************)
EXTENDS HermesProofs

-----------------------------------------------------------------------------
(* The writes of the worker.                                               *)

\* A call writes the one object it is about, and only if the API server agrees.
LEMMA CallWrites ==
    ASSUME TypeOK, NEW j \in Children, NEW error, NEW o, Call(j, error, o),
           NEW k \in Children, api'[k] # api[k]
    PROVE  k = j /\ error = "ok" /\ api'[k] = o
<1>1. DOMAIN api = Kinds /\ k \in Kinds /\ j \in Kinds
  BY DEF TypeOK, ClusterTypeOK, Kinds
<1> QED
  BY <1>1 DEF Call, Store

\* What CreateOrUpdate sends names the worker's agent as the owner, and the API
\* server keeps the owner.
LEMMA WantedOwner ==
    ASSUME TypeOK, NEW k \in Children, NEW spec, NEW port
    PROVE  Admitted(k, seen[k], Wanted(k, spec), port).owner = job.uid
<1>1. "owner" \in DOMAIN Wanted(k, spec) /\ Wanted(k, spec).owner = job.uid
  <2>1. CASE seen[k] = Absent
    BY <2>1 DEF Wanted
  <2>2. CASE seen[k] # Absent
    <3>1. seen[k] \in ChildObjects(k)
      BY <2>2, SeenTyped, ObjectKinds DEF TypeOK, Kinds
    <3> QED
      BY <2>2, <3>1 DEF Wanted, ChildObjects
  <2> QED
    BY <2>1, <2>2
<1>2. CASE k = "PersistentVolumeClaim"
  BY <1>1, <1>2 DEF Admitted
<1>3. CASE k = "StatefulSet"
  BY <1>1, <1>3 DEF Admitted
<1>4. CASE k = "Service"
  BY <1>1, <1>4 DEF Admitted
<1>5. CASE k \notin {"PersistentVolumeClaim", "StatefulSet", "Service"}
  BY <1>1, <1>5 DEF Admitted
<1> QED
  BY <1>2, <1>3, <1>4, <1>5

\* A write over an existing object goes through only when the cache shows that very
\* object (AlreadyExists, NotFound, Conflict otherwise).
LEMMA CreateOrUpdateWrites ==
    ASSUME TypeOK, NEW j \in Children, NEW spec, CreateOrUpdate(j, spec),
           NEW k \in Children, api'[k] # api[k]
    PROVE  /\ SetControllerReference(k)
           /\ api[k] = Absent \/ api[k] = seen[k]
           /\ api'[k].owner = job.uid
<1> DEFINE new     == Wanted(j, spec)
           refusal == CASE seen[j] = Absent /\ job.first # Absent -> "Invalid"
                        [] seen[j] = Absent /\ job.first = Absent /\ api[j] # Absent ->
                              "AlreadyExists"
                        [] seen[j] # Absent /\ api[j] = Absent -> "NotFound"
                        [] seen[j] # Absent /\ api[j] # Absent /\ api[j] # seen[j] -> "Conflict"
                        [] seen[j] # Absent /\ api[j] = seen[j] /\ Refuses(j, api[j], new) ->
                              "Invalid"
                        [] OTHER -> "ok"
<1>1. ~Local
  BY DEF Local, cluster
<1>2. PICK port \in NodePorts :
        SetControllerReference(j) /\ Call(j, refusal, Admitted(j, seen[j], new, port))
  BY <1>1 DEF CreateOrUpdate
<1>3. refusal = "ok" => api[j] = Absent \/ api[j] = seen[j]
  OBVIOUS
<1> HIDE DEF refusal
<1>4. /\ k = j /\ refusal = "ok"
      /\ api'[k] = Admitted(k, seen[k], new, port)
  BY <1>2, CallWrites
<1> QED
  BY <1>2, <1>3, <1>4, WantedOwner

\* Only Reconcile runs while the worker holds no job.
LEMMA BusyWorkers ==
    ASSUME TypeOK, Worker
    PROVE  Reconcile \/ (pc # "idle" /\ job \in Jobs)
<1>1. CASE \E id \in ConfigIds : reconcileInlineConfigMap(id) \/ deleteStaleConfigMap(id)
  BY <1>1 DEF reconcileInlineConfigMap, deleteStaleConfigMap, Stale, ConfigIds, TypeOK,
              WorkerTypeOK
<1>2. CASE \E k \in OptKinds : checkOptional(k) \/ writeOptional(k)
  BY <1>2 DEF checkOptional, writeOptional, WriteStep, OptKinds, TypeOK, WorkerTypeOK
<1>3. CASE FailedCall
  BY <1>3 DEF FailedCall, Steps, ChildSteps, StatusSteps, Children, ConfigIds, OptKinds,
              TypeOK, WorkerTypeOK
<1>4. CASE \/ resolveReferencedInputs \/ cleanupStaleGeneratedConfigMaps
           \/ reconcilePersistentVolumeClaim \/ writePersistentVolumeClaim
           \/ reconcileStatefulSet \/ readClaim \/ readStatefulSet \/ failedStatusView
           \/ patchStatus
  <2>1. pc # "idle"
    BY <1>4
    DEF resolveReferencedInputs, cleanupStaleGeneratedConfigMaps,
        reconcilePersistentVolumeClaim, writePersistentVolumeClaim, reconcileStatefulSet,
        readClaim, readStatefulSet, failedStatusView, patchStatus
  <2> QED
    BY <2>1 DEF TypeOK, WorkerTypeOK
<1> QED
  BY <1>1, <1>2, <1>3, <1>4 DEF Worker

\* Delete leaves nothing under the name it is given.
LEMMA DeleteWrites ==
    ASSUME TypeOK, NEW j \in Children, NEW ignore, Delete(j, ignore),
           NEW k \in Children, api'[k] # api[k]
    PROVE  k = j /\ api'[k] = Absent
  BY CallWrites DEF Delete

\* What a step of the worker that changes a child has done.
LEMMA ChildWrites ==
    ASSUME TypeOK, Worker, NEW k \in Children, api'[k] # api[k]
    PROVE  \/ ControlledByJob(k) /\ api'[k] = Absent
           \/ /\ SetControllerReference(k)
              /\ api[k] = Absent \/ api[k] = seen[k]
              /\ api'[k].owner = job.uid
<1>1. ~Local /\ ~UNCHANGED api
  BY DEF Local, cluster
<1>2. ASSUME NEW id \in ConfigIds, reconcileInlineConfigMap(id) \/ deleteStaleConfigMap(id)
      PROVE  \/ ControlledByJob(k) /\ api'[k] = Absent
             \/ /\ SetControllerReference(k)
                /\ api[k] = Absent \/ api[k] = seen[k]
                /\ api'[k].owner = job.uid
  BY <1>1, <1>2, CreateOrUpdateWrites, DeleteWrites
  DEF reconcileInlineConfigMap, deleteStaleConfigMap, Skip, Children
<1>3. ASSUME NEW j \in OptKinds, checkOptional(j) \/ writeOptional(j)
      PROVE  \/ ControlledByJob(k) /\ api'[k] = Absent
             \/ /\ SetControllerReference(k)
                /\ api[k] = Absent \/ api[k] = seen[k]
                /\ api'[k].owner = job.uid
  BY <1>1, <1>3, CreateOrUpdateWrites, DeleteWrites
  DEF checkOptional, writeOptional, Skip, Children
<1>4. CASE reconcileStatefulSet \/ writePersistentVolumeClaim
  BY <1>1, <1>4, CreateOrUpdateWrites
  DEF reconcileStatefulSet, writePersistentVolumeClaim, Children
<1>5. CASE patchStatus
  <2>1. Agent \notin Children
    BY DEF Agent, Children, ConfigIds, OptKinds
  <2>2. k \in DOMAIN api
    BY DEF TypeOK, ClusterTypeOK, Kinds
  <2> QED
    BY <1>5, <2>1, <2>2 DEF patchStatus
<1>6. ~Reconcile /\ ~resolveReferencedInputs /\ ~cleanupStaleGeneratedConfigMaps
        /\ ~reconcilePersistentVolumeClaim /\ ~readClaim /\ ~readStatefulSet
        /\ ~failedStatusView /\ ~FailedCall
  BY <1>1
  DEF Reconcile, resolveReferencedInputs, cleanupStaleGeneratedConfigMaps,
      reconcilePersistentVolumeClaim, Skip, readClaim, readStatefulSet, failedStatusView,
      FailedCall
<1> QED
  BY <1>2, <1>3, <1>4, <1>5, <1>6 DEF Worker

-----------------------------------------------------------------------------
(* Caches that do not lag.                                                 *)

\* A kind outside LaggyKinds is cached as it is stored.
Current == \A k \in Kinds \ LaggyKinds : seen[k] = api[k]

\* A write shows at once in a cache that does not lag.
LEMMA StoreCurrent ==
    ASSUME TypeOK, Current, NEW k \in Kinds, NEW o, Store(k, o)
    PROVE  Current'
  BY DEF TypeOK, ClusterTypeOK, Current, Store, SeenAfter

\* Caches that do not lag stay current.
LEMMA CurrentInductive == TypeOK /\ Current /\ [Next]_vars => Current'
<1> SUFFICES ASSUME TypeOK, Current, [Next]_vars PROVE Current'
  OBVIOUS
<1>1. Agent \in Kinds /\ Children \subseteq Kinds /\ Inputs \subseteq Kinds
        /\ "StatefulSet" \in Kinds /\ "PersistentVolumeClaim" \in Kinds
  BY DEF Kinds, Children
<1>2. CASE UNCHANGED <<api, seen>>
  BY <1>2 DEF Current
<1>3. ASSUME NEW j \in Children, NEW error, NEW o, Call(j, error, o)
      PROVE  Current'
  <2>1. Store(j, o) \/ UNCHANGED <<api, seen>>
    BY <1>3 DEF Call
  <2> QED
    BY <1>1, <1>2, <2>1, StoreCurrent
<1>4. ASSUME NEW j \in Children, NEW spec, CreateOrUpdate(j, spec)
      PROVE  Current'
  <2>1. Local \/ \E error, o : Call(j, error, o)
    BY <1>4 DEF CreateOrUpdate
  <2> QED
    BY <1>2, <1>3, <2>1 DEF Local, cluster
<1>5. ASSUME NEW j \in Children, NEW ignore, Delete(j, ignore)
      PROVE  Current'
  BY <1>3, <1>5 DEF Delete
<1>6. CASE Worker
  <2>1. ASSUME NEW id \in ConfigIds, reconcileInlineConfigMap(id) \/ deleteStaleConfigMap(id)
        PROVE  Current'
    BY <1>2, <1>4, <1>5, <2>1
    DEF reconcileInlineConfigMap, deleteStaleConfigMap, Skip, Local, cluster, Children
  <2>2. ASSUME NEW j \in OptKinds, checkOptional(j) \/ writeOptional(j)
        PROVE  Current'
    BY <1>2, <1>4, <1>5, <2>2
    DEF checkOptional, writeOptional, Skip, Local, cluster, Children
  <2>3. CASE reconcileStatefulSet \/ writePersistentVolumeClaim
    BY <1>2, <1>4, <2>3
    DEF reconcileStatefulSet, writePersistentVolumeClaim, Local, cluster, Children
  <2>4. CASE patchStatus
    BY <1>1, <1>2, <2>4 DEF patchStatus, SeenAfter, Current, TypeOK, ClusterTypeOK
  <2>5. CASE \/ Reconcile \/ resolveReferencedInputs \/ cleanupStaleGeneratedConfigMaps
             \/ reconcilePersistentVolumeClaim \/ readClaim \/ readStatefulSet
             \/ failedStatusView \/ FailedCall
    BY <1>2, <2>5
    DEF Reconcile, resolveReferencedInputs, cleanupStaleGeneratedConfigMaps,
        reconcilePersistentVolumeClaim, Skip, readClaim, readStatefulSet,
        failedStatusView, FailedCall, Local, cluster
  <2> QED
    BY <1>6, <2>1, <2>2, <2>3, <2>4, <2>5 DEF Worker
<1>7. CASE Users \/ ControlPlane
  <2>1. \E k \in Kinds : \E o : Store(k, o)
    <3>1. CASE Users
      BY <1>1, <3>1, ClusterAssumption
      DEF Users, CreateAgent, UpdateAgent, DeleteAgent, ChangeInput, DeleteChild,
          ScaleStatefulSet, CreateForeign
    <3>2. CASE ControlPlane
      BY <1>1, <3>2
      DEF ControlPlane, ObserveStatefulSet, AdjustPods, LosePod, BindClaim, LoseClaim,
          CollectGarbage
    <3> QED
      BY <1>7, <3>1, <3>2
  <2> QED
    BY <2>1, StoreCurrent
<1>8. CASE Delivery
  BY <1>8 DEF Delivery, Deliver, Current, TypeOK, ClusterTypeOK
<1>9. CASE Restart
  BY <1>9 DEF Restart, Current
<1> QED
  BY <1>2, <1>6, <1>7, <1>8, <1>9 DEF Next, Environment, vars

-----------------------------------------------------------------------------
(* Objects something else controls.                                        *)

\* A step of the worker and an object something else controls.
LEMMA ForeignStep ==
    ASSUME TypeOK, Current, Worker, NEW k \in Children,
           api[k] # Absent, api[k].owner = OtherOwner
    PROVE  api'[k] = api[k] \/ (k \in LaggyKinds /\ api'[k] = Absent)
<1> SUFFICES ASSUME api'[k] # api[k]
             PROVE  k \in LaggyKinds /\ api'[k] = Absent
  OBVIOUS
<1>1. api[k] # seen[k] \/ ~SetControllerReference(k)
  BY DEF SetControllerReference, Held
<1>2. ControlledByJob(k) /\ api'[k] = Absent
  BY <1>1, ChildWrites
<1>3. job.uid # OtherOwner
  <2>1. ~Reconcile
    BY DEF Reconcile
  <2>2. job.uid \in Nat
    BY <2>1, BusyWorkers DEF Jobs
  <2> QED
    BY <2>2 DEF OtherOwner
<1>4. api[k] # seen[k]
  BY <1>2, <1>3 DEF ControlledByJob
<1> QED
  BY <1>2, <1>4 DEF Current, Kinds

\* For every instance: no step of the operator changes an object something else
\* controls, except that it may delete one through a lagging cache
\* (SetControllerReference, metav1.IsControlledBy, resourceVersion conflicts).
THEOREM ForeignSafe == Spec => ForeignKept
<1> DEFINE Kept == Worker => \A k \in Children :
                     (api[k] # Absent /\ api[k].owner = OtherOwner) =>
                         \/ api'[k] = api[k]
                         \/ k \in LaggyKinds /\ api'[k] = Absent
<1>1. Init => TypeOK /\ Current
  BY InitTyped DEF Init, ClusterInit, Current
<1>2. (TypeOK /\ Current) /\ [Next]_vars => (TypeOK /\ Current)'
  BY StepTyped, CurrentInductive
<1>3. (TypeOK /\ Current) /\ [Next]_vars => [Kept]_vars
  BY ForeignStep
<1> QED
  BY <1>1, <1>2, <1>3, PTL DEF Spec, ForeignKept

-----------------------------------------------------------------------------
(* Incarnations of the agent.  The owners of the children, the worker's    *)
(* job, the cached agent, the stored agent and the last uid given are in   *)
(* this order, wherever an agent is there to compare with.                 *)

UpToStored(u) == u <= uids /\ (api[Agent] # Absent => u <= api[Agent].uid)
UpToCached(u) == UpToStored(u) /\ (seen[Agent] # Absent => u <= seen[Agent].uid)
UpToJob(u)    == UpToCached(u) /\ (pc # "idle" => u <= job.uid)

UidsInOrder ==
    /\ api[Agent] # Absent => api[Agent].uid <= uids
    /\ seen[Agent] # Absent => UpToStored(seen[Agent].uid)
    /\ pc # "idle" => UpToCached(job.uid)
    /\ \A k \in Children : api[k] # Absent => UpToJob(api[k].owner)

UidsTyped ==
    /\ uids \in Nat
    /\ api[Agent] # Absent => api[Agent].uid \in Nat
    /\ seen[Agent] # Absent => seen[Agent].uid \in Nat
    /\ pc # "idle" => job.uid \in Nat
    /\ \A k \in Children : api[k] # Absent => api[k].owner \in Int

\* Uids are numbers.
LEMMA UidTypes == TypeOK => UidsTyped
<1> SUFFICES ASSUME TypeOK PROVE UidsTyped
  OBVIOUS
<1>1. uids \in Nat
  BY DEF TypeOK, ClusterTypeOK
<1>2. /\ api[Agent] # Absent => api[Agent].uid \in Nat
      /\ seen[Agent] # Absent => seen[Agent].uid \in Nat
  BY SeenTyped, ObjectKinds DEF TypeOK, Kinds, AgentObjects
<1>3. pc # "idle" => job.uid \in Nat
  BY DEF TypeOK, WorkerTypeOK, Jobs
<1>4. ASSUME NEW k \in Children, api[k] # Absent
      PROVE  api[k].owner \in Int
  <2>1. api[k] \in ChildObjects(k)
    BY <1>4, SeenTyped, ObjectKinds DEF TypeOK, Kinds
  <2> QED
    BY <2>1 DEF ChildObjects, Owners, NoOwner, OtherOwner
<1> QED
  BY <1>1, <1>2, <1>3, <1>4 DEF UidsTyped

\* What a step may do to the uids: nothing is ever replaced by something older.
LEMMA OrderKept ==
    ASSUME TypeOK, TypeOK', UidsInOrder,
           uids <= uids',
           api'[Agent] # Absent =>
              \/ api[Agent] # Absent /\ api'[Agent].uid = api[Agent].uid
              \/ api'[Agent].uid = uids',
           seen'[Agent] # Absent =>
              \/ seen[Agent] # Absent /\ seen'[Agent].uid = seen[Agent].uid
              \/ api'[Agent] # Absent /\ seen'[Agent].uid = api'[Agent].uid,
           pc' # "idle" =>
              \/ pc # "idle" /\ job'.uid = job.uid
              \/ seen[Agent] # Absent /\ job'.uid = seen[Agent].uid,
           \A k \in Children : api'[k] # Absent =>
              \/ api[k] # Absent /\ api'[k].owner = api[k].owner
              \/ api'[k].owner <= 0
              \/ pc # "idle" /\ api'[k].owner = job.uid
    PROVE  UidsInOrder'
<1>1. UidsTyped
  BY UidTypes
<1>2. UidsTyped'
  BY UidTypes, PTL
<1> USE DEF UidsTyped
<1>3. ASSUME NEW u \in Int, UpToStored(u)
      PROVE  UpToStored(u)'
  BY <1>1, <1>2, <1>3 DEF UpToStored
<1>4. ASSUME NEW u \in Int, UpToCached(u)
      PROVE  UpToCached(u)'
  BY <1>1, <1>2, <1>3, <1>4 DEF UpToCached, UpToStored
<1>5. api'[Agent] # Absent => api'[Agent].uid <= uids'
  BY <1>1, <1>2 DEF UidsInOrder
<1>6. seen'[Agent] # Absent => UpToStored(seen[Agent].uid)'
  BY <1>1, <1>2, <1>3, <1>5 DEF UidsInOrder, UpToStored
<1>7. pc' # "idle" => UpToCached(job.uid)'
  BY <1>1, <1>2, <1>4 DEF UidsInOrder, UpToCached
<1>8. ASSUME NEW k \in Children, api'[k] # Absent
      PROVE  UpToJob(api[k].owner)'
  <2>1. CASE api[k] # Absent /\ api'[k].owner = api[k].owner
    BY <1>1, <1>2, <1>4, <2>1 DEF UidsInOrder, UpToJob, UpToCached
  <2>2. CASE api'[k].owner <= 0
    BY <1>2, <1>8, <2>2 DEF UpToJob, UpToCached, UpToStored
  <2>3. CASE pc # "idle" /\ api'[k].owner = job.uid
    BY <1>1, <1>2, <1>4, <2>3 DEF UidsInOrder, UpToJob, UpToCached
  <2> QED
    BY <1>8, <2>1, <2>2, <2>3
<1> QED
  BY <1>5, <1>6, <1>7, <1>8 DEF UidsInOrder

\* Every call but the first and the last leaves the agent and the job's uid alone.
AgentKept ==
    /\ uids' = uids /\ api'[Agent] = api[Agent] /\ seen'[Agent] = seen[Agent]
    /\ job'.uid = job.uid

\* A failure is reported for the agent the pass began with.
LEMMA FailKeepsUid ==
    ASSUME job \in Jobs, NEW stage, NEW h, NEW reason, NEW message, NEW retry,
           FailWith(stage, h, reason, message, retry)
    PROVE  job'.uid = job.uid
  BY DEF Jobs, FailWith, Marked

\* A write of a child.
LEMMA CallKeeps ==
    ASSUME TypeOK, job \in Jobs, NEW j \in Children, NEW error, NEW o, Call(j, error, o)
    PROVE  AgentKept
<1>1. j # Agent
  BY DEF Agent, Children, ConfigIds, OptKinds
<1>2. Agent \in DOMAIN api /\ Agent \in DOMAIN seen
  BY DEF TypeOK, ClusterTypeOK, Kinds
<1>3. uids' = uids /\ api'[Agent] = api[Agent] /\ seen'[Agent] = seen[Agent]
  BY <1>1, <1>2 DEF Call, Store, SeenAfter
<1>4. job'.uid = job.uid
  <2>1. CASE Advance
    BY <2>1 DEF Advance, Jobs
  <2>2. CASE \E e : Fail(e)
    BY <2>2, FailKeepsUid DEF Fail
  <2> QED
    BY <2>1, <2>2 DEF Call
<1> QED
  BY <1>3, <1>4 DEF AgentKept

\* A step that stays in the worker.
LEMMA LocalKeeps ==
    ASSUME Local, job'.uid = job.uid
    PROVE  AgentKept
  BY DEF Local, cluster, AgentKept

\* The next call acts for the same agent.
LEMMA AdvanceKeepsUid ==
    ASSUME job \in Jobs, Advance
    PROVE  job'.uid = job.uid
  BY DEF Jobs, Advance

\* CreateOrUpdate of a child.
LEMMA CreateOrUpdateKeeps ==
    ASSUME TypeOK, job \in Jobs, NEW j \in Children, NEW spec, CreateOrUpdate(j, spec)
    PROVE  AgentKept
<1>1. \/ Fail("AlreadyOwned") /\ Local
      \/ Advance /\ Local
      \/ \E error, o : Call(j, error, o)
  BY DEF CreateOrUpdate
<1>2. CASE Fail("AlreadyOwned") /\ Local
  BY <1>2, FailKeepsUid, LocalKeeps DEF Fail
<1> QED
  BY <1>1, <1>2, AdvanceKeepsUid, LocalKeeps, CallKeeps

\* Delete of a child.
LEMMA DeleteKeeps ==
    ASSUME TypeOK, job \in Jobs, NEW j \in Children, NEW ignore, Delete(j, ignore)
    PROVE  AgentKept
  BY CallKeeps DEF Delete

\* A call with nothing to do.
LEMMA SkipKeeps ==
    ASSUME job \in Jobs, Skip
    PROVE  AgentKept
  BY AdvanceKeepsUid, LocalKeeps DEF Skip

\* All steps of a pass but its start and its end.
LEMMA WorkerKeeps ==
    ASSUME TypeOK, Worker, ~Reconcile, ~patchStatus, ~failedStatusView
    PROVE  AgentKept
<1>0. job \in Jobs
  BY BusyWorkers
<1>1. ASSUME NEW id \in ConfigIds, reconcileInlineConfigMap(id) \/ deleteStaleConfigMap(id)
      PROVE  AgentKept
  BY <1>0, <1>1, CreateOrUpdateKeeps, DeleteKeeps, SkipKeeps
  DEF reconcileInlineConfigMap, deleteStaleConfigMap, Children
<1>2. ASSUME NEW k \in OptKinds, checkOptional(k)
      PROVE  AgentKept
  <2>1. CASE Skip \/ Delete(k, FALSE)
    BY <1>0, <2>1, SkipKeeps, DeleteKeeps DEF Children
  <2>2. CASE Fail("NotOwned") /\ Local
    BY <1>0, <2>2, FailKeepsUid, LocalKeeps DEF Fail
  <2>3. CASE job' = [job EXCEPT !.first = seen[k]] /\ Local
    <3>1. job'.uid = job.uid
      BY <1>0, <2>3 DEF Jobs
    <3> QED
      BY <2>3, <3>1, LocalKeeps
  <2> QED
    BY <1>2, <2>1, <2>2, <2>3 DEF checkOptional
<1>3. ASSUME NEW k \in OptKinds, writeOptional(k)
      PROVE  AgentKept
  BY <1>0, <1>3, CreateOrUpdateKeeps DEF writeOptional, Children
<1>4. CASE reconcileStatefulSet
  BY <1>0, <1>4, CreateOrUpdateKeeps DEF reconcileStatefulSet, Children
<1>5. CASE writePersistentVolumeClaim
  <2>1. CASE \E spec : CreateOrUpdate("PersistentVolumeClaim", spec)
    BY <1>0, <2>1, CreateOrUpdateKeeps DEF Children
  <2>2. CASE (\E m : FailWith("persistence", hash, "PersistentVolumeClaimSpecDrift", m, TRUE))
               /\ Local
    BY <1>0, <2>2, FailKeepsUid, LocalKeeps
  <2> QED
    BY <1>5, <2>1, <2>2 DEF writePersistentVolumeClaim
<1>6. CASE resolveReferencedInputs
  <2>1. CASE job' = [job EXCEPT !.refs = Snapshot(job.spec, seen)]
    <3>1. job'.uid = job.uid
      BY <1>0, <2>1 DEF Jobs
    <3> QED
      BY <1>6, <3>1, LocalKeeps DEF resolveReferencedInputs
  <2>2. CASE \E m : FailWith("config", None, "MissingReferencedInput", m, FALSE)
    BY <1>0, <1>6, <2>2, FailKeepsUid, LocalKeeps DEF resolveReferencedInputs
  <2> QED
    BY <1>6, <2>1, <2>2 DEF resolveReferencedInputs
<1>7. CASE cleanupStaleGeneratedConfigMaps
  BY <1>7, LocalKeeps DEF cleanupStaleGeneratedConfigMaps
<1>8. CASE reconcilePersistentVolumeClaim
  <2>1. CASE Skip
    BY <1>0, <2>1, SkipKeeps
  <2>2. CASE Fail("NotAQuantity") /\ Local
    BY <1>0, <2>2, FailKeepsUid, LocalKeeps DEF Fail
  <2>3. CASE job' = [job EXCEPT !.first = seen["PersistentVolumeClaim"]] /\ Local
    <3>1. job'.uid = job.uid
      BY <1>0, <2>3 DEF Jobs
    <3> QED
      BY <2>3, <3>1, LocalKeeps
  <2> QED
    BY <1>8, <2>1, <2>2, <2>3 DEF reconcilePersistentVolumeClaim
<1>9. CASE readClaim
  <2>1. job'.uid = job.uid
    BY <1>0, <1>9 DEF readClaim, Jobs
  <2> QED
    BY <1>9, <2>1, LocalKeeps DEF readClaim
<1>10. CASE readStatefulSet
  <2>1. job'.uid = job.uid
    BY <1>0, <1>10 DEF readStatefulSet, Marked, Jobs
  <2> QED
    BY <1>10, <2>1, LocalKeeps DEF readStatefulSet
<1>11. CASE FailedCall
  BY <1>0, <1>11, FailKeepsUid DEF FailedCall, Fail, AgentKept
<1> QED
  BY <1>1, <1>2, <1>3, <1>4, <1>5, <1>6, <1>7, <1>8, <1>9, <1>10, <1>11 DEF Worker

\* The worker keeps the incarnations in order.
LEMMA WorkerOrder ==
    ASSUME TypeOK, TypeOK', UidsInOrder, Worker
    PROVE  UidsInOrder'
<1>1. uids' = uids /\ uids \in Nat /\ uids <= uids'
  <2>1. uids' = uids
    BY WorkerKeeps DEF AgentKept, Reconcile, patchStatus, failedStatusView
  <2> QED
    BY <2>1 DEF TypeOK, ClusterTypeOK
<1>2. Agent \in DOMAIN api /\ Agent \in DOMAIN seen
  BY DEF TypeOK, ClusterTypeOK, Kinds
<1>3. ASSUME NEW k \in Children, api'[k] # Absent
      PROVE  \/ api[k] # Absent /\ api'[k].owner = api[k].owner
             \/ api'[k].owner <= 0
             \/ pc # "idle" /\ api'[k].owner = job.uid
  <2>1. CASE api'[k] = api[k]
    BY <1>3, <2>1
  <2>2. CASE api'[k] # api[k]
    <3>1. ~Reconcile
      BY <2>2 DEF Reconcile
    <3> QED
      BY <1>3, <2>2, <3>1, BusyWorkers, ChildWrites
  <2> QED
    BY <2>1, <2>2
<1>4. CASE Reconcile
  <2>1. api' = api /\ seen' = seen
    BY <1>4 DEF Reconcile
  <2>2. pc' # "idle" => seen[Agent] # Absent /\ job'.uid = seen[Agent].uid
    <3> DEFINE fresh == [ uid |-> seen[Agent].uid, gen |-> seen[Agent].gen,
                          spec |-> seen[Agent].spec, refs |-> [i \in Inputs |-> Absent],
                          first |-> Absent, mark |-> None, retry |-> FALSE ]
    <3>1. \/ pc' = "idle"
          \/ seen[Agent] # Absent /\ job' = fresh
          \/ seen[Agent] # Absent /\ \E m : job' = Marked(fresh, m, FALSE)
      BY <1>4 DEF Reconcile
    <3>2. \A m : Marked(fresh, m, FALSE).uid = seen[Agent].uid
      BY DEF Marked
    <3>3. fresh.uid = seen[Agent].uid
      OBVIOUS
    <3> HIDE DEF fresh
    <3> QED
      BY <3>1, <3>2, <3>3
  <2> QED
    BY <1>1, <1>3, <2>1, <2>2, OrderKept
<1>5. CASE patchStatus
  <2>1. pc' = "idle"
    BY <1>5 DEF patchStatus, Finish
  <2>2. api[Agent] # Absent => api[Agent] \in AgentObjects
    BY SeenTyped, ObjectKinds DEF TypeOK, Kinds
  <2> DEFINE stored == [api[Agent] EXCEPT !.status =
                          mergePatch(seen[Agent].status, mutate(stamped(seen[Agent])), @)]
  <2>3. CASE UNCHANGED <<api, seen>>
    BY <1>1, <1>3, <2>1, <2>3, OrderKept
  <2>4. CASE /\ api[Agent] # Absent /\ api' = [api EXCEPT ![Agent] = stored]
             /\ seen' = SeenAfter(Agent, stored)
    <3>1. stored.uid = api[Agent].uid
      BY <2>2, <2>4 DEF AgentObjects
    <3> HIDE DEF stored
    <3>2. api'[Agent] = stored /\ seen'[Agent] \in {seen[Agent], stored}
      BY <1>2, <2>4 DEF SeenAfter
    <3> QED
      BY <1>1, <1>3, <2>1, <2>4, <3>1, <3>2, OrderKept
  <2> QED
    BY <1>5, <2>3, <2>4 DEF patchStatus
<1>6. CASE failedStatusView
  <2>1. pc' = "idle" /\ UNCHANGED <<api, seen>>
    BY <1>6 DEF failedStatusView, Finish
  <2> QED
    BY <1>1, <1>3, <2>1, OrderKept
<1>7. CASE ~Reconcile /\ ~patchStatus /\ ~failedStatusView
  <2>1. AgentKept /\ pc # "idle"
    BY <1>7, WorkerKeeps, BusyWorkers
  <2> QED
    BY <1>1, <1>3, <2>1, OrderKept DEF AgentKept
<1> QED
  BY <1>4, <1>5, <1>6, <1>7

\* A write by anyone else: it keeps the owner of a child, or puts a child that names none
\* of the agents where there was none.
Written(k, o) ==
    /\ Store(k, o)
    /\ (k = Agent /\ o # Absent) =>
          \/ api[Agent] # Absent /\ o.uid = api[Agent].uid
          \/ o.uid = uids'
    /\ (k \in Children /\ o # Absent) =>
          \/ api[k] # Absent /\ o.owner = api[k].owner
          \/ api[k] = Absent /\ o.owner \in {NoOwner, OtherOwner}

\* What such a write does to the owner of any child.
LEMMA WrittenOwner ==
    ASSUME TypeOK, NEW k \in Kinds, NEW o, Written(k, o), NEW j \in Children, api'[j] # Absent
    PROVE  \/ api[j] # Absent /\ api'[j].owner = api[j].owner
           \/ api[j] = Absent /\ api'[j].owner \in {NoOwner, OtherOwner}
<1>1. DOMAIN api = Kinds /\ j \in Kinds
  BY DEF TypeOK, ClusterTypeOK, Kinds
<1>2. api'[j] = IF j = k THEN o ELSE api[j]
  BY <1>1 DEF Written, Store
<1> QED
  BY <1>2 DEF Written

\* Such a write keeps the incarnations in order.
LEMMA WrittenOrder ==
    ASSUME TypeOK, TypeOK', UidsInOrder, NEW k \in Kinds, NEW o, Written(k, o),
           UNCHANGED <<pc, job>>, uids <= uids'
    PROVE  UidsInOrder'
<1>1. DOMAIN api = Kinds /\ DOMAIN seen = Kinds /\ Agent \in Kinds
  BY DEF TypeOK, ClusterTypeOK, Kinds
<1>2. api'[Agent] = IF Agent = k THEN o ELSE api[Agent]
  BY <1>1 DEF Written, Store
<1>3. seen'[Agent] = seen[Agent] \/ seen'[Agent] = api'[Agent]
  BY <1>1, <1>2 DEF Written, Store, SeenAfter
<1>4. api'[Agent] # Absent =>
        \/ api[Agent] # Absent /\ api'[Agent].uid = api[Agent].uid
        \/ api'[Agent].uid = uids'
  BY <1>2 DEF Written
<1>5. ASSUME NEW j \in Children, api'[j] # Absent
      PROVE  (api[j] # Absent /\ api'[j].owner = api[j].owner) \/ api'[j].owner <= 0
  BY <1>5, WrittenOwner DEF NoOwner, OtherOwner
<1> QED
  BY <1>3, <1>4, <1>5, OrderKept

\* Every operation of a user is such a write.
LEMMA UsersWrite ==
    ASSUME TypeOK, Users
    PROVE  uids <= uids' /\ \E k \in Kinds : \E o : Written(k, o)
<1>1. /\ uids \in Nat /\ Agent \in Kinds /\ Agent \notin Children
      /\ Children \subseteq Kinds /\ Inputs \subseteq Kinds
      /\ \A i \in Inputs : i # Agent /\ i \notin Children
      /\ "StatefulSet" \in Children
  BY ClusterAssumption
  DEF TypeOK, ClusterTypeOK, Kinds, Agent, Children, ConfigIds, OptKinds
<1>2. /\ api[Agent] # Absent => api[Agent] \in AgentObjects
      /\ \A k \in Children : api[k] # Absent => api[k] \in ChildObjects(k)
  BY <1>1, SeenTyped, ObjectKinds DEF TypeOK
<1>3. CASE CreateAgent
  <2>1. PICK s \in Specs :
          Store(Agent, [uid |-> uids + 1, gen |-> 1, spec |-> s, status |-> EmptyStatus])
    BY <1>3 DEF CreateAgent
  <2>2. uids' = uids + 1
    BY <1>3 DEF CreateAgent
  <2> QED
    BY <1>1, <2>1, <2>2 DEF Written
<1>4. CASE UpdateAgent
  <2>1. PICK s \in Specs : Store(Agent, [api[Agent] EXCEPT !.spec = s, !.gen = @ + 1])
    BY <1>4 DEF UpdateAgent
  <2>2. uids' = uids /\ api[Agent] # Absent
    BY <1>4 DEF UpdateAgent
  <2>3. [api[Agent] EXCEPT !.spec = s, !.gen = @ + 1].uid = api[Agent].uid
    BY <1>2, <2>2 DEF AgentObjects
  <2>4. \E o : Store(Agent, o) /\ o.uid = api[Agent].uid
    BY <2>1, <2>3
  <2> QED
    BY <1>1, <2>2, <2>4 DEF Written
<1>5. CASE DeleteAgent
  BY <1>1, <1>5 DEF Written, DeleteAgent
<1>6. CASE ChangeInput
  BY <1>1, <1>6 DEF Written, ChangeInput
<1>7. CASE DeleteChild
  BY <1>1, <1>7 DEF Written, DeleteChild
<1>8. CASE ScaleStatefulSet
  <2> DEFINE sts == api["StatefulSet"]
  <2>1. PICK n : Store("StatefulSet",
                       [sts EXCEPT !.spec.replicas = n, !.status.observed = FALSE])
    BY <1>8 DEF ScaleStatefulSet
  <2>2. uids' = uids /\ sts # Absent
    BY <1>8 DEF ScaleStatefulSet
  <2>3. [sts EXCEPT !.spec.replicas = n, !.status.observed = FALSE].owner = sts.owner
    BY <1>1, <1>2, <2>2 DEF ChildObjects
  <2>4. \E o : Store("StatefulSet", o) /\ o.owner = sts.owner
    BY <2>1, <2>3
  <2> QED
    BY <1>1, <2>2, <2>4 DEF Written
<1>9. CASE CreateForeign
  <2>1. PICK k \in ForeignKinds, w \in {NoOwner, OtherOwner}, s \in Specs, p \in NodePorts :
          /\ api[k] = Absent
          /\ Store(k, Admitted(k, Absent,
                   [owner |-> w, spec |-> Desired(k, s, api), status |-> InitialStatus(k)], p))
    BY <1>9 DEF CreateForeign
  <2>2. uids' = uids /\ k \in Children
    BY <1>9, ClusterAssumption DEF CreateForeign
  <2>3. Admitted(k, Absent, [owner |-> w, spec |-> Desired(k, s, api),
                             status |-> InitialStatus(k)], p).owner = w
    BY DEF Admitted
  <2> QED
    BY <1>1, <2>1, <2>2, <2>3 DEF Written
<1> QED
  BY <1>3, <1>4, <1>5, <1>6, <1>7, <1>8, <1>9 DEF Users

\* Every operation of the control plane is such a write.
LEMMA ControlPlaneWrites ==
    ASSUME TypeOK, ControlPlane
    PROVE  uids' = uids /\ \E k \in Kinds : \E o : Written(k, o)
<1> DEFINE sts == api["StatefulSet"]
           pvc == api["PersistentVolumeClaim"]
<1>1. /\ uids \in Nat /\ Agent \notin Children /\ Children \subseteq Kinds
      /\ "StatefulSet" \in Children /\ "PersistentVolumeClaim" \in Children
  BY DEF TypeOK, ClusterTypeOK, Kinds, Agent, Children, ConfigIds, OptKinds
<1>2. \A k \in Children : api[k] # Absent => api[k] \in ChildObjects(k)
  BY <1>1, SeenTyped, ObjectKinds DEF TypeOK
<1>3. uids' = uids
  BY DEF ControlPlane, ObserveStatefulSet, AdjustPods, LosePod, BindClaim, LoseClaim,
         CollectGarbage
<1>4. CASE ObserveStatefulSet
  <2>1. sts # Absent /\ Store("StatefulSet", [sts EXCEPT !.status.observed = TRUE])
    BY <1>4 DEF ObserveStatefulSet
  <2>2. [sts EXCEPT !.status.observed = TRUE].owner = sts.owner
    BY <1>1, <1>2, <2>1 DEF ChildObjects
  <2>3. \E o : Store("StatefulSet", o) /\ o.owner = sts.owner
    BY <2>1, <2>2
  <2> QED
    BY <1>1, <1>3, <2>1, <2>3 DEF Written
<1>5. CASE AdjustPods \/ LosePod
  <2>1. sts # Absent /\ \E n : Store("StatefulSet", [sts EXCEPT !.status.ready = n])
    BY <1>5 DEF AdjustPods, LosePod
  <2>2. \A n : [sts EXCEPT !.status.ready = n].owner = sts.owner
    BY <1>1, <1>2, <2>1 DEF ChildObjects
  <2>3. \E o : Store("StatefulSet", o) /\ o.owner = sts.owner
    BY <2>1, <2>2
  <2> QED
    BY <1>1, <1>3, <2>1, <2>3 DEF Written
<1>6. CASE BindClaim \/ LoseClaim
  <2>1. pvc # Absent /\ \E p : Store("PersistentVolumeClaim", [pvc EXCEPT !.status = p])
    BY <1>6 DEF BindClaim, LoseClaim
  <2>2. \A p : [pvc EXCEPT !.status = p].owner = pvc.owner
    BY <1>1, <1>2, <2>1 DEF ChildObjects
  <2>3. \E o : Store("PersistentVolumeClaim", o) /\ o.owner = pvc.owner
    BY <2>1, <2>2
  <2> QED
    BY <1>1, <1>3, <2>1, <2>3 DEF Written
<1>7. CASE CollectGarbage
  BY <1>1, <1>3, <1>7 DEF Written, CollectGarbage
<1> QED
  BY <1>4, <1>5, <1>6, <1>7 DEF ControlPlane

\* UidsInOrder is inductive, given the types.
LEMMA OrderInductive == (TypeOK /\ UidsInOrder) /\ [Next]_vars => UidsInOrder'
<1> SUFFICES ASSUME TypeOK, UidsInOrder, [Next]_vars PROVE UidsInOrder'
  OBVIOUS
<1>1. TypeOK'
  BY StepTyped
<1>2. uids \in Nat /\ Agent \in Kinds /\ DOMAIN seen = Kinds
  BY DEF TypeOK, ClusterTypeOK, Kinds
<1>3. CASE UNCHANGED vars
  BY <1>1, <1>2, <1>3, OrderKept DEF vars
<1>4. CASE Delivery /\ UNCHANGED <<pc, job, emitted>>
  <2>1. UNCHANGED <<api, uids>> /\ seen'[Agent] \in {seen[Agent], api[Agent]}
    BY <1>2, <1>4 DEF Delivery, Deliver
  <2> QED
    BY <1>1, <1>2, <1>4, <2>1, OrderKept
<1>5. CASE Restart
  <2>1. UNCHANGED <<api, uids>> /\ seen' = api /\ pc' = "idle"
    BY <1>5 DEF Restart
  <2> QED
    BY <1>1, <1>2, <2>1, OrderKept
<1>6. CASE (Users \/ ControlPlane) /\ UNCHANGED <<pc, job, emitted>>
  BY <1>1, <1>2, <1>6, UsersWrite, ControlPlaneWrites, WrittenOrder
<1> QED
  BY <1>1, <1>3, <1>4, <1>5, <1>6, WorkerOrder DEF Next, Environment

\* At first there is no agent and no child.
LEMMA OrderInitial == Init => UidsInOrder
<1> SUFFICES ASSUME Init PROVE UidsInOrder
  OBVIOUS
<1>1. \A k \in {Agent} \cup Children : k \in Kinds /\ k \notin Inputs
  BY ClusterAssumption DEF Kinds
<1>2. \A k \in {Agent} \cup Children : api[k] = Absent /\ seen[k] = Absent
  BY <1>1 DEF Init, ClusterInit
<1> QED
  BY <1>2 DEF Init, UidsInOrder

\* One step changes the owner of a child only to a newer incarnation.
LEMMA OwnerStep ==
    ASSUME TypeOK, UidsInOrder, [Next]_vars, NEW k \in Children,
           OwnedByAgent(api[k]), OwnedByAgent(api'[k])
    PROVE  api'[k].owner >= api[k].owner
<1>1. api[k] # Absent /\ api'[k] # Absent /\ ~(api'[k].owner <= 0) /\ api[k].owner \in Int
  <2>1. TypeOK'
    BY StepTyped
  <2>2. UidsTyped /\ UidsTyped'
    BY <2>1, UidTypes, PTL
  <2> QED
    BY <2>2 DEF OwnedByAgent, UidsTyped
<1>2. CASE api'[k] = api[k]
  BY <1>1, <1>2
<1>3. CASE Worker /\ api'[k] # api[k]
  <2>1. ~Reconcile
    BY <1>3 DEF Reconcile
  <2>2. pc # "idle" /\ job.uid \in Nat
    BY <1>3, <2>1, BusyWorkers DEF Jobs
  <2>3. api'[k].owner = job.uid
    BY <1>1, <1>3, ChildWrites
  <2>4. api[k].owner <= job.uid
    BY <1>1, <2>2 DEF UidsInOrder, UpToJob
  <2> QED
    BY <1>1, <2>2, <2>3, <2>4
<1>4. CASE Users \/ ControlPlane
  <2>1. api'[k].owner = api[k].owner
    BY <1>1, <1>4, UsersWrite, ControlPlaneWrites, WrittenOwner DEF NoOwner, OtherOwner
  <2> QED
    BY <1>1, <2>1
<1>5. UNCHANGED vars \/ Delivery \/ Restart => api'[k] = api[k]
  BY DEF vars, Delivery, Deliver, Restart
<1> QED
  BY <1>2, <1>3, <1>4, <1>5 DEF Next, Environment

\* For every instance: a child never goes from a newer incarnation of the agent to an
\* older one.  The worker that still acts for a deleted agent is the only one, and
\* every owner it meets is at most the uid it acts for (Reconcile, UidsInOrder).
THEOREM OwnersForward == Spec => OwnersMoveForward
<1> DEFINE Forward == \A k \in Children :
                        (OwnedByAgent(api[k]) /\ OwnedByAgent(api'[k])) =>
                            api'[k].owner >= api[k].owner
<1>1. Init => TypeOK /\ UidsInOrder
  BY InitTyped, OrderInitial
<1>2. (TypeOK /\ UidsInOrder) /\ [Next]_vars => (TypeOK /\ UidsInOrder)'
  BY StepTyped, OrderInductive
<1>3. (TypeOK /\ UidsInOrder) /\ [Next]_vars => [Forward]_vars
  BY OwnerStep
<1> QED
  BY <1>1, <1>2, <1>3, PTL DEF Spec, OwnersMoveForward
=============================================================================
