---------------------------- MODULE HermesProofs ----------------------------
(***************************************************************************)
(* Type correctness of the reconciler, for every set of specs, inputs,     *)
(* lagging caches and disturbances: TypeOK is inductive as it stands.  It  *)
(* says more than the shape of the data: the worker has in its job what    *)
(* the next call takes from it (the claim that was read first, the mark    *)
(* patchStatus applies, a spec with a Service when one is written), and    *)
(* every status, merged from a cached and a stored one, is a status.       *)
(***************************************************************************)
EXTENDS HermesProperties, TLAPS

\* The three sorts of object are told apart by name.
LEMMA ObjectKinds ==
    /\ Objects(Agent) = AgentObjects \cup {Absent}
    /\ \A k \in Children : Objects(k) = ChildObjects(k) \cup {Absent}
    /\ \A i \in Inputs : Objects(i) = InputValues
<1>1. Agent \notin Children
  BY DEF Agent, Children, ConfigIds, OptKinds
<1>2. \A i \in Inputs : i # Agent /\ i \notin Children
  BY ClusterAssumption
<1> QED
  BY <1>1, <1>2 DEF Objects

\* Storing an object of the right kind keeps the objects and caches typed.
LEMMA StoreTyped ==
    ASSUME ClusterTypeOK, NEW k \in Kinds, NEW o \in Objects(k), Store(k, o)
    PROVE  /\ DOMAIN api' = Kinds /\ \A j \in Kinds : api'[j] \in Objects(j)
           /\ DOMAIN seen' = Kinds /\ \A j \in Kinds : seen'[j] \in Objects(j)
           /\ queued' \in BOOLEAN /\ due' \in SUBSET Kinds
  BY DEF ClusterTypeOK, Store, SeenAfter, DueAfter

\* A snapshot holds a value for every input.
LEMMA SnapshotTyped ==
    ASSUME NEW s \in AgentSpec, NEW refs, \A i \in Inputs : refs[i] \in InputValues
    PROVE  Snapshot(s, refs) \in [Inputs -> InputValues]
  BY DEF Snapshot, InputValues

\* The config hash of a typed spec and snapshot.
LEMMA HashTyped ==
    ASSUME NEW s \in AgentSpec, NEW refs \in [Inputs -> InputValues]
    PROVE  configHash(s, refs) \in Hashes
  BY SnapshotTyped DEF configHash, Hashes, AgentSpec

\* buildService yields a Service spec when the spec asks for one.
LEMMA ServiceTyped ==
    ASSUME NEW s \in AgentSpec, s.service # None
    PROVE  /\ servicePort(s) \in Nat
           /\ buildService(s) \in ChildSpec("Service")
  BY DEF AgentSpec, servicePort, buildService, ChildSpec, ConfigIds

\* buildPersistentVolumeClaim yields a claim spec.
LEMMA ClaimTyped ==
    ASSUME NEW s \in AgentSpec
    PROVE  buildPersistentVolumeClaim(s) \in ChildSpec("PersistentVolumeClaim")
  BY DEF AgentSpec, buildPersistentVolumeClaim, persistenceAccessModes, ChildSpec,
         ConfigIds, Modes

\* buildStatefulSet yields a StatefulSet spec.
LEMMA StatefulSetTyped ==
    ASSUME NEW s \in AgentSpec, NEW h \in Hashes
    PROVE  buildStatefulSet(s, h) \in ChildSpec("StatefulSet")
<1>1. desiredReplicas(s) \in Nat
  BY DEF AgentSpec, desiredReplicas
<1>2. (IF s.service = None THEN 0 ELSE servicePort(s)) \in Nat
  BY ServiceTyped
<1>3. Generated(s) \in SUBSET ConfigIds
  BY DEF Generated
<1>4. s.image \in Images /\ s.persistence \in BOOLEAN
  BY DEF AgentSpec
<1> QED
  BY <1>1, <1>2, <1>3, <1>4 DEF buildStatefulSet, ChildSpec, ConfigIds

\* The defaults the API server fills in keep an object typed.
LEMMA AdmittedTyped ==
    ASSUME NEW k \in Children, NEW old, NEW new \in ChildObjects(k), NEW port \in Nat
    PROVE  Admitted(k, old, new, port) \in ChildObjects(k)
<1>1. CASE k = "PersistentVolumeClaim"
  BY <1>1, ResourcesAssumption
  DEF Admitted, ChildObjects, ChildSpec, ChildStatus, ConfigIds
<1>2. CASE k = "StatefulSet"
  BY <1>2 DEF Admitted, ChildObjects, ChildSpec, ChildStatus, ConfigIds
<1>3. CASE k = "Service"
  BY <1>3 DEF Admitted, ChildObjects, ChildSpec, ChildStatus, ConfigIds
<1>4. CASE k \notin {"PersistentVolumeClaim", "StatefulSet", "Service"}
  BY <1>4 DEF Admitted
<1> QED
  BY <1>1, <1>2, <1>3, <1>4

\* A new child has a status of its kind.
LEMMA InitialStatusTyped ==
    ASSUME NEW k \in Children
    PROVE  InitialStatus(k) \in ChildStatus(k)
  BY DEF InitialStatus, ChildStatus

-----------------------------------------------------------------------------
(* The worker's memory.                                                    *)

\* A job can hold what the first read of any twice-read object returned.
LEMMA FirstReadKinds ==
    /\ Absent \in FirstReads
    /\ Objects("PersistentVolumeClaim") \subseteq FirstReads
    /\ \A k \in OptKinds : Objects(k) \subseteq FirstReads
  BY ObjectKinds DEF FirstReads, Children, OptKinds

\* Handing a mark to patchStatus keeps the job typed.
LEMMA MarkedTyped ==
    ASSUME NEW j \in Jobs, NEW mark \in Marks, NEW retry \in BOOLEAN
    PROVE  /\ Marked(j, mark, retry) \in Jobs
           /\ Marked(j, mark, retry).mark \in Marks
  BY FirstReadKinds DEF Jobs, Marked

\* The hash Reconcile computes from its job.
LEMMA JobHashTyped ==
    ASSUME job \in Jobs
    PROVE  hash \in Hashes
  BY HashTyped DEF hash, Jobs

\* The calls whose failure Reconcile turns into a status, and the steps that rely on
\* what an earlier step of the same pass put into the job.
CallSteps     == Steps \ StatusSteps
PreparedSteps == {"write PersistentVolumeClaim", "write Service",
                  "readStatusView StatefulSet", "patchStatus"}

\* A failed call hands patchStatus a mark of the stage it belongs to.
LEMMA FailTyped ==
    ASSUME job \in Jobs, pc \in CallSteps, NEW error \in Errors, Fail(error)
    PROVE  pc' = "patchStatus" /\ job' \in Jobs /\ job'.mark \in Marks
<1> DEFINE mark == [stage |-> StageOf(FailureOf(pc)),
                    hash |-> IF pc = "resolveReferencedInputs" THEN None ELSE hash,
                    reason |-> FailureOf(pc), message |-> <<"error", error>>]
<1>1. <<"error", error>> \in Messages
  BY DEF Messages
<1>2. mark \in Marks
  <2>1. CASE pc = "resolveReferencedInputs"
    <3>1. FailureOf(pc) = "ReferencedInputsReadFailed"
      BY <2>1 DEF FailureOf, ConfigIds
    <3>2. StageOf(FailureOf(pc)) = "config"
      BY <3>1 DEF StageOf, ConfigFailures, StorageFailures, WorkloadFailures
    <3> QED
      BY <2>1, <3>1, <3>2, <1>1 DEF Marks, ConfigFailures
  <2>2. CASE pc \in ConfigIds \cup {"cleanupStaleGeneratedConfigMaps", "stale config",
                                    "stale gateway-config"}
    <3>1. FailureOf(pc) = "ConfigMapReconcileFailed"
      BY <2>2 DEF FailureOf, ConfigIds
    <3>2. StageOf(FailureOf(pc)) = "config"
      BY <3>1 DEF StageOf, ConfigFailures, StorageFailures, WorkloadFailures
    <3> QED
      BY <2>2, <3>1, <3>2, <1>1, JobHashTyped DEF Marks, ConfigFailures, ConfigIds
  <2>3. CASE pc \in {"PersistentVolumeClaim", "write PersistentVolumeClaim"}
    <3>1. FailureOf(pc) = "PersistentVolumeClaimReconcileFailed"
      BY <2>3 DEF FailureOf, ConfigIds
    <3>2. StageOf(FailureOf(pc)) = "persistence"
      BY <3>1 DEF StageOf, ConfigFailures, StorageFailures, WorkloadFailures
    <3> QED
      BY <2>3, <3>1, <3>2, <1>1, JobHashTyped DEF Marks
  <2>4. CASE pc \in {"StatefulSet", "Service", "write Service", "NetworkPolicy",
                     "write NetworkPolicy", "PodDisruptionBudget",
                     "write PodDisruptionBudget"}
    <3>1. FailureOf(pc) \in WorkloadFailures
      BY <2>4 DEF FailureOf, ConfigIds, WorkloadFailures
    <3>2. StageOf(FailureOf(pc)) = "workload"
      BY <3>1 DEF StageOf, ConfigFailures, StorageFailures, WorkloadFailures
    <3> QED
      BY <2>4, <3>1, <3>2, <1>1, JobHashTyped DEF Marks
  <2> QED
    BY <2>1, <2>2, <2>3, <2>4
    DEF CallSteps, Steps, ChildSteps, StatusSteps, Children, ConfigIds, OptKinds
<1>3. pc' = "patchStatus" /\ job' = Marked(job, mark, TRUE)
  BY DEF Fail, FailWith
<1> QED
  BY <1>2, <1>3, MarkedTyped

\* A call that went through leads to a step that needs nothing prepared.
LEMMA AdvanceTyped ==
    ASSUME job \in Jobs, pc \in CallSteps, Advance
    PROVE  /\ pc' \in Steps \ PreparedSteps
           /\ job' \in Jobs
<1>1. pc' \in Steps \ PreparedSteps
  BY DEF Advance, After, CallSteps, PreparedSteps, Steps, ChildSteps, StatusSteps,
         Children, ConfigIds, OptKinds
<1>2. job' \in Jobs
  BY FirstReadKinds DEF Advance, Jobs
<1> QED
  BY <1>1, <1>2

\* At every step of Reconcile the worker holds a job.
LEMMA BusyWorker ==
    ASSUME WorkerTypeOK, pc \in Steps
    PROVE  job \in Jobs
  BY DEF WorkerTypeOK, Steps, ChildSteps, StatusSteps, Children, ConfigIds, OptKinds

\* A failed call keeps the worker typed.
LEMMA FailedTyped ==
    ASSUME TypeOK, pc \in CallSteps, NEW error \in Errors, Fail(error), UNCHANGED emitted
    PROVE  WorkerTypeOK'
<1>1. job \in Jobs
  BY BusyWorker DEF TypeOK, CallSteps
<1>2. pc' = "patchStatus" /\ job' \in Jobs /\ job'.mark \in Marks
  BY <1>1, FailTyped
<1> QED
  BY <1>2 DEF TypeOK, WorkerTypeOK, Steps, StatusSteps

\* A call that went through keeps the worker typed.
LEMMA AdvancedTyped ==
    ASSUME TypeOK, pc \in CallSteps, Advance, UNCHANGED emitted
    PROVE  WorkerTypeOK'
<1>1. job \in Jobs
  BY BusyWorker DEF TypeOK, CallSteps
<1>2. /\ pc' \in Steps \ PreparedSteps
      /\ job' \in Jobs
  BY <1>1, AdvanceTyped
<1>3. "idle" \notin Steps
  BY DEF Steps, ChildSteps, StatusSteps, Children, ConfigIds, OptKinds
<1> QED
  BY <1>2, <1>3 DEF TypeOK, WorkerTypeOK, PreparedSteps

\* A step that does not touch the cluster keeps it typed.
LEMMA LocalTyped ==
    ASSUME ClusterTypeOK, Local
    PROVE  ClusterTypeOK'
  BY DEF ClusterTypeOK, Local, cluster

\* A write of a typed child keeps everything typed, whatever the answer.
LEMMA CallTyped ==
    ASSUME TypeOK, pc \in CallSteps, NEW k \in Children, NEW error \in Errors \cup {"ok"},
           NEW o \in Objects(k), Call(k, error, o), UNCHANGED emitted
    PROVE  TypeOK'
<1>0. k \in Kinds /\ ClusterTypeOK
  BY DEF Kinds, TypeOK
<1>1. CASE error = "ok" /\ Store(k, o) /\ Advance /\ UNCHANGED faults
  <2>1. WorkerTypeOK'
    BY <1>1, AdvancedTyped
  <2>2. ClusterTypeOK'
    BY <1>0, <1>1, StoreTyped DEF ClusterTypeOK, Call
  <2> QED
    BY <2>1, <2>2 DEF TypeOK
<1>2. CASE error = "ok" /\ Store(k, o) /\ Fault /\ Fail("Unavailable")
  <2>1. WorkerTypeOK'
    BY <1>2, FailedTyped DEF Errors
  <2>2. ClusterTypeOK'
    BY <1>0, <1>2, StoreTyped DEF ClusterTypeOK, Call, Fault
  <2> QED
    BY <2>1, <2>2 DEF TypeOK
<1>3. CASE error # "ok" /\ Fail(error) /\ UNCHANGED <<api, seen, queued, due, faults>>
  <2>1. WorkerTypeOK'
    BY <1>3, FailedTyped
  <2>2. ClusterTypeOK'
    BY <1>0, <1>3 DEF ClusterTypeOK, Call
  <2> QED
    BY <2>1, <2>2 DEF TypeOK
<1> QED
  BY <1>1, <1>2, <1>3 DEF Call

\* What CreateOrUpdate sends is an object of its kind.
LEMMA WantedTyped ==
    ASSUME ClusterTypeOK, job \in Jobs, NEW k \in Children, NEW spec \in ChildSpec(k)
    PROVE  Wanted(k, spec) \in ChildObjects(k)
<1>1. job.uid \in Owners
  BY DEF Jobs, Owners
<1>2. CASE seen[k] = Absent
  BY <1>1, <1>2, InitialStatusTyped DEF Wanted, ChildObjects
<1>3. CASE seen[k] # Absent
  <2>1. seen[k] \in ChildObjects(k)
    BY <1>3, ObjectKinds DEF ClusterTypeOK, Kinds
  <2> QED
    BY <1>1, <1>3, <2>1 DEF Wanted, ChildObjects
<1> QED
  BY <1>2, <1>3

\* CreateOrUpdate of a typed spec.
LEMMA CreateOrUpdateTyped ==
    ASSUME TypeOK, pc \in CallSteps, NEW k \in Children, NEW spec \in ChildSpec(k),
           CreateOrUpdate(k, spec), UNCHANGED emitted
    PROVE  TypeOK'
<1> DEFINE new     == Wanted(k, spec)
           refusal == CASE seen[k] = Absent /\ job.first # Absent -> "Invalid"
                        [] seen[k] = Absent /\ job.first = Absent /\ api[k] # Absent ->
                              "AlreadyExists"
                        [] seen[k] # Absent /\ api[k] = Absent -> "NotFound"
                        [] seen[k] # Absent /\ api[k] # Absent /\ api[k] # seen[k] -> "Conflict"
                        [] seen[k] # Absent /\ api[k] = seen[k] /\ Refuses(k, api[k], new) ->
                              "Invalid"
                        [] OTHER -> "ok"
<1>1. CASE ~SetControllerReference(k) /\ Fail("AlreadyOwned") /\ Local
  BY <1>1, FailedTyped, LocalTyped DEF TypeOK, Errors
<1>2. CASE Advance /\ Local
  BY <1>2, AdvancedTyped, LocalTyped DEF TypeOK
<1>3. ASSUME NEW port \in NodePorts, Call(k, refusal, Admitted(k, seen[k], new, port))
      PROVE  TypeOK'
  <2>1. refusal \in Errors \cup {"ok"}
    BY DEF Errors
  <2>2. new \in ChildObjects(k)
    BY WantedTyped, BusyWorker DEF TypeOK, CallSteps
  <2>3. port \in Nat
    BY ResourcesAssumption
  <2>4. Admitted(k, seen[k], new, port) \in Objects(k)
    BY <2>2, <2>3, AdmittedTyped, ObjectKinds
  <2> HIDE DEF refusal, new
  <2> QED
    BY <1>3, <2>1, <2>4, CallTyped
<1> QED
  BY <1>1, <1>2, <1>3 DEF CreateOrUpdate

\* Delete of a child.
LEMMA DeleteTyped ==
    ASSUME TypeOK, pc \in CallSteps, NEW k \in Children, NEW ignore \in BOOLEAN,
           Delete(k, ignore), UNCHANGED emitted
    PROVE  TypeOK'
  BY CallTyped, ObjectKinds DEF Delete, Errors

-----------------------------------------------------------------------------
(* The status.                                                             *)

\* A verdict from a truth, a reason and a message.
LEMMA VerdictTyped ==
    ASSUME NEW status \in Truths, NEW reason \in Reasons, NEW message \in Messages
    PROVE  Verdict(status, reason, message) \in Verdicts
  BY DEF Verdict, Verdicts

\* setCondition yields a condition.
LEMMA ConditionTyped ==
    ASSUME NEW st \in AgentStatus, NEW v \in Verdicts
    PROVE  setCondition(st, v) \in Conditions
  BY DEF setCondition, AgentStatus, Verdicts, Conditions

\* The four conditions, set together.
LEMMA ConditionsTyped ==
    ASSUME NEW a \in Conditions \cup {None}, NEW b \in Conditions \cup {None},
           NEW c \in Conditions \cup {None}, NEW d \in Conditions \cup {None}
    PROVE  [ConfigReady |-> a, PersistenceReady |-> b, WorkloadReady |-> c, Ready |-> d]
              \in [ConditionTypes -> Conditions \cup {None}]
  BY DEF ConditionTypes

\* The empty message is a message.
LEMMA EmptyMessage == <<>> \in Messages
  BY DEF Messages

\* populateStatusMetadata keeps a status typed.
LEMMA MetadataTyped ==
    ASSUME NEW st \in AgentStatus, NEW s \in AgentSpec, NEW h \in Hashes \cup {None}
    PROVE  populateStatusMetadata(st, s, h) \in AgentStatus
  BY DEF populateStatusMetadata, AgentStatus, AgentSpec

\* markConfigFailure keeps a status typed.
LEMMA ConfigFailureTyped ==
    ASSUME NEW st \in AgentStatus, NEW reason \in ConfigFailures, NEW message \in Messages
    PROVE  markConfigFailure(st, reason, message) \in AgentStatus
<1>1. reason \in Reasons /\ "Unknown" \in Reasons
  BY DEF Reasons, Failures
<1>2. /\ Verdict("False", reason, message) \in Verdicts
      /\ Verdict("Unknown", "Unknown", <<>>) \in Verdicts
      /\ Verdict("False", reason, <<>>) \in Verdicts
  BY <1>1, VerdictTyped, EmptyMessage DEF Truths
<1>3. /\ setCondition(st, Verdict("False", reason, message)) \in Conditions \cup {None}
      /\ setCondition(st, Verdict("Unknown", "Unknown", <<>>)) \in Conditions \cup {None}
      /\ setCondition(st, Verdict("False", reason, <<>>)) \in Conditions \cup {None}
  BY <1>2, ConditionTyped
<1>4. markConfigFailure(st, reason, message).conditions
          \in [ConditionTypes -> Conditions \cup {None}]
  BY <1>3, ConditionsTyped DEF markConfigFailure, AgentStatus
<1> QED
  BY <1>4 DEF markConfigFailure, AgentStatus, Phases

\* markPersistenceFailure keeps a status typed; a drift carries its fields.
LEMMA PersistenceFailureTyped ==
    ASSUME NEW st \in AgentStatus, NEW reason \in StorageFailures, NEW message \in Messages,
           reason = "PersistentVolumeClaimSpecDrift" =>
              message \in {"fields"} \X SUBSET ImmutableFields
    PROVE  markPersistenceFailure(st, reason, message) \in AgentStatus
<1> DEFINE drift   == reason = "PersistentVolumeClaimSpecDrift"
           verdict == IF drift THEN Verdict("Unknown", reason, <<>>)
                      ELSE Verdict("False", "WaitingForPersistence", <<>>)
<1>1. reason \in Reasons /\ "WaitingForPersistence" \in Reasons
  BY DEF Reasons, Failures
<1>2. /\ Verdict("False", reason, message) \in Verdicts
      /\ verdict \in Verdicts
      /\ Verdict("False", reason, <<>>) \in Verdicts
  BY <1>1, VerdictTyped, EmptyMessage DEF Truths
<1>3. ConfigReconciled \in Verdicts
  BY VerdictTyped, EmptyMessage DEF ConfigReconciled, Truths, Reasons
<1>4. /\ setCondition(st, ConfigReconciled) \in Conditions \cup {None}
      /\ setCondition(st, Verdict("False", reason, message)) \in Conditions \cup {None}
      /\ setCondition(st, verdict) \in Conditions \cup {None}
      /\ setCondition(st, Verdict("False", reason, <<>>)) \in Conditions \cup {None}
  BY <1>2, <1>3, ConditionTyped
<1>5. markPersistenceFailure(st, reason, message).conditions
          \in [ConditionTypes -> Conditions \cup {None}]
  BY <1>4, ConditionsTyped DEF markPersistenceFailure, AgentStatus
<1>6. (IF drift THEN message[2] ELSE st.driftedFields) \in SUBSET ImmutableFields
  BY DEF AgentStatus
<1> QED
  BY <1>5, <1>6 DEF markPersistenceFailure, AgentStatus, Phases

\* markWorkloadFailure keeps a status typed.
LEMMA WorkloadFailureTyped ==
    ASSUME NEW st \in AgentStatus, NEW reason \in WorkloadFailures, NEW message \in Messages
    PROVE  markWorkloadFailure(st, reason, message) \in AgentStatus
<1>1. reason \in Reasons
  BY DEF Reasons, Failures
<1>2. /\ Verdict("False", reason, message) \in Verdicts
      /\ Verdict("False", reason, <<>>) \in Verdicts
      /\ ConfigReconciled \in Verdicts
  BY <1>1, VerdictTyped, EmptyMessage DEF ConfigReconciled, Truths, Reasons
<1>3. /\ setCondition(st, ConfigReconciled) \in Conditions \cup {None}
      /\ setCondition(st, Verdict("False", reason, message)) \in Conditions \cup {None}
      /\ setCondition(st, Verdict("False", reason, <<>>)) \in Conditions \cup {None}
      /\ st.conditions.PersistenceReady \in Conditions \cup {None}
  BY <1>2, ConditionTyped DEF AgentStatus, ConditionTypes
<1>4. markWorkloadFailure(st, reason, message).conditions
          \in [ConditionTypes -> Conditions \cup {None}]
  BY <1>3, ConditionsTyped DEF markWorkloadFailure, AgentStatus
<1> QED
  BY <1>4 DEF markWorkloadFailure, AgentStatus, Phases

\* The closure of a successful pass keeps a status typed.
LEMMA ViewMarkTyped ==
    ASSUME NEW st \in AgentStatus, NEW view \in Views
    PROVE  markView(st, view) \in AgentStatus
<1>1. ConfigReconciled \in Verdicts
  BY VerdictTyped, EmptyMessage DEF ConfigReconciled, Truths, Reasons
<1>2. /\ setCondition(st, ConfigReconciled) \in Conditions \cup {None}
      /\ setCondition(st, view.persistence) \in Conditions \cup {None}
      /\ setCondition(st, view.workload) \in Conditions \cup {None}
      /\ setCondition(st, view.ready) \in Conditions \cup {None}
  BY <1>1, ConditionTyped DEF Views
<1>3. markView(st, view).conditions \in [ConditionTypes -> Conditions \cup {None}]
  BY <1>2, ConditionsTyped DEF markView, AgentStatus
<1> QED
  BY <1>3 DEF markView, AgentStatus, Views

\* The view of a claim that is not bound.
LEMMA StorageViewTyped ==
    ASSUME NEW reason \in Reasons, NEW phase \in Phases
    PROVE  StorageView(reason, phase) \in Views
<1>1. /\ Verdict("False", reason, <<>>) \in Verdicts
      /\ Verdict("False", "WaitingForPersistence", <<>>) \in Verdicts
  BY VerdictTyped, EmptyMessage DEF Truths, Reasons
<1> QED
  BY <1>1 DEF StorageView, Views

\* The view of a StatefulSet, there or not.
LEMMA WorkloadViewTyped ==
    ASSUME NEW s \in AgentSpec, NEW sts \in ChildObjects("StatefulSet") \cup {Absent}
    PROVE  WorkloadView(s, sts) \in Views
<1> DEFINE reason ==
            CASE sts = Absent                -> "StatefulSetMissing"
              [] sts # Absent /\ statefulSetReady(sts) -> "StatefulSetReady"
              [] sts # Absent /\ ~statefulSetReady(sts) /\ ~sts.status.observed
                                             -> "StatefulSetRolloutPending"
              [] OTHER                       -> "StatefulSetWaitingForReadyReplicas"
           ready   == reason = "StatefulSetReady"
           message == IF reason \in {"StatefulSetReady", "StatefulSetWaitingForReadyReplicas"}
                      THEN <<"replicas", sts.status.ready, sts.spec.replicas>>
                      ELSE <<>>
           bound   == IF s.persistence THEN "PersistentVolumeClaimBound"
                                       ELSE "PersistenceDisabled"
<1>1. reason \in {"StatefulSetMissing", "StatefulSetReady", "StatefulSetRolloutPending",
                  "StatefulSetWaitingForReadyReplicas"}
  OBVIOUS
<1>2. sts # Absent => sts.status.ready \in Nat /\ sts.spec.replicas \in Nat
  BY DEF ChildObjects, ChildSpec, ChildStatus, ConfigIds
<1>3. sts = Absent => reason = "StatefulSetMissing"
  OBVIOUS
<1>4. message \in Messages
  <2>1. CASE reason \in {"StatefulSetReady", "StatefulSetWaitingForReadyReplicas"}
    <3>1. sts # Absent
      BY <2>1, <1>3
    <3>2. message = <<"replicas", sts.status.ready, sts.spec.replicas>>
      BY <2>1
    <3> QED
      BY <3>1, <3>2, <1>2 DEF Messages
  <2>2. CASE reason \notin {"StatefulSetReady", "StatefulSetWaitingForReadyReplicas"}
    BY <2>2, EmptyMessage
  <2> QED
    BY <2>1, <2>2
<1> HIDE DEF message
<1>5. reason \in Reasons /\ bound \in Reasons /\ "Ready" \in Reasons
  BY <1>1 DEF Reasons
<1> HIDE DEF reason, bound
<1>6. /\ Verdict("True", bound, <<>>) \in Verdicts
      /\ Verdict(IF ready THEN "True" ELSE "False", reason, message) \in Verdicts
      /\ (IF ready THEN Verdict("True", "Ready", <<>>)
                   ELSE Verdict("False", reason, message)) \in Verdicts
  BY <1>4, <1>5, VerdictTyped, EmptyMessage DEF Truths
<1>7. (IF sts = Absent THEN 0 ELSE sts.status.ready) \in Nat
  BY <1>2
<1>8. s.persistence \in BOOLEAN /\ (IF ready THEN "Ready" ELSE "WorkloadPending") \in Phases
  BY DEF AgentSpec, Phases
<1>9. WorkloadView(s, sts) =
        [ readyReplicas    |-> IF sts = Absent THEN 0 ELSE sts.status.ready,
          persistenceBound |-> s.persistence,
          persistence      |-> Verdict("True", bound, <<>>),
          workload         |-> Verdict(IF ready THEN "True" ELSE "False", reason, message),
          ready            |-> IF ready THEN Verdict("True", "Ready", <<>>)
                                        ELSE Verdict("False", reason, message),
          phase            |-> IF ready THEN "Ready" ELSE "WorkloadPending" ]
  BY DEF WorkloadView, reason, message, bound
<1> HIDE DEF ready
<1> QED
  BY <1>6, <1>7, <1>8, <1>9 DEF Views

\* readStatusView yields a view from whatever the two reads returned.
LEMMA StatusViewTyped ==
    ASSUME NEW s \in AgentSpec,
           NEW pvc \in Objects("PersistentVolumeClaim"), NEW sts \in Objects("StatefulSet")
    PROVE  readStatusView(s, pvc, sts) \in Views
<1>1. sts \in ChildObjects("StatefulSet") \cup {Absent}
  BY ObjectKinds DEF Children
<1>2. CASE s.persistence /\ pvc = Absent
  BY <1>2, StorageViewTyped DEF readStatusView, Reasons, Phases
<1>3. CASE s.persistence /\ pvc # Absent /\ pvc.status # "Bound"
  <2>1. persistenceReason(pvc.status) \in Reasons /\ persistencePhase(pvc.status) \in Phases
    BY DEF persistenceReason, persistencePhase, Reasons, Phases
  <2>2. readStatusView(s, pvc, sts) =
            StorageView(persistenceReason(pvc.status), persistencePhase(pvc.status))
    BY <1>3 DEF readStatusView
  <2> QED
    BY <2>1, <2>2, StorageViewTyped
<1>4. CASE ~s.persistence \/ (pvc # Absent /\ pvc.status = "Bound")
  <2>1. readStatusView(s, pvc, sts) = WorkloadView(s, sts)
    BY <1>4 DEF readStatusView
  <2> QED
    BY <1>1, <2>1, WorkloadViewTyped
<1> QED
  BY <1>2, <1>3, <1>4

\* Each of the closures patchStatus runs keeps a status typed.
LEMMA MutateTyped ==
    ASSUME job \in Jobs, job.mark \in Marks, NEW st \in AgentStatus
    PROVE  mutate(st) \in AgentStatus
<1> DEFINE mark == job.mark
           with == populateStatusMetadata(st, job.spec, mark.hash)
<1>1. job.spec \in AgentSpec
  BY DEF Jobs
<1>2. CASE mark \in [stage : {"config"}, hash : Hashes \cup {None}, reason : ConfigFailures,
                     message : Messages]
  <2>1. with \in AgentStatus
    BY <1>1, <1>2, MetadataTyped
  <2>2. mutate(st) = markConfigFailure(with, mark.reason, mark.message)
    BY <1>2 DEF mutate
  <2> HIDE DEF with
  <2> QED
    BY <1>2, <2>1, <2>2, ConfigFailureTyped
<1>3. CASE mark \in [stage : {"persistence"}, hash : Hashes,
                     reason : {"PersistentVolumeClaimReconcileFailed"}, message : Messages]
  <2>1. with \in AgentStatus
    BY <1>1, <1>3, MetadataTyped
  <2>2. mutate(st) = markPersistenceFailure(with, mark.reason, mark.message)
    BY <1>3 DEF mutate
  <2> HIDE DEF with
  <2> QED
    BY <1>3, <2>1, <2>2, PersistenceFailureTyped DEF StorageFailures
<1>4. CASE mark \in [stage : {"persistence"}, hash : Hashes,
                     reason : {"PersistentVolumeClaimSpecDrift"},
                     message : {"fields"} \X SUBSET ImmutableFields]
  <2>1. with \in AgentStatus
    BY <1>1, <1>4, MetadataTyped
  <2>2. mutate(st) = markPersistenceFailure(with, mark.reason, mark.message)
    BY <1>4 DEF mutate
  <2>3. mark.message \in Messages
    BY <1>4 DEF Messages
  <2> HIDE DEF with
  <2> QED
    BY <1>4, <2>1, <2>2, <2>3, PersistenceFailureTyped DEF StorageFailures
<1>5. CASE mark \in [stage : {"workload"}, hash : Hashes, reason : WorkloadFailures,
                     message : Messages]
  <2>1. with \in AgentStatus
    BY <1>1, <1>5, MetadataTyped
  <2>2. mutate(st) = markWorkloadFailure(with, mark.reason, mark.message)
    BY <1>5 DEF mutate
  <2> HIDE DEF with
  <2> QED
    BY <1>5, <2>1, <2>2, WorkloadFailureTyped
<1>6. CASE mark \in [stage : {"view"}, hash : Hashes, view : Views]
  <2>1. with \in AgentStatus
    BY <1>1, <1>6, MetadataTyped
  <2>2. mutate(st) = markView(with, mark.view)
    BY <1>6 DEF mutate
  <2> HIDE DEF with
  <2> QED
    BY <1>6, <2>1, <2>2, ViewMarkTyped
<1> QED
  BY <1>2, <1>3, <1>4, <1>5, <1>6 DEF Marks

\* The merge patch of typed statuses is a typed status.
LEMMA MergeTyped ==
    ASSUME NEW base \in AgentStatus, NEW new \in AgentStatus, NEW current \in AgentStatus
    PROVE  mergePatch(base, new, current) \in AgentStatus
  BY DEF mergePatch, Merged, AgentStatus

\* The events of a transition name conditions and reasons.
LEMMA EventsTyped ==
    ASSUME NEW before \in AgentStatus, NEW after \in AgentStatus
    PROVE  statusEventsForTransition(before, after) \in SUBSET Events
<1>1. \A t \in ConditionTypes :
        changed(before, after, t) => after.conditions[t].reason \in Reasons
  BY DEF changed, AgentStatus, Conditions
<1> QED
  BY <1>1 DEF statusEventsForTransition, Events

-----------------------------------------------------------------------------
(* Type correctness.                                                       *)

\* Objects and cached objects are of their kind.
LEMMA SeenTyped ==
    ASSUME ClusterTypeOK, NEW k \in Kinds
    PROVE  seen[k] \in Objects(k) /\ api[k] \in Objects(k)
  BY DEF ClusterTypeOK

\* Cached inputs hold input values.
LEMMA SeenInputs ==
    ASSUME ClusterTypeOK
    PROVE  \A i \in Inputs : seen[i] \in InputValues
  BY SeenTyped, ObjectKinds DEF Kinds

\* The start of a pass.
LEMMA ReconcileTyped ==
    ASSUME TypeOK, Reconcile
    PROVE  TypeOK'
<1> DEFINE agent == seen[Agent]
           fresh == [ uid |-> agent.uid, gen |-> agent.gen, spec |-> agent.spec,
                      refs |-> [i \in Inputs |-> Absent], first |-> Absent,
                      mark |-> None, retry |-> FALSE ]
           invalid == [stage |-> "config", hash |-> None, reason |-> "InvalidConfig",
                       message |-> <<>>]
<1>1. ClusterTypeOK'
  <2>1. Fault \/ faults' = faults
    BY Zenon DEF Reconcile
  <2>2. faults' \in Nat
    BY <2>1 DEF TypeOK, ClusterTypeOK, Fault
  <2>3. queued' = queued \/ queued' = FALSE
    BY Zenon DEF Reconcile
  <2>4. queued' \in BOOLEAN
    BY <2>3 DEF TypeOK, ClusterTypeOK
  <2> QED
    BY <2>2, <2>4 DEF TypeOK, ClusterTypeOK, Reconcile
<1>2. agent # Absent => fresh \in Jobs
  <2>1. agent \in AgentObjects \cup {Absent}
    BY SeenTyped, ObjectKinds DEF TypeOK, Kinds
  <2> QED
    BY <2>1, FirstReadKinds DEF Jobs, AgentObjects, InputValues
<1>3. invalid \in Marks
  BY EmptyMessage DEF Marks, ConfigFailures
<1>4. CASE UNCHANGED <<pc, job>>
  BY <1>1, <1>4 DEF TypeOK, WorkerTypeOK, Reconcile
<1>5. CASE agent # Absent /\ job' = Marked(fresh, invalid, FALSE) /\ pc' = "patchStatus"
  <2>1. job' \in Jobs /\ job'.mark \in Marks
    BY <1>2, <1>3, <1>5, MarkedTyped
  <2> QED
    BY <1>1, <1>5, <2>1 DEF TypeOK, WorkerTypeOK, Reconcile, Steps, StatusSteps
<1>6. CASE agent # Absent /\ job' = fresh /\ pc' = "resolveReferencedInputs"
  BY <1>1, <1>2, <1>6 DEF TypeOK, WorkerTypeOK, Reconcile, Steps
<1> QED
  BY <1>4, <1>5, <1>6 DEF Reconcile

\* resolveReferencedInputs.
LEMMA ResolveTyped ==
    ASSUME TypeOK, resolveReferencedInputs
    PROVE  TypeOK'
<1> DEFINE refs    == Snapshot(job.spec, seen)
           missing == missingReferences(job.spec, refs)
           mark    == [stage |-> "config", hash |-> None, reason |-> "MissingReferencedInput",
                       message |-> <<"missing", missing>>]
<1>0. ClusterTypeOK' /\ pc = "resolveReferencedInputs" /\ emitted' \in SUBSET Events
  BY LocalTyped DEF resolveReferencedInputs, TypeOK, WorkerTypeOK
<1>1. job \in Jobs
  BY <1>0, BusyWorker DEF TypeOK, Steps
<1>2. refs \in [Inputs -> InputValues]
  BY <1>1, SnapshotTyped, SeenInputs DEF TypeOK, Jobs
<1>3. CASE job' = [job EXCEPT !.refs = refs] /\ pc' = After(pc)
  <2>1. job' \in Jobs
    BY <1>1, <1>2, <1>3 DEF Jobs
  <2>2. pc' = "config"
    BY <1>0, <1>3 DEF After
  <2> QED
    BY <1>0, <2>1, <2>2 DEF TypeOK, WorkerTypeOK, Steps, ChildSteps, Children, ConfigIds
<1>4. CASE FailWith("config", None, "MissingReferencedInput", <<"missing", missing>>, FALSE)
  <2>1. missing \in SUBSET Inputs
    BY DEF missingReferences
  <2>2. mark \in Marks
    BY <2>1 DEF Marks, Messages, ConfigFailures
  <2>3. pc' = "patchStatus" /\ job' = Marked(job, mark, FALSE)
    BY <1>4 DEF FailWith
  <2>4. job' \in Jobs /\ job'.mark \in Marks
    BY <1>1, <2>2, <2>3, MarkedTyped
  <2> QED
    BY <1>0, <2>3, <2>4 DEF TypeOK, WorkerTypeOK, Steps, StatusSteps
<1> QED
  BY <1>3, <1>4 DEF resolveReferencedInputs

\* A call with nothing to do.
LEMMA SkipTyped ==
    ASSUME TypeOK, pc \in CallSteps, Skip, UNCHANGED emitted
    PROVE  TypeOK'
  BY AdvancedTyped, LocalTyped DEF Skip, TypeOK

\* reconcileInlineConfigMap.
LEMMA InlineConfigMapTyped ==
    ASSUME TypeOK, NEW id \in ConfigIds, reconcileInlineConfigMap(id)
    PROVE  TypeOK'
<1>1. pc \in CallSteps /\ id \in Children
  BY DEF reconcileInlineConfigMap, CallSteps, Steps, ChildSteps, StatusSteps, Children,
         ConfigIds
<1>2. ASSUME id \in Generated(job.spec), CreateOrUpdate(id, job.spec.src[id])
      PROVE  TypeOK'
  <2>1. job.spec.src[id] \in ChildSpec(id)
    BY <1>2 DEF Generated, ChildSpec, ConfigIds
  <2> QED
    BY <1>1, <1>2, <2>1, CreateOrUpdateTyped DEF reconcileInlineConfigMap
<1> QED
  BY <1>1, <1>2, SkipTyped DEF reconcileInlineConfigMap

\* The gate of cleanupStaleGeneratedConfigMaps.
LEMMA CleanupTyped ==
    ASSUME TypeOK, cleanupStaleGeneratedConfigMaps
    PROVE  TypeOK'
<1>1. job \in Jobs /\ job' = job
  BY BusyWorker DEF TypeOK, cleanupStaleGeneratedConfigMaps, Steps, ChildSteps
<1>2. pc' \in {"stale config", "PersistentVolumeClaim"}
  BY DEF cleanupStaleGeneratedConfigMaps, After
<1> QED
  BY <1>1, <1>2, LocalTyped
  DEF TypeOK, WorkerTypeOK, cleanupStaleGeneratedConfigMaps, Steps, ChildSteps, Children

\* The deletions of cleanupStaleGeneratedConfigMaps.
LEMMA StaleTyped ==
    ASSUME TypeOK, NEW id \in ConfigIds, deleteStaleConfigMap(id)
    PROVE  TypeOK'
<1>1. pc \in CallSteps /\ id \in Children
  BY DEF deleteStaleConfigMap, Stale, CallSteps, Steps, ChildSteps, StatusSteps, Children
<1> QED
  BY <1>1, DeleteTyped, SkipTyped DEF deleteStaleConfigMap

\* reconcilePersistentVolumeClaim up to its second read.
LEMMA ClaimReadTyped ==
    ASSUME TypeOK, reconcilePersistentVolumeClaim
    PROVE  TypeOK'
<1>1. pc = "PersistentVolumeClaim" /\ pc \in CallSteps
  BY DEF reconcilePersistentVolumeClaim, CallSteps, Steps, ChildSteps, StatusSteps, Children
<1>2. CASE Skip
  BY <1>1, <1>2, SkipTyped DEF reconcilePersistentVolumeClaim
<1>3. CASE Fail("NotAQuantity") /\ Local
  BY <1>1, <1>3, FailedTyped, LocalTyped DEF TypeOK, Errors, reconcilePersistentVolumeClaim
<1>4. CASE /\ job' = [job EXCEPT !.first = seen["PersistentVolumeClaim"]]
           /\ pc' = WriteStep(pc)
           /\ Local
  <2>1. job \in Jobs
    BY <1>1, BusyWorker DEF TypeOK, CallSteps
  <2>2. seen["PersistentVolumeClaim"] \in Objects("PersistentVolumeClaim")
    BY SeenTyped DEF TypeOK, Kinds, Children
  <2>3. job' \in Jobs /\ job'.first \in Objects("PersistentVolumeClaim")
    BY <1>4, <2>1, <2>2, FirstReadKinds DEF Jobs
  <2>4. pc' = "write PersistentVolumeClaim"
    BY <1>1, <1>4 DEF WriteStep
  <2> QED
    BY <1>4, <2>3, <2>4, LocalTyped
    DEF TypeOK, WorkerTypeOK, reconcilePersistentVolumeClaim, Steps, ChildSteps
<1> QED
  BY <1>2, <1>3, <1>4 DEF reconcilePersistentVolumeClaim

\* reconcilePersistentVolumeClaim from its second read on.
LEMMA ClaimWriteTyped ==
    ASSUME TypeOK, writePersistentVolumeClaim
    PROVE  TypeOK'
<1> DEFINE k       == "PersistentVolumeClaim"
           held    == Held(k)
           drift   == persistentVolumeClaimImmutableFieldDrift(job.spec, held.spec)
           desired == buildPersistentVolumeClaim(job.spec)
           mark    == [stage |-> "persistence", hash |-> hash,
                       reason |-> "PersistentVolumeClaimSpecDrift",
                       message |-> <<"fields", drift>>]
<1>1. /\ pc = "write PersistentVolumeClaim" /\ pc \in CallSteps
      /\ k \in Children /\ k \in Kinds /\ UNCHANGED emitted
  BY DEF writePersistentVolumeClaim, CallSteps, Steps, ChildSteps, StatusSteps, Children,
         Kinds
<1>2. job \in Jobs /\ job.spec \in AgentSpec /\ job.first \in ChildObjects(k) \cup {Absent}
  BY <1>1, BusyWorker, ObjectKinds DEF TypeOK, WorkerTypeOK, CallSteps, Jobs
<1>3. seen[k] \in ChildObjects(k) \cup {Absent}
  BY <1>1, SeenTyped, ObjectKinds DEF TypeOK
<1>4. desired \in ChildSpec(k)
  BY <1>2, ClaimTyped
<1>5. CASE CreateOrUpdate(k, desired)
  BY <1>1, <1>4, <1>5, CreateOrUpdateTyped
<1>6. CASE FailWith("persistence", hash, "PersistentVolumeClaimSpecDrift",
                    <<"fields", drift>>, TRUE) /\ Local
  <2>1. drift \in SUBSET ImmutableFields
    BY DEF persistentVolumeClaimImmutableFieldDrift
  <2> HIDE DEF drift
  <2>2. mark \in Marks
    BY <1>2, <2>1, JobHashTyped DEF Marks
  <2>3. pc' = "patchStatus" /\ job' = Marked(job, mark, TRUE)
    BY <1>6 DEF FailWith
  <2>4. job' \in Jobs /\ job'.mark \in Marks
    BY <1>2, <2>2, <2>3, MarkedTyped
  <2> QED
    BY <1>1, <1>6, <2>3, <2>4, LocalTyped DEF TypeOK, WorkerTypeOK, Steps, StatusSteps
<1>7. CASE job.first # Absent /\ CreateOrUpdate(k, [held.spec EXCEPT !.size = desired.size])
  <2>1. held \in ChildObjects(k)
    BY <1>2, <1>3, <1>7 DEF Held
  <2>2. held.spec \in ChildSpec(k)
    BY <2>1 DEF ChildObjects
  <2>3. [held.spec EXCEPT !.size = desired.size] \in ChildSpec(k)
    BY <1>4, <2>2 DEF ChildSpec, ConfigIds
  <2> QED
    BY <1>1, <1>7, <2>3, CreateOrUpdateTyped
<1> QED
  BY <1>5, <1>6, <1>7 DEF writePersistentVolumeClaim

\* reconcileStatefulSet.
LEMMA WorkloadTyped ==
    ASSUME TypeOK, reconcileStatefulSet
    PROVE  TypeOK'
<1>1. pc \in CallSteps /\ "StatefulSet" \in Children /\ UNCHANGED emitted
  BY DEF reconcileStatefulSet, CallSteps, Steps, ChildSteps, StatusSteps, Children
<1>2. job \in Jobs /\ job.spec \in AgentSpec
  BY <1>1, BusyWorker DEF TypeOK, CallSteps, Jobs
<1>3. buildStatefulSet(job.spec, hash) \in ChildSpec("StatefulSet")
  BY <1>2, JobHashTyped, StatefulSetTyped
<1> QED
  BY <1>1, <1>3, CreateOrUpdateTyped DEF reconcileStatefulSet

\* The ownership check of the optional children.
LEMMA OptionalCheckTyped ==
    ASSUME TypeOK, NEW k \in OptKinds, checkOptional(k)
    PROVE  TypeOK'
<1>1. pc = k /\ pc \in CallSteps /\ k \in Children /\ k \in Kinds /\ UNCHANGED emitted
  BY DEF checkOptional, CallSteps, Steps, ChildSteps, StatusSteps, Children, OptKinds, Kinds
<1>2. CASE Skip
  BY <1>1, <1>2, SkipTyped
<1>3. CASE Delete(k, FALSE)
  BY <1>1, <1>3, DeleteTyped
<1>4. CASE Fail("NotOwned") /\ Local
  BY <1>1, <1>4, FailedTyped, LocalTyped DEF TypeOK, Errors
<1>5. CASE /\ Enabled(k, job.spec)
           /\ job' = [job EXCEPT !.first = seen[k]]
           /\ pc' = WriteStep(k)
           /\ Local
  <2>1. job \in Jobs
    BY <1>1, BusyWorker DEF TypeOK, CallSteps
  <2>2. seen[k] \in FirstReads
    BY <1>1, SeenTyped, FirstReadKinds DEF TypeOK
  <2>3. job' \in Jobs /\ job'.spec = job.spec
    BY <1>5, <2>1, <2>2 DEF Jobs
  <2>4. pc' \in {"write Service", "write NetworkPolicy", "write PodDisruptionBudget"}
    BY <1>5 DEF WriteStep, OptKinds
  <2>5. pc' = "write Service" => job'.spec.service # None
    BY <1>5, <2>3 DEF WriteStep, OptKinds, Enabled
  <2> QED
    BY <1>1, <1>5, <2>3, <2>4, <2>5, LocalTyped
    DEF TypeOK, WorkerTypeOK, Steps, ChildSteps
<1> QED
  BY <1>2, <1>3, <1>4, <1>5 DEF checkOptional

\* The write of the optional children.
LEMMA OptionalWriteTyped ==
    ASSUME TypeOK, NEW k \in OptKinds, writeOptional(k)
    PROVE  TypeOK'
<1> DEFINE spec == IF k = "Service" THEN serviceSpec ELSE Desired(k, job.spec, job.refs)
<1>1. pc = WriteStep(k) /\ pc \in CallSteps /\ k \in Children /\ UNCHANGED emitted
  BY DEF writeOptional, WriteStep, CallSteps, Steps, ChildSteps, StatusSteps, Children,
         OptKinds
<1>2. job \in Jobs /\ job.spec \in AgentSpec
  BY <1>1, BusyWorker DEF TypeOK, CallSteps, Jobs
<1>3. spec \in ChildSpec(k)
  <2>1. CASE k = "Service"
    <3>1. job.spec.service # None
      BY <1>1, <2>1 DEF TypeOK, WorkerTypeOK, WriteStep
    <3>2. buildService(job.spec) \in ChildSpec("Service")
      BY <1>2, <3>1, ServiceTyped
    <3>3. seen["Service"] \in ChildObjects("Service") \cup {Absent}
      BY <1>1, <2>1, SeenTyped, ObjectKinds DEF TypeOK, Kinds
    <3>4. serviceSpec \in ChildSpec("Service")
      BY <3>2, <3>3 DEF serviceSpec, ChildObjects, ChildSpec, ConfigIds
    <3> QED
      BY <2>1, <3>4
  <2>2. CASE k = "NetworkPolicy"
    BY <2>2 DEF Desired, ChildSpec, ConfigIds, buildNetworkPolicy
  <2>3. CASE k = "PodDisruptionBudget"
    BY <2>3 DEF Desired, ChildSpec, ConfigIds, buildPodDisruptionBudget
  <2> QED
    BY <2>1, <2>2, <2>3 DEF OptKinds
<1> HIDE DEF spec
<1>4. CreateOrUpdate(k, spec)
  BY DEF writeOptional, spec
<1> QED
  BY <1>1, <1>3, <1>4, CreateOrUpdateTyped

\* readStatusView, the claim.
LEMMA ReadClaimTyped ==
    ASSUME TypeOK, readClaim
    PROVE  TypeOK'
<1>1. pc = "readStatusView" /\ job \in Jobs
  BY BusyWorker DEF TypeOK, readClaim, Steps, StatusSteps
<1>2. seen["PersistentVolumeClaim"] \in Objects("PersistentVolumeClaim")
  BY SeenTyped DEF TypeOK, Kinds, Children
<1>3. job' \in Jobs /\ job'.first \in Objects("PersistentVolumeClaim")
  BY <1>1, <1>2, FirstReadKinds DEF readClaim, Jobs
<1>4. pc' = "readStatusView StatefulSet"
  BY <1>1 DEF readClaim, After, ConfigIds
<1> QED
  BY <1>3, <1>4, LocalTyped DEF TypeOK, WorkerTypeOK, readClaim, Steps, StatusSteps

\* readStatusView, the StatefulSet.
LEMMA ReadStatefulSetTyped ==
    ASSUME TypeOK, readStatefulSet
    PROVE  TypeOK'
<1> DEFINE view == readStatusView(job.spec, job.first, seen["StatefulSet"])
           mark == [stage |-> "view", hash |-> hash, view |-> view]
<1>1. /\ pc = "readStatusView StatefulSet" /\ job \in Jobs /\ job.spec \in AgentSpec
      /\ job.first \in Objects("PersistentVolumeClaim")
  BY BusyWorker DEF TypeOK, WorkerTypeOK, readStatefulSet, Steps, StatusSteps, Jobs
<1>2. seen["StatefulSet"] \in Objects("StatefulSet")
  BY SeenTyped DEF TypeOK, Kinds, Children
<1>3. view \in Views
  BY <1>1, <1>2, StatusViewTyped
<1> HIDE DEF view
<1>4. mark \in Marks
  BY <1>1, <1>3, JobHashTyped DEF Marks
<1>5. job' = Marked(job, mark, FALSE) /\ pc' = "patchStatus"
  BY <1>1 DEF readStatefulSet, After, ConfigIds, view
<1>6. job' \in Jobs /\ job'.mark \in Marks
  BY <1>1, <1>4, <1>5, MarkedTyped
<1> QED
  BY <1>5, <1>6, LocalTyped DEF TypeOK, WorkerTypeOK, readStatefulSet, Steps, StatusSteps

\* The end of a pass.
LEMMA FinishTyped ==
    ASSUME TypeOK, NEW retry \in BOOLEAN, Finish(retry), emitted' \in SUBSET Events
    PROVE  WorkerTypeOK' /\ queued' \in BOOLEAN
<1>1. WorkerTypeOK'
  BY DEF Finish, WorkerTypeOK
<1>2. queued' \in BOOLEAN
  BY DEF Finish, TypeOK, ClusterTypeOK
<1> QED
  BY <1>1, <1>2

\* readStatusView whose read fails.
LEMMA FailedStatusViewTyped ==
    ASSUME TypeOK, failedStatusView
    PROVE  TypeOK'
<1>1. emitted' \in SUBSET Events
  BY DEF TypeOK, WorkerTypeOK, failedStatusView
<1>2. WorkerTypeOK' /\ queued' \in BOOLEAN
  BY <1>1, FinishTyped DEF failedStatusView
<1>3. faults' \in Nat
  <2>1. Fault
    BY Zenon DEF failedStatusView
  <2> QED
    BY <2>1 DEF TypeOK, ClusterTypeOK, Fault
<1>4. ClusterTypeOK'
  BY <1>2, <1>3 DEF TypeOK, ClusterTypeOK, failedStatusView
<1> QED
  BY <1>2, <1>4 DEF TypeOK

\* patchStatus, with its four outcomes.
LEMMA PatchTyped ==
    ASSUME TypeOK, patchStatus
    PROVE  TypeOK'
<1> DEFINE latest == seen[Agent]
           base   == latest.status
           after  == mutate(stamped(latest))
           stored == [api[Agent] EXCEPT !.status = mergePatch(base, after, @)]
<1>1. job \in Jobs /\ job.mark \in Marks /\ job.retry \in BOOLEAN
  BY BusyWorker DEF TypeOK, WorkerTypeOK, patchStatus, Steps, StatusSteps, Jobs
<1>2. ClusterTypeOK /\ Agent \in Kinds /\ emitted \in SUBSET Events
  BY DEF TypeOK, WorkerTypeOK, Kinds
<1>3. latest \in AgentObjects \cup {Absent} /\ api[Agent] \in AgentObjects \cup {Absent}
  BY <1>2, SeenTyped, ObjectKinds
<1>4. ASSUME latest # Absent
      PROVE  base \in AgentStatus /\ after \in AgentStatus
  <2>1. base \in AgentStatus /\ latest.gen \in Nat
    BY <1>3, <1>4 DEF AgentObjects
  <2>2. stamped(latest) \in AgentStatus
    BY <2>1 DEF stamped, AgentStatus
  <2> QED
    BY <1>1, <2>1, <2>2, MutateTyped
<1>5. ASSUME latest # Absent, api[Agent] # Absent
      PROVE  stored \in Objects(Agent)
  <2>1. api[Agent].status \in AgentStatus
    BY <1>3, <1>5 DEF AgentObjects
  <2>2. mergePatch(base, after, api[Agent].status) \in AgentStatus
    BY <1>4, <1>5, <2>1, MergeTyped
  <2> HIDE DEF base, after
  <2>3. stored \in AgentObjects
    BY <1>3, <1>5, <2>2 DEF AgentObjects
  <2> QED
    BY <2>3, ObjectKinds
<1> HIDE DEF after, stored
<1>6. CASE Finish(job.retry) /\ UNCHANGED <<api, seen, faults, emitted>>
  <2>1. WorkerTypeOK' /\ queued' \in BOOLEAN
    BY <1>1, <1>2, <1>6, FinishTyped
  <2> QED
    BY <1>2, <1>6, <2>1 DEF TypeOK, ClusterTypeOK, patchStatus
<1>7. CASE Finish(TRUE) /\ UNCHANGED <<api, seen, faults, emitted>>
  <2>1. WorkerTypeOK' /\ queued' \in BOOLEAN
    BY <1>2, <1>7, FinishTyped
  <2> QED
    BY <1>2, <1>7, <2>1 DEF TypeOK, ClusterTypeOK, patchStatus
<1>8. CASE /\ latest # Absent /\ api[Agent] # Absent
           /\ api' = [api EXCEPT ![Agent] = stored] /\ seen' = SeenAfter(Agent, stored)
           /\ emitted' = statusEventsForTransition(base, after)
           /\ Finish(job.retry) /\ UNCHANGED faults
  <2>1. emitted' \in SUBSET Events
    BY <1>4, <1>8, EventsTyped
  <2>2. WorkerTypeOK' /\ queued' \in BOOLEAN
    BY <1>1, <1>8, <2>1, FinishTyped
  <2> QED
    BY <1>2, <1>5, <1>8, <2>2 DEF TypeOK, ClusterTypeOK, SeenAfter, patchStatus
<1>9. CASE /\ Fault
           /\ \/ /\ latest # Absent /\ api[Agent] # Absent
                 /\ api' = [api EXCEPT ![Agent] = stored] /\ seen' = SeenAfter(Agent, stored)
              \/ UNCHANGED <<api, seen>>
           /\ Finish(TRUE) /\ UNCHANGED emitted
  <2>1. WorkerTypeOK' /\ queued' \in BOOLEAN
    BY <1>2, <1>9, FinishTyped
  <2> QED
    BY <1>2, <1>5, <1>9, <2>1 DEF TypeOK, ClusterTypeOK, SeenAfter, patchStatus, Fault
<1> QED
  BY <1>6, <1>7, <1>8, <1>9 DEF patchStatus, after, stored

\* A call that fails before it has any effect.
LEMMA FailedCallTyped ==
    ASSUME TypeOK, FailedCall
    PROVE  TypeOK'
<1>1. WorkerTypeOK'
  BY FailedTyped DEF FailedCall, CallSteps, Errors
<1> QED
  BY <1>1 DEF FailedCall, TypeOK, ClusterTypeOK, Fault

\* Every step of the worker keeps the types.
LEMMA WorkerTyped ==
    ASSUME TypeOK, Worker
    PROVE  TypeOK'
  BY ReconcileTyped, ResolveTyped, InlineConfigMapTyped, CleanupTyped, StaleTyped,
     ClaimReadTyped, ClaimWriteTyped, WorkloadTyped, OptionalCheckTyped,
     OptionalWriteTyped, ReadClaimTyped, ReadStatefulSetTyped, FailedStatusViewTyped,
     PatchTyped, FailedCallTyped
  DEF Worker

\* A restart empties the worker and refills the caches.
LEMMA RestartTyped ==
    ASSUME TypeOK, Restart
    PROVE  TypeOK'
<1>1. queued' \in BOOLEAN
  BY DEF Restart
<1>2. churn' \in Nat
  BY DEF Restart, Disturb, TypeOK, ClusterTypeOK
<1>3. WorkerTypeOK'
  BY DEF Restart, TypeOK, WorkerTypeOK
<1> QED
  BY <1>1, <1>2, <1>3 DEF Restart, TypeOK, ClusterTypeOK

\* What the environment stores is an object of the kind it stores it under.
LEMMA StoredTyped ==
    ASSUME TypeOK, NEW k \in Kinds, NEW o \in Objects(k), Store(k, o),
           uids' \in Nat, churn' \in Nat, faults' \in Nat, UNCHANGED <<pc, job, emitted>>
    PROVE  TypeOK'
<1>1. WorkerTypeOK'
  BY DEF TypeOK, WorkerTypeOK
<1>2. ClusterTypeOK'
  BY StoreTyped DEF TypeOK, ClusterTypeOK
<1> QED
  BY <1>1, <1>2 DEF TypeOK

\* The status of a new agent.
LEMMA EmptyStatusTyped == EmptyStatus \in AgentStatus
  BY DEF EmptyStatus, AgentStatus, ConditionTypes, Conditions, Phases, ImmutableFields, Hashes

\* What users do keeps the types.
LEMMA UsersTyped ==
    ASSUME TypeOK, Users, UNCHANGED <<pc, job, emitted>>
    PROVE  TypeOK'
<1>1. /\ uids \in Nat /\ churn \in Nat /\ faults \in Nat
      /\ Agent \in Kinds /\ "StatefulSet" \in Kinds /\ Children \subseteq Kinds
      /\ Inputs \subseteq Kinds
  BY DEF TypeOK, ClusterTypeOK, Kinds, Children
<1>2. Absent \in Objects(Agent) /\ \A k \in Children : Absent \in Objects(k)
  BY ObjectKinds
<1>3. Specs \subseteq AgentSpec
  BY ClusterAssumption
<1>4. api[Agent] \in AgentObjects \cup {Absent}
  BY <1>1, SeenTyped, ObjectKinds DEF TypeOK
<1>5. CASE CreateAgent
  <2>1. PICK s \in Specs :
          Store(Agent, [uid |-> uids + 1, gen |-> 1, spec |-> s, status |-> EmptyStatus])
    BY <1>5 DEF CreateAgent
  <2>2. [uid |-> uids + 1, gen |-> 1, spec |-> s, status |-> EmptyStatus] \in Objects(Agent)
    BY <1>1, <1>3, ObjectKinds, EmptyStatusTyped DEF AgentObjects
  <2> QED
    BY <1>1, <1>5, <2>1, <2>2, StoredTyped DEF CreateAgent
<1>6. CASE UpdateAgent
  <2>1. PICK s \in Specs : Store(Agent, [api[Agent] EXCEPT !.spec = s, !.gen = @ + 1])
    BY <1>6 DEF UpdateAgent
  <2>2. [api[Agent] EXCEPT !.spec = s, !.gen = @ + 1] \in AgentObjects
    <3>1. api[Agent] \in AgentObjects /\ s \in AgentSpec
      BY <1>3, <1>4, <1>6 DEF UpdateAgent
    <3>2. api[Agent].gen + 1 \in Nat \ {0}
      BY <3>1 DEF AgentObjects
    <3> QED
      BY <3>1, <3>2 DEF AgentObjects
  <2>3. [api[Agent] EXCEPT !.spec = s, !.gen = @ + 1] \in Objects(Agent)
    BY <2>2, ObjectKinds
  <2> QED
    BY <1>1, <1>6, <2>1, <2>3, StoredTyped DEF UpdateAgent, Disturb
<1>7. CASE DeleteAgent
  BY <1>1, <1>2, <1>7, StoredTyped DEF DeleteAgent, Disturb
<1>8. CASE ChangeInput
  <2>1. PICK i \in Inputs, v \in InputValues : Store(i, v)
    BY <1>8 DEF ChangeInput
  <2>2. v \in Objects(i)
    BY ObjectKinds
  <2> QED
    BY <1>1, <1>8, <2>1, <2>2, StoredTyped DEF ChangeInput, Disturb
<1>9. CASE DeleteChild
  BY <1>1, <1>2, <1>9, StoredTyped DEF DeleteChild, Disturb
<1>10. CASE ScaleStatefulSet
  <2> DEFINE sts == api["StatefulSet"]
  <2>1. sts \in ChildObjects("StatefulSet")
    BY <1>1, <1>10, SeenTyped, ObjectKinds DEF TypeOK, ScaleStatefulSet, Children
  <2>2. PICK n \in {0, sts.spec.replicas + 1} :
          Store("StatefulSet", [sts EXCEPT !.spec.replicas = n, !.status.observed = FALSE])
    BY <1>10 DEF ScaleStatefulSet
  <2>3. [sts EXCEPT !.spec.replicas = n, !.status.observed = FALSE]
            \in ChildObjects("StatefulSet")
    <3>1. n \in Nat
      BY <2>1 DEF ChildObjects, ChildSpec, ConfigIds
    <3>2. [sts.spec EXCEPT !.replicas = n] \in ChildSpec("StatefulSet")
      BY <2>1, <3>1 DEF ChildObjects, ChildSpec, ConfigIds
    <3>3. [sts.status EXCEPT !.observed = FALSE] \in ChildStatus("StatefulSet")
      BY <2>1 DEF ChildObjects, ChildStatus
    <3>4. [sts EXCEPT !.spec.replicas = n, !.status.observed = FALSE] =
            [sts EXCEPT !.spec = [sts.spec EXCEPT !.replicas = n],
                        !.status = [sts.status EXCEPT !.observed = FALSE]]
      BY <2>1 DEF ChildObjects
    <3> QED
      BY <2>1, <3>2, <3>3, <3>4 DEF ChildObjects
  <2>4. [sts EXCEPT !.spec.replicas = n, !.status.observed = FALSE] \in Objects("StatefulSet")
    BY <2>3, ObjectKinds DEF Children
  <2> HIDE DEF sts
  <2> QED
    BY <1>1, <1>10, <2>2, <2>4, StoredTyped DEF ScaleStatefulSet, Disturb
<1>11. CASE CreateForeign
  <2>1. PICK k \in ForeignKinds, w \in {NoOwner, OtherOwner}, s \in Specs, p \in NodePorts :
          /\ k \in ConfigIds => k \in Generated(s)
          /\ k \in OptKinds => Enabled(k, s)
          /\ Store(k, Admitted(k, Absent,
                   [owner |-> w, spec |-> Desired(k, s, api), status |-> InitialStatus(k)], p))
    BY <1>11 DEF CreateForeign
  <2>2. k \in Children \ {"StatefulSet"} /\ s \in AgentSpec /\ p \in Nat
    BY <1>3, ClusterAssumption, ResourcesAssumption
  <2>3. Desired(k, s, api) \in ChildSpec(k)
    <3>1. CASE k \in ConfigIds
      BY <2>1, <3>1 DEF Desired, ChildSpec, Generated, ConfigIds
    <3>2. CASE k = "PersistentVolumeClaim"
      BY <2>2, <3>2, ClaimTyped DEF Desired, ConfigIds
    <3>3. CASE k = "Service"
      <4>1. s.service # None
        BY <2>1, <3>3 DEF Enabled, OptKinds
      <4> QED
        BY <2>2, <3>3, <4>1, ServiceTyped DEF Desired, ConfigIds
    <3>4. CASE k = "NetworkPolicy"
      BY <3>4 DEF Desired, ChildSpec, ConfigIds, buildNetworkPolicy
    <3>5. CASE k = "PodDisruptionBudget"
      BY <3>5 DEF Desired, ChildSpec, ConfigIds, buildPodDisruptionBudget
    <3> QED
      BY <2>2, <3>1, <3>2, <3>3, <3>4, <3>5 DEF Children, OptKinds
  <2>4. [owner |-> w, spec |-> Desired(k, s, api), status |-> InitialStatus(k)]
            \in ChildObjects(k)
    BY <2>2, <2>3, InitialStatusTyped DEF ChildObjects, Owners
  <2>5. Admitted(k, Absent, [owner |-> w, spec |-> Desired(k, s, api),
                             status |-> InitialStatus(k)], p) \in Objects(k)
    BY <2>2, <2>4, AdmittedTyped, ObjectKinds
  <2> QED
    BY <1>1, <1>11, <2>1, <2>2, <2>5, StoredTyped DEF CreateForeign, Disturb
<1> QED
  BY <1>5, <1>6, <1>7, <1>8, <1>9, <1>10, <1>11 DEF Users

\* What the control plane does keeps the types.
LEMMA ControlPlaneTyped ==
    ASSUME TypeOK, ControlPlane, UNCHANGED <<pc, job, emitted>>
    PROVE  TypeOK'
<1> DEFINE sts == api["StatefulSet"]
           pvc == api["PersistentVolumeClaim"]
<1>1. /\ uids \in Nat /\ churn \in Nat /\ faults \in Nat /\ Children \subseteq Kinds
      /\ "StatefulSet" \in Children /\ "PersistentVolumeClaim" \in Children
  BY DEF TypeOK, ClusterTypeOK, Kinds, Children
<1>2. /\ sts # Absent => sts \in ChildObjects("StatefulSet")
      /\ pvc # Absent => pvc \in ChildObjects("PersistentVolumeClaim")
  BY <1>1, SeenTyped, ObjectKinds DEF TypeOK
<1>3. /\ ChildObjects("StatefulSet") \subseteq Objects("StatefulSet")
      /\ ChildObjects("PersistentVolumeClaim") \subseteq Objects("PersistentVolumeClaim")
      /\ \A k \in Children : Absent \in Objects(k)
  BY <1>1, ObjectKinds
<1>4. ASSUME sts # Absent, NEW n \in Nat
      PROVE  /\ [sts EXCEPT !.status.ready = n] \in Objects("StatefulSet")
             /\ [sts EXCEPT !.status.observed = TRUE] \in Objects("StatefulSet")
  <2>1. /\ [sts EXCEPT !.status.ready = n] \in ChildObjects("StatefulSet")
        /\ [sts EXCEPT !.status.observed = TRUE] \in ChildObjects("StatefulSet")
    BY <1>2, <1>4 DEF ChildObjects, ChildStatus
  <2> QED
    BY <1>3, <2>1
<1>5. ASSUME pvc # Absent, NEW phase \in {"Bound", "Lost"}
      PROVE  [pvc EXCEPT !.status = phase] \in Objects("PersistentVolumeClaim")
  <2>1. [pvc EXCEPT !.status = phase] \in ChildObjects("PersistentVolumeClaim")
    BY <1>2, <1>5 DEF ChildObjects, ChildStatus
  <2> QED
    BY <1>3, <2>1
<1>6. CASE ObserveStatefulSet
  BY <1>1, <1>4, <1>6, StoredTyped DEF ObserveStatefulSet
<1>7. CASE AdjustPods
  <2> DEFINE n == IF sts.status.ready < sts.spec.replicas THEN sts.status.ready + 1
                                                        ELSE sts.status.ready - 1
  <2>1. sts # Absent /\ sts.status.ready # sts.spec.replicas
    BY <1>7 DEF AdjustPods
  <2>2. n \in Nat
    BY <1>2, <2>1 DEF ChildObjects, ChildSpec, ChildStatus, ConfigIds
  <2>3. Store("StatefulSet", [sts EXCEPT !.status.ready = n])
    BY <1>7 DEF AdjustPods
  <2> HIDE DEF n, sts
  <2> QED
    BY <1>1, <1>4, <1>7, <2>1, <2>2, <2>3, StoredTyped DEF AdjustPods
<1>8. CASE LosePod
  <2>1. sts # Absent /\ sts.status.ready - 1 \in Nat
    BY <1>2, <1>8 DEF LosePod, ChildObjects, ChildStatus
  <2>2. Store("StatefulSet", [sts EXCEPT !.status.ready = sts.status.ready - 1])
    BY <1>8 DEF LosePod
  <2> HIDE DEF sts
  <2> QED
    BY <1>1, <1>4, <1>8, <2>1, <2>2, StoredTyped DEF LosePod, Disturb
<1>9. CASE BindClaim
  BY <1>1, <1>5, <1>9, StoredTyped DEF BindClaim
<1>10. CASE LoseClaim
  BY <1>1, <1>5, <1>10, StoredTyped DEF LoseClaim, Disturb
<1>11. CASE CollectGarbage
  BY <1>1, <1>3, <1>11, StoredTyped DEF CollectGarbage
<1> QED
  BY <1>6, <1>7, <1>8, <1>9, <1>10, <1>11 DEF ControlPlane

\* Informers keep the types.
LEMMA DeliveryTyped ==
    ASSUME TypeOK, Delivery, UNCHANGED <<pc, job, emitted>>
    PROVE  TypeOK'
<1>1. PICK k \in Kinds : Deliver(k)
  BY DEF Delivery
<1>2. queued' \in BOOLEAN
  BY <1>1 DEF Deliver
<1>3. ClusterTypeOK'
  BY <1>1, <1>2 DEF Deliver, TypeOK, ClusterTypeOK
<1> QED
  BY <1>3 DEF TypeOK, WorkerTypeOK

\* The initial states are typed.
LEMMA InitTyped == Init => TypeOK
<1> SUFFICES ASSUME Init PROVE TypeOK
  OBVIOUS
<1>1. PICK values \in [Inputs -> InputValues] :
        api = [k \in Kinds |-> IF k \in Inputs THEN values[k] ELSE Absent]
  BY DEF Init, ClusterInit
<1>2. ASSUME NEW k \in Kinds
      PROVE  api[k] \in Objects(k)
  BY <1>1, ObjectKinds DEF Kinds
<1> QED
  BY <1>1, <1>2 DEF Init, ClusterInit, TypeOK, ClusterTypeOK, WorkerTypeOK

\* TypeOK is inductive.
LEMMA StepTyped == TypeOK /\ [Next]_vars => TypeOK'
<1> SUFFICES ASSUME TypeOK, [Next]_vars PROVE TypeOK'
  OBVIOUS
<1>1. CASE UNCHANGED vars
  BY <1>1 DEF vars, TypeOK, ClusterTypeOK, WorkerTypeOK
<1> QED
  BY <1>1, WorkerTyped, RestartTyped, UsersTyped, ControlPlaneTyped, DeliveryTyped
  DEF Next, Environment

\* For every instance: Reconcile never starts a call without what the call takes from
\* its job, and no write of the operator, the users or the control plane leaves the
\* API server or a cache with an object that is not of its kind.
THEOREM TypeCorrect == Spec => []TypeOK
  BY InitTyped, StepTyped, PTL DEF Spec
=============================================================================
