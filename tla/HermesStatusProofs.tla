------------------------- MODULE HermesStatusProofs -------------------------
(***************************************************************************)
(* The status, for every instance: it stays coherent however failures of   *)
(* stages overwrite each other, and readiness never changes silently, both *)
(* with a current cache of the agent; observedGeneration only advances,    *)
(* whatever caches lag.                                                    *)
(***************************************************************************)
EXTENDS HermesSafetyProofs

-----------------------------------------------------------------------------
(* Views and statuses.                                                     *)

\* What the view of a pass that went through says fits together.
ViewSound(v) ==
    /\ v.phase = "Ready" <=> v.ready.status = "True"
    /\ v.workload.status = "True" <=> v.ready.status = "True"
    /\ v.ready.status = "True" => v.persistence.status = "True"
    /\ v.persistenceBound => v.persistence.status = "True"
    /\ v.persistence.reason # "Unknown" /\ v.workload.reason # "Unknown"

\* StatusCoherent of one status, with the converse for the workload: nothing else turns
\* WorkloadReady on.
StatusSound(st) ==
    /\ st.phase = "Ready" <=> IsTrue(st, "Ready")
    /\ IsTrue(st, "Ready") => \A t \in ConditionTypes : IsTrue(st, t)
    /\ IsTrue(st, "WorkloadReady") => IsTrue(st, "Ready")
    /\ st.persistenceBound => IsTrue(st, "PersistenceReady")
    /\ st.driftedFields # {} =>
          st.conditions["PersistenceReady"].reason = "PersistentVolumeClaimSpecDrift"

\* The view of a claim that is not bound.
LEMMA StorageViewSound ==
    ASSUME NEW reason, NEW phase, reason # "Unknown", phase # "Ready"
    PROVE  ViewSound(StorageView(reason, phase))
  BY DEF ViewSound, StorageView, Verdict

\* The view of a StatefulSet, there or not.
LEMMA WorkloadViewSound ==
    ASSUME NEW s, NEW sts
    PROVE  ViewSound(WorkloadView(s, sts))
<1> DEFINE reason ==
            CASE sts = Absent                -> "StatefulSetMissing"
              [] sts # Absent /\ statefulSetReady(sts) -> "StatefulSetReady"
              [] sts # Absent /\ ~statefulSetReady(sts) /\ ~sts.status.observed
                                             -> "StatefulSetRolloutPending"
              [] OTHER                       -> "StatefulSetWaitingForReadyReplicas"
           ready   == reason = "StatefulSetReady"
           message == IF reason \in {"StatefulSetReady", "StatefulSetWaitingForReadyReplicas"}
                      THEN <<"replicas", sts.status.ready, sts.spec.replicas>>
                      ELSE <<>>
           bound   == IF s.persistence THEN "PersistentVolumeClaimBound"
                                       ELSE "PersistenceDisabled"
<1>1. reason # "Unknown" /\ bound # "Unknown"
  OBVIOUS
<1>2. WorkloadView(s, sts) =
        [ readyReplicas    |-> IF sts = Absent THEN 0 ELSE sts.status.ready,
          persistenceBound |-> s.persistence,
          persistence      |-> Verdict("True", bound, <<>>),
          workload         |-> Verdict(IF ready THEN "True" ELSE "False", reason, message),
          ready            |-> IF ready THEN Verdict("True", "Ready", <<>>)
                                        ELSE Verdict("False", reason, message),
          phase            |-> IF ready THEN "Ready" ELSE "WorkloadPending" ]
  BY DEF WorkloadView
<1> HIDE DEF reason, ready, message, bound
<1> QED
  BY <1>1, <1>2 DEF ViewSound, Verdict

\* The view of any pass.
LEMMA StatusViewSound ==
    ASSUME NEW s, NEW pvc, NEW sts
    PROVE  ViewSound(readStatusView(s, pvc, sts))
<1>1. CASE s.persistence /\ pvc = Absent
  BY <1>1, StorageViewSound DEF readStatusView
<1>2. CASE s.persistence /\ pvc # Absent /\ pvc.status # "Bound"
  <2>1. persistenceReason(pvc.status) # "Unknown" /\ persistencePhase(pvc.status) # "Ready"
    BY DEF persistenceReason, persistencePhase
  <2>2. readStatusView(s, pvc, sts) =
            StorageView(persistenceReason(pvc.status), persistencePhase(pvc.status))
    BY <1>2 DEF readStatusView
  <2> QED
    BY <2>1, <2>2, StorageViewSound
<1>3. CASE ~s.persistence \/ (pvc # Absent /\ pvc.status = "Bound")
  <2>1. readStatusView(s, pvc, sts) = WorkloadView(s, sts)
    BY <1>3 DEF readStatusView
  <2> QED
    BY <2>1, WorkloadViewSound
<1> QED
  BY <1>1, <1>2, <1>3

\* A condition that is set carries its verdict.
LEMMA SetConditionIs ==
    ASSUME NEW st \in AgentStatus, NEW v \in Verdicts
    PROVE  /\ setCondition(st, v) # None
           /\ setCondition(st, v).status = v.status
           /\ setCondition(st, v).reason = v.reason
           /\ setCondition(st, v).message = v.message
<1>1. setCondition(st, v) # None
  BY ConditionTyped, StatusAssumption
<1> QED
  BY <1>1 DEF setCondition

\* What a status that patchStatus is about to send says of readiness is backed by a
\* condition whose change is announced.
StatusTells(st) ==
    \/ /\ ~IsTrue(st, "Ready") /\ st.conditions["ConfigReady"] # None
       /\ ~IsTrue(st, "ConfigReady") /\ warns(st.conditions["ConfigReady"].reason)
    \/ /\ ~IsTrue(st, "Ready") /\ st.conditions["PersistenceReady"] # None
       /\ ~IsTrue(st, "PersistenceReady")
       /\ st.conditions["PersistenceReady"].reason # "Unknown"
    \/ /\ st.conditions["WorkloadReady"] # None
       /\ IsTrue(st, "WorkloadReady") <=> IsTrue(st, "Ready")
       /\ st.conditions["WorkloadReady"].reason # "Unknown"

\* A configuration failure.
LEMMA ConfigFailureSound ==
    ASSUME NEW st \in AgentStatus, st.driftedFields = {},
           NEW reason \in ConfigFailures, NEW message \in Messages
    PROVE  /\ StatusSound(markConfigFailure(st, reason, message))
           /\ StatusTells(markConfigFailure(st, reason, message))
<1> DEFINE after == markConfigFailure(st, reason, message)
           a     == Verdict("False", reason, message)
           b     == Verdict("Unknown", "Unknown", <<>>)
           c     == Verdict("False", reason, <<>>)
<1>1. a \in Verdicts /\ b \in Verdicts /\ c \in Verdicts
  BY VerdictTyped, EmptyMessage DEF Truths, Reasons, Failures
<1>2. /\ setCondition(st, a) # None /\ setCondition(st, a).status = "False"
      /\ setCondition(st, a).reason = reason
      /\ setCondition(st, b) # None /\ setCondition(st, b).status = "Unknown"
      /\ setCondition(st, c) # None /\ setCondition(st, c).status = "False"
  <2>1. a.status = "False" /\ a.reason = reason /\ b.status = "Unknown" /\ c.status = "False"
    BY DEF Verdict
  <2> HIDE DEF a, b, c
  <2> QED
    BY <1>1, <2>1, SetConditionIs
<1>3. /\ after.phase = "ConfigError" /\ after.persistenceBound = FALSE
      /\ after.driftedFields = {}
      /\ after.conditions["ConfigReady"] = setCondition(st, a)
      /\ after.conditions["PersistenceReady"] = setCondition(st, b)
      /\ after.conditions["WorkloadReady"] = setCondition(st, b)
      /\ after.conditions["Ready"] = setCondition(st, c)
  BY DEF markConfigFailure, AgentStatus
<1>4. warns(reason)
  BY DEF warns, Failures
<1> HIDE DEF after, a, b, c
<1> QED
  BY <1>2, <1>3, <1>4 DEF StatusSound, StatusTells, IsTrue, after

\* A failure of the claim.
LEMMA PersistenceFailureSound ==
    ASSUME NEW st \in AgentStatus, st.driftedFields = {},
           NEW reason \in StorageFailures, NEW message \in Messages
    PROVE  /\ StatusSound(markPersistenceFailure(st, reason, message))
           /\ StatusTells(markPersistenceFailure(st, reason, message))
<1> DEFINE after == markPersistenceFailure(st, reason, message)
           drift == reason = "PersistentVolumeClaimSpecDrift"
           a     == Verdict("False", reason, message)
           b     == IF drift THEN Verdict("Unknown", reason, <<>>)
                    ELSE Verdict("False", "WaitingForPersistence", <<>>)
           c     == Verdict("False", reason, <<>>)
<1>1. a \in Verdicts /\ b \in Verdicts /\ c \in Verdicts
  BY VerdictTyped, EmptyMessage DEF Truths, Reasons, Failures
<1>2. /\ setCondition(st, a) # None /\ setCondition(st, a).status = "False"
      /\ setCondition(st, a).reason = reason
      /\ setCondition(st, b).status # "True"
      /\ setCondition(st, c) # None /\ setCondition(st, c).status = "False"
  <2>1. a.status = "False" /\ a.reason = reason /\ b.status # "True" /\ c.status = "False"
    BY DEF Verdict
  <2> HIDE DEF a, b, c
  <2> QED
    BY <1>1, <2>1, SetConditionIs
<1>3. /\ after.phase = "StorageError" /\ after.persistenceBound = FALSE
      /\ after.driftedFields # {} => drift
      /\ after.conditions["PersistenceReady"] = setCondition(st, a)
      /\ after.conditions["WorkloadReady"] = setCondition(st, b)
      /\ after.conditions["Ready"] = setCondition(st, c)
  BY DEF markPersistenceFailure, AgentStatus
<1>4. reason # "Unknown"
  BY DEF StorageFailures
<1> HIDE DEF after, a, b, c
<1> QED
  BY <1>2, <1>3, <1>4 DEF StatusSound, StatusTells, IsTrue, after

\* A failure of a later stage, which leaves what is said of the claim.
LEMMA WorkloadFailureSound ==
    ASSUME NEW st \in AgentStatus, st.driftedFields = {},
           st.persistenceBound => IsTrue(st, "PersistenceReady"),
           NEW reason \in WorkloadFailures, NEW message \in Messages
    PROVE  /\ StatusSound(markWorkloadFailure(st, reason, message))
           /\ StatusTells(markWorkloadFailure(st, reason, message))
<1> DEFINE after == markWorkloadFailure(st, reason, message)
           a     == Verdict("False", reason, message)
           b     == Verdict("False", reason, <<>>)
<1>1. a \in Verdicts /\ b \in Verdicts
  BY VerdictTyped, EmptyMessage DEF Truths, Reasons, Failures
<1>2. /\ setCondition(st, a) # None /\ setCondition(st, a).status = "False"
      /\ setCondition(st, a).reason = reason
      /\ setCondition(st, b) # None /\ setCondition(st, b).status = "False"
  <2>1. a.status = "False" /\ a.reason = reason /\ b.status = "False"
    BY DEF Verdict
  <2> HIDE DEF a, b
  <2> QED
    BY <1>1, <2>1, SetConditionIs
<1>3. /\ after.phase = "WorkloadError" /\ after.persistenceBound = st.persistenceBound
      /\ after.driftedFields = {}
      /\ after.conditions["PersistenceReady"] = st.conditions["PersistenceReady"]
      /\ after.conditions["WorkloadReady"] = setCondition(st, a)
      /\ after.conditions["Ready"] = setCondition(st, b)
  BY DEF markWorkloadFailure, AgentStatus
<1>4. reason # "Unknown"
  BY DEF WorkloadFailures
<1> HIDE DEF after, a, b
<1> QED
  BY <1>2, <1>3, <1>4 DEF StatusSound, StatusTells, IsTrue, after

\* The closure of a pass that went through.
LEMMA ViewMarkSound ==
    ASSUME NEW st \in AgentStatus, st.driftedFields = {},
           NEW view \in Views, ViewSound(view)
    PROVE  /\ StatusSound(markView(st, view))
           /\ StatusTells(markView(st, view))
<1> DEFINE after == markView(st, view)
<1>1. /\ ConfigReconciled \in Verdicts /\ view.persistence \in Verdicts
      /\ view.workload \in Verdicts /\ view.ready \in Verdicts
  BY VerdictTyped, EmptyMessage DEF ConfigReconciled, Truths, Reasons, Views
<1>2. ConfigReconciled.status = "True"
  BY DEF ConfigReconciled, Verdict
<1>3. /\ after.phase = view.phase /\ after.persistenceBound = view.persistenceBound
      /\ after.driftedFields = {}
      /\ after.conditions["ConfigReady"] = setCondition(st, ConfigReconciled)
      /\ after.conditions["PersistenceReady"] = setCondition(st, view.persistence)
      /\ after.conditions["WorkloadReady"] = setCondition(st, view.workload)
      /\ after.conditions["Ready"] = setCondition(st, view.ready)
  BY DEF markView, AgentStatus
<1> HIDE DEF after
<1>4. /\ IsTrue(after, "ConfigReady")
      /\ IsTrue(after, "PersistenceReady") <=> view.persistence.status = "True"
      /\ IsTrue(after, "WorkloadReady") <=> view.workload.status = "True"
      /\ IsTrue(after, "Ready") <=> view.ready.status = "True"
  BY <1>1, <1>2, <1>3, SetConditionIs DEF IsTrue
<1>5. /\ after.conditions["WorkloadReady"] # None
      /\ after.conditions["WorkloadReady"].reason = view.workload.reason
  BY <1>1, <1>3, SetConditionIs
<1>6. StatusSound(after)
  BY <1>3, <1>4 DEF StatusSound, ViewSound, ConditionTypes
<1>7. StatusTells(after)
  BY <1>4, <1>5 DEF StatusTells, ViewSound
<1> QED
  BY <1>6, <1>7 DEF after

\* Whatever patchStatus applies to a coherent status yields a coherent one.
LEMMA MutateSound ==
    ASSUME job \in Jobs, job.mark \in Marks, NEW st \in AgentStatus,
           st.persistenceBound => IsTrue(st, "PersistenceReady"),
           job.mark.stage = "view" => ViewSound(job.mark.view)
    PROVE  StatusSound(mutate(st)) /\ StatusTells(mutate(st))
<1> DEFINE mark == job.mark
           with == populateStatusMetadata(st, job.spec, mark.hash)
<1>1. job.spec \in AgentSpec /\ mark.hash \in Hashes \cup {None}
  BY DEF Jobs, Marks
<1>2. with \in AgentStatus
  BY <1>1, MetadataTyped
<1>3. with.driftedFields = {} /\ with.persistenceBound = st.persistenceBound
        /\ with.conditions = st.conditions
  BY DEF populateStatusMetadata, AgentStatus
<1>4. with.persistenceBound => IsTrue(with, "PersistenceReady")
  BY <1>3 DEF IsTrue
<1>5. CASE mark \in [stage : {"config"}, hash : Hashes \cup {None}, reason : ConfigFailures,
                     message : Messages]
  <2>1. mutate(st) = markConfigFailure(with, mark.reason, mark.message)
    BY <1>5 DEF mutate
  <2> HIDE DEF with
  <2> QED
    BY <1>2, <1>3, <1>5, <2>1, ConfigFailureSound
<1>6. CASE \/ mark \in [stage : {"persistence"}, hash : Hashes,
                        reason : {"PersistentVolumeClaimReconcileFailed"},
                        message : Messages]
           \/ mark \in [stage : {"persistence"}, hash : Hashes,
                        reason : {"PersistentVolumeClaimSpecDrift"},
                        message : {"fields"} \X SUBSET ImmutableFields]
  <2>1. mutate(st) = markPersistenceFailure(with, mark.reason, mark.message)
    BY <1>6 DEF mutate
  <2>2. mark.message \in Messages /\ mark.reason \in StorageFailures
    BY <1>6 DEF Messages, StorageFailures
  <2> HIDE DEF with
  <2> QED
    BY <1>2, <1>3, <2>1, <2>2, PersistenceFailureSound
<1>7. CASE mark \in [stage : {"workload"}, hash : Hashes, reason : WorkloadFailures,
                     message : Messages]
  <2>1. mutate(st) = markWorkloadFailure(with, mark.reason, mark.message)
    BY <1>7 DEF mutate
  <2> HIDE DEF with
  <2> QED
    BY <1>2, <1>3, <1>4, <1>7, <2>1, WorkloadFailureSound
<1>8. CASE mark \in [stage : {"view"}, hash : Hashes, view : Views]
  <2>1. mutate(st) = markView(with, mark.view)
    BY <1>8 DEF mutate
  <2> HIDE DEF with
  <2> QED
    BY <1>2, <1>3, <1>8, <2>1, ViewMarkSound
<1> QED
  BY <1>5, <1>6, <1>7, <1>8 DEF Marks

-----------------------------------------------------------------------------
(* What patchStatus is handed.                                             *)

\* A view that waits to be applied fits together.
MarkSound == (pc = "patchStatus" /\ job.mark.stage = "view") => ViewSound(job.mark.view)

\* The mark of a failure is not a view.
LEMMA FailMark ==
    ASSUME job \in Jobs, NEW stage, NEW h, NEW reason, NEW message, NEW retry,
           FailWith(stage, h, reason, message, retry), job'.mark \in Marks
    PROVE  job'.mark.stage # "view"
<1> DEFINE mark == [stage |-> stage, hash |-> h, reason |-> reason, message |-> message]
<1>1. job'.mark = mark
  BY DEF FailWith, Marked, Jobs
<1>2. "view" \notin DOMAIN mark
  OBVIOUS
<1>3. job'.mark \in [stage : {"view"}, hash : Hashes, view : Views] => "view" \in DOMAIN job'.mark
  OBVIOUS
<1>4. job'.mark \notin [stage : {"view"}, hash : Hashes, view : Views]
  BY <1>1, <1>2, <1>3
<1> QED
  BY <1>4 DEF Marks

\* A call that failed, or went through, hands no view to patchStatus.
LEMMA CallMark ==
    ASSUME TypeOK, TypeOK', job \in Jobs,
           \/ pc \in CallSteps /\ Advance
           \/ \E stage, h, reason, message, retry :
                 FailWith(stage, h, reason, message, retry)
    PROVE  MarkSound'
<1>1. CASE pc \in CallSteps /\ Advance
  BY <1>1, AdvanceTyped DEF PreparedSteps, MarkSound
<1>2. CASE \E stage, h, reason, message, retry : FailWith(stage, h, reason, message, retry)
  <2>1. pc' = "patchStatus"
    BY <1>2 DEF FailWith
  <2>2. job'.mark \in Marks
    BY <2>1 DEF TypeOK, WorkerTypeOK
  <2> QED
    BY <1>2, <2>2, FailMark DEF MarkSound
<1> QED
  BY <1>1, <1>2

\* CreateOrUpdate ends in one of these ways.
LEMMA CreateOrUpdateEnds ==
    ASSUME NEW k, NEW spec, CreateOrUpdate(k, spec)
    PROVE  \/ Advance
           \/ \E stage, h, reason, message, retry :
                 FailWith(stage, h, reason, message, retry)
  BY DEF CreateOrUpdate, Call, Fail

\* Delete ends in one of these ways.
LEMMA DeleteEnds ==
    ASSUME NEW k, NEW ignore, Delete(k, ignore)
    PROVE  \/ Advance
           \/ \E stage, h, reason, message, retry :
                 FailWith(stage, h, reason, message, retry)
  BY DEF Delete, Call, Fail

\* A step of the worker hands patchStatus the view it computed, or a failure.
LEMMA WorkerMarks ==
    ASSUME TypeOK, TypeOK', Worker
    PROVE  MarkSound'
<1>0. Reconcile \/ (pc # "idle" /\ job \in Jobs)
  BY BusyWorkers
<1>1. CASE Reconcile
  <2> DEFINE fresh == [ uid |-> seen[Agent].uid, gen |-> seen[Agent].gen,
                        spec |-> seen[Agent].spec, refs |-> [i \in Inputs |-> Absent],
                        first |-> Absent, mark |-> None, retry |-> FALSE ]
  <2>1. \/ pc' # "patchStatus"
        \/ job' = Marked(fresh, [stage |-> "config", hash |-> None,
                                 reason |-> "InvalidConfig", message |-> <<>>], FALSE)
    BY <1>1 DEF Reconcile
  <2>2. \A m : Marked(fresh, m, FALSE).mark = m
    BY DEF Marked
  <2>3. [stage |-> "config", hash |-> None, reason |-> "InvalidConfig",
         message |-> <<>>].stage # "view"
    OBVIOUS
  <2> HIDE DEF fresh
  <2> QED
    BY <2>1, <2>2, <2>3 DEF MarkSound
<1>2. CASE readStatefulSet
  <2> DEFINE view == readStatusView(job.spec, job.first, seen["StatefulSet"])
  <2>1. job' = Marked(job, [stage |-> "view", hash |-> hash, view |-> view], FALSE)
    BY <1>2 DEF readStatefulSet
  <2>2. job \in Jobs
    BY <1>0, <1>2 DEF Reconcile, readStatefulSet
  <2>3. ViewSound(view)
    BY StatusViewSound
  <2> HIDE DEF view
  <2>4. job'.mark.view = view
    BY <2>1, <2>2 DEF Marked, Jobs
  <2> QED
    BY <2>3, <2>4 DEF MarkSound
<1>3. ASSUME NEW id \in ConfigIds, reconcileInlineConfigMap(id) \/ deleteStaleConfigMap(id)
      PROVE  MarkSound'
  <2>1. pc \in CallSteps
    BY <1>3 DEF reconcileInlineConfigMap, deleteStaleConfigMap, Stale, ConfigIds, CallSteps,
                Steps, ChildSteps, StatusSteps, Children
  <2>2. pc # "idle"
    BY <2>1 DEF CallSteps, Steps, ChildSteps, StatusSteps, Children, ConfigIds, OptKinds
  <2>3. job \in Jobs
    BY <2>2 DEF TypeOK, WorkerTypeOK
  <2> QED
    BY <1>3, <2>1, <2>3, CallMark, CreateOrUpdateEnds, DeleteEnds
    DEF reconcileInlineConfigMap, deleteStaleConfigMap, Skip
<1>4. ASSUME NEW k \in OptKinds, checkOptional(k)
      PROVE  MarkSound'
  <2>1. pc \in CallSteps
    BY <1>4 DEF checkOptional, OptKinds, CallSteps, Steps, ChildSteps, StatusSteps, Children
  <2>2. job \in Jobs
    BY <2>1, BusyWorker DEF TypeOK, CallSteps
  <2>3. CASE pc' = WriteStep(k)
    <3>1. pc' # "patchStatus"
      BY <1>4, <2>3 DEF WriteStep, OptKinds
    <3> QED
      BY <3>1 DEF MarkSound
  <2> QED
    BY <1>4, <2>1, <2>2, <2>3, CallMark, DeleteEnds DEF checkOptional, Skip, Fail
<1>5. ASSUME NEW k \in OptKinds, writeOptional(k)
      PROVE  MarkSound'
  <2>1. pc \in CallSteps
    BY <1>5 DEF writeOptional, WriteStep, OptKinds, CallSteps, Steps, ChildSteps,
                StatusSteps, Children
  <2>2. job \in Jobs
    BY <2>1, BusyWorker DEF TypeOK, CallSteps
  <2> QED
    BY <1>5, <2>1, <2>2, CallMark, CreateOrUpdateEnds DEF writeOptional
<1>6. CASE reconcileStatefulSet \/ writePersistentVolumeClaim
  <2>1. pc \in CallSteps
    BY <1>6 DEF reconcileStatefulSet, writePersistentVolumeClaim, CallSteps, Steps,
                ChildSteps, StatusSteps, Children
  <2>2. job \in Jobs
    BY <2>1, BusyWorker DEF TypeOK, CallSteps
  <2> QED
    BY <1>6, <2>1, <2>2, CallMark, CreateOrUpdateEnds
    DEF reconcileStatefulSet, writePersistentVolumeClaim
<1>7. CASE FailedCall
  <2>1. job \in Jobs
    BY <1>7, BusyWorker DEF TypeOK, FailedCall
  <2> QED
    BY <1>7, <2>1, CallMark DEF FailedCall, Fail
<1>8. CASE resolveReferencedInputs
  <2>1. job \in Jobs
    BY <1>0, <1>8 DEF Reconcile, resolveReferencedInputs
  <2>2. \/ pc' = After("resolveReferencedInputs")
        \/ \E m : FailWith("config", None, "MissingReferencedInput", m, FALSE)
    BY <1>8 DEF resolveReferencedInputs
  <2>3. After("resolveReferencedInputs") # "patchStatus"
    BY DEF After
  <2> QED
    BY <2>1, <2>2, <2>3, CallMark DEF MarkSound
<1>9. CASE reconcilePersistentVolumeClaim
  <2>1. pc \in CallSteps
    BY <1>9 DEF reconcilePersistentVolumeClaim, CallSteps, Steps, ChildSteps, StatusSteps,
                Children
  <2>2. job \in Jobs
    BY <2>1, BusyWorker DEF TypeOK, CallSteps
  <2>3. CASE pc' = WriteStep("PersistentVolumeClaim")
    BY <2>3 DEF WriteStep, MarkSound
  <2> QED
    BY <1>9, <2>1, <2>2, <2>3, CallMark DEF reconcilePersistentVolumeClaim, Skip, Fail
<1>10. CASE cleanupStaleGeneratedConfigMaps \/ readClaim \/ failedStatusView \/ patchStatus
  <2>1. pc' # "patchStatus"
    BY <1>10 DEF cleanupStaleGeneratedConfigMaps, readClaim, failedStatusView, patchStatus,
                 Finish, After, ConfigIds
  <2> QED
    BY <2>1 DEF MarkSound
<1> QED
  BY <1>1, <1>2, <1>3, <1>4, <1>5, <1>6, <1>7, <1>8, <1>9, <1>10 DEF Worker

-----------------------------------------------------------------------------
(* What any other step does to the stored agent.                           *)

\* The agent is as it was, or of a later generation with the status it had.
AgentStays ==
    /\ api[Agent] # Absent /\ uids' = uids
    /\ api'[Agent].status = api[Agent].status
    /\ api'[Agent].gen \in {api[Agent].gen, api[Agent].gen + 1}

\* The agent is new.
AgentBorn ==
    /\ api[Agent] = Absent /\ uids' = uids + 1
    /\ api'[Agent].status = EmptyStatus /\ api'[Agent].gen = 1

\* Only patchStatus writes a status over another.
LEMMA AgentSteps ==
    ASSUME TypeOK, [Next]_vars, ~patchStatus, api'[Agent] # Absent
    PROVE  AgentStays \/ AgentBorn
<1>1. /\ DOMAIN api = Kinds /\ Agent \in Kinds /\ Agent \notin Children /\ Agent \notin Inputs
      /\ "StatefulSet" \in Children /\ "PersistentVolumeClaim" \in Children
  BY ClusterAssumption
  DEF TypeOK, ClusterTypeOK, Kinds, Agent, Children, ConfigIds, OptKinds
<1>2. api[Agent] # Absent => api[Agent] \in AgentObjects
  BY <1>1, SeenTyped, ObjectKinds DEF TypeOK
<1>3. CASE api'[Agent] = api[Agent] /\ uids' = uids
  BY <1>3 DEF AgentStays
<1>4. ASSUME NEW k \in Children \cup Inputs, NEW o, Store(k, o), uids' = uids
      PROVE  AgentStays
  <2>1. api'[Agent] = api[Agent]
    BY <1>1, <1>4 DEF Store
  <2> QED
    BY <1>4, <2>1 DEF AgentStays
<1>5. CASE CreateAgent
  <2>1. PICK s \in Specs :
          Store(Agent, [uid |-> uids + 1, gen |-> 1, spec |-> s, status |-> EmptyStatus])
    BY <1>5 DEF CreateAgent
  <2> QED
    BY <1>1, <1>5, <2>1 DEF CreateAgent, Store, AgentBorn
<1>6. CASE UpdateAgent
  <2>1. PICK s \in Specs : Store(Agent, [api[Agent] EXCEPT !.spec = s, !.gen = @ + 1])
    BY <1>6 DEF UpdateAgent
  <2>2. uids' = uids /\ api[Agent] \in AgentObjects /\ api[Agent] # Absent
    BY <1>2, <1>6 DEF UpdateAgent
  <2>3. api'[Agent] = [api[Agent] EXCEPT !.spec = s, !.gen = @ + 1]
    BY <1>1, <2>1 DEF Store
  <2> QED
    BY <2>2, <2>3 DEF AgentStays, AgentObjects
<1>7. ~DeleteAgent
  BY <1>1 DEF DeleteAgent, Store
<1>8. CASE ChangeInput \/ DeleteChild \/ ScaleStatefulSet \/ CreateForeign
  BY <1>1, <1>4, <1>8, ClusterAssumption
  DEF ChangeInput, DeleteChild, ScaleStatefulSet, CreateForeign
<1>9. CASE ControlPlane
  BY <1>1, <1>4, <1>9
  DEF ControlPlane, ObserveStatefulSet, AdjustPods, LosePod, BindClaim, LoseClaim,
      CollectGarbage
<1>10. CASE UNCHANGED vars \/ Delivery \/ Restart
  BY <1>3, <1>10 DEF vars, Delivery, Deliver, Restart
<1>11. CASE Worker
  <2>1. CASE Reconcile \/ failedStatusView
    BY <1>3, <2>1 DEF Reconcile, failedStatusView
  <2>2. CASE ~Reconcile /\ ~failedStatusView
    BY <1>3, <1>11, <2>2, WorkerKeeps DEF AgentKept
  <2> QED
    BY <2>1, <2>2
<1> QED
  BY <1>5, <1>6, <1>7, <1>8, <1>9, <1>10, <1>11 DEF Next, Environment, Users

\* Only the worker changes what the worker holds, but for a restart.
LEMMA MarksStay == TypeOK /\ MarkSound /\ [Next]_vars => MarkSound'
<1> SUFFICES ASSUME TypeOK, MarkSound, [Next]_vars PROVE MarkSound'
  OBVIOUS
<1>1. CASE UNCHANGED <<pc, job>>
  BY <1>1 DEF MarkSound
<1>2. CASE Restart
  BY <1>2 DEF Restart, MarkSound
<1>3. CASE Worker
  BY <1>3, StepTyped, WorkerMarks
<1> QED
  BY <1>1, <1>2, <1>3 DEF Next, Environment, vars

-----------------------------------------------------------------------------
(* The status stays coherent.                                              *)

\* A patch over the status it was computed from stores what was computed.
LEMMA MergeCurrent ==
    ASSUME NEW base \in AgentStatus, NEW new \in AgentStatus
    PROVE  mergePatch(base, new, base) = new
  BY DEF mergePatch, Merged, AgentStatus

SoundStored == api[Agent] # Absent => StatusSound(api[Agent].status)

\* What a patch stores, with a current cache: the status mutate computed.
LEMMA PatchStores ==
    ASSUME TypeOK, Current, Agent \notin LaggyKinds, patchStatus, api' # api
    PROVE  /\ api[Agent] # Absent /\ seen[Agent] = api[Agent] /\ api'[Agent] # Absent
           /\ api'[Agent].status = mutate(stamped(api[Agent]))
           /\ api[Agent].status \in AgentStatus
           /\ stamped(api[Agent]) \in AgentStatus
           /\ stamped(api[Agent]).conditions = api[Agent].status.conditions
           /\ stamped(api[Agent]).persistenceBound = api[Agent].status.persistenceBound
           /\ mutate(stamped(api[Agent])) \in AgentStatus
           /\ job \in Jobs /\ job.mark \in Marks
<1> DEFINE latest == api[Agent]
           base   == latest.status
           after  == mutate(stamped(latest))
           stored == [api[Agent] EXCEPT !.status = mergePatch(base, after, @)]
<1>1. seen[Agent] = api[Agent] /\ Agent \in DOMAIN api
  BY DEF Current, Kinds, TypeOK, ClusterTypeOK
<1>2. api[Agent] # Absent /\ api' = [api EXCEPT ![Agent] = stored]
  BY <1>1 DEF patchStatus
<1>3. api[Agent] \in AgentObjects
  BY <1>2, SeenTyped, ObjectKinds DEF TypeOK, Kinds
<1>4. base \in AgentStatus /\ latest.gen \in Nat
  BY <1>3 DEF AgentObjects
<1>5. /\ stamped(latest) \in AgentStatus
      /\ stamped(latest).conditions = base.conditions
      /\ stamped(latest).persistenceBound = base.persistenceBound
  BY <1>4 DEF stamped, AgentStatus
<1>6. job \in Jobs /\ job.mark \in Marks
  BY BusyWorker DEF TypeOK, WorkerTypeOK, patchStatus, Steps, StatusSteps
<1>7. after \in AgentStatus
  BY <1>5, <1>6, MutateTyped
<1>8. stored.status = mergePatch(base, after, base)
  BY <1>3 DEF AgentObjects
<1>9. stored \in AgentObjects
  <2>1. mergePatch(base, after, base) \in AgentStatus
    BY <1>4, <1>7, MergeTyped
  <2> HIDE DEF base, after
  <2> QED
    BY <1>3, <2>1 DEF AgentObjects, base
<1>10. stored # Absent
  BY <1>9, ObjectsAssumption
<1>11. stored.status = after
  BY <1>4, <1>7, <1>8, MergeCurrent
<1> HIDE DEF stored
<1> QED
  BY <1>1, <1>2, <1>4, <1>5, <1>6, <1>7, <1>10, <1>11

\* A patch stores a coherent status.
LEMMA PatchSound ==
    ASSUME TypeOK, Current, MarkSound, SoundStored, Agent \notin LaggyKinds,
           patchStatus, api' # api
    PROVE  StatusSound(api'[Agent].status) /\ StatusTells(api'[Agent].status)
<1> DEFINE st == stamped(api[Agent])
<1>1. /\ api[Agent] # Absent /\ api'[Agent].status = mutate(st)
      /\ st \in AgentStatus
      /\ st.conditions = api[Agent].status.conditions
      /\ st.persistenceBound = api[Agent].status.persistenceBound
      /\ job \in Jobs /\ job.mark \in Marks
  BY PatchStores
<1> HIDE DEF st
<1>2. st.persistenceBound => IsTrue(st, "PersistenceReady")
  BY <1>1 DEF SoundStored, StatusSound, IsTrue
<1>3. job.mark.stage = "view" => ViewSound(job.mark.view)
  BY DEF MarkSound, patchStatus
<1> QED
  BY <1>1, <1>2, <1>3, MutateSound

\* The status of a new agent is coherent: it says nothing.
LEMMA EmptySound == StatusSound(EmptyStatus)
  BY StatusAssumption DEF StatusSound, EmptyStatus, IsTrue, ConditionTypes, Phases

\* The stored status stays coherent.
LEMMA SoundInductive ==
    ASSUME Agent \notin LaggyKinds, TypeOK, Current, MarkSound, SoundStored, [Next]_vars
    PROVE  SoundStored'
<1>1. CASE patchStatus /\ api' # api
  BY <1>1, PatchSound DEF SoundStored
<1>2. CASE api' = api
  BY <1>2 DEF SoundStored
<1>3. CASE ~patchStatus
  BY <1>3, AgentSteps, EmptySound DEF SoundStored, AgentStays, AgentBorn
<1> QED
  BY <1>1, <1>2, <1>3

SoundInv == TypeOK /\ Current /\ MarkSound /\ SoundStored

\* It starts there.
LEMMA SoundInitial == Init => SoundInv
<1> SUFFICES ASSUME Init PROVE SoundInv
  OBVIOUS
<1>1. Agent \in Kinds /\ Agent \notin Inputs
  BY ClusterAssumption DEF Kinds
<1>2. api[Agent] = Absent
  BY <1>1 DEF Init, ClusterInit
<1> QED
  BY <1>2, InitTyped DEF Init, ClusterInit, Current, MarkSound, SoundStored, SoundInv

\* For every instance in which the agent's cache is current: whatever order the failures
\* of the stages come in, the stored status does not contradict itself.  The converse
\* for WorkloadReady (StatusSound) is carried along for ReadinessAnnounced; a view in
\* the worker's hands is coherent before it is applied (MarkSound).
THEOREM StatusStaysCoherent == Agent \notin LaggyKinds /\ Spec => []StatusCoherent
<1> SUFFICES ASSUME Agent \notin LaggyKinds PROVE Spec => []StatusCoherent
  OBVIOUS
<1>1. SoundInv /\ [Next]_vars => SoundInv'
  BY StepTyped, CurrentInductive, MarksStay, SoundInductive DEF SoundInv
<1>2. SoundInv => StatusCoherent
  BY DEF SoundInv, SoundStored, StatusSound, StatusCoherent
<1> QED
  BY <1>1, <1>2, SoundInitial, PTL DEF Spec

-----------------------------------------------------------------------------
(* Readiness never changes silently.                                       *)

\* A change of a WorkloadReady that has a reason is announced, or a change of
\* PersistenceReady that stands for it is.
LEMMA ChangesAnnounced ==
    ASSUME NEW before, NEW after,
           \/ changed(before, after, "ConfigReady")
                 /\ warns(after.conditions["ConfigReady"].reason)
           \/ changed(before, after, "PersistenceReady")
                 /\ after.conditions["PersistenceReady"].reason # "Unknown"
           \/ changed(before, after, "WorkloadReady")
                 /\ after.conditions["WorkloadReady"].reason # "Unknown"
    PROVE  statusEventsForTransition(before, after) # {}
<1> DEFINE reason(t) == after.conditions[t].reason
           config      == changed(before, after, "ConfigReady") /\ warns(reason("ConfigReady"))
           persistence == changed(before, after, "PersistenceReady")
                             /\ reason("PersistenceReady") # "Unknown"
           workload    == /\ changed(before, after, "WorkloadReady")
                          /\ reason("WorkloadReady") # "Unknown"
                          /\ ~persistence \/ reason("WorkloadReady") # "WaitingForPersistence"
           raised      == {t \in ConditionTypes :
                              \/ t = "ConfigReady" /\ config
                              \/ t = "PersistenceReady" /\ persistence
                              \/ t = "WorkloadReady" /\ workload}
<1>1. config \/ persistence \/ workload
  OBVIOUS
<1>2. \E t \in ConditionTypes : t \in raised
  BY <1>1 DEF ConditionTypes
<1>3. statusEventsForTransition(before, after) =
        {[about |-> t, reason |-> reason(t)] : t \in raised}
  BY DEF statusEventsForTransition
<1> HIDE DEF raised
<1> QED
  BY <1>2, <1>3

\* A patch that changes readiness is announced.
LEMMA ReadinessStep ==
    ASSUME Agent \notin LaggyKinds, SoundInv, patchStatus, faults' = faults,
           ReadyNow # ReadyNow'
    PROVE  emitted' # {}
<1> DEFINE before == api[Agent].status
           after  == mutate(stamped(api[Agent]))
<1>1. api' # api
  BY DEF ReadyNow
<1>2. /\ api[Agent] # Absent /\ seen[Agent] = api[Agent] /\ api'[Agent] # Absent
      /\ api'[Agent].status = after
  BY <1>1, PatchStores DEF SoundInv
<1>3. ~Fault
  BY DEF Fault, SoundInv, TypeOK, ClusterTypeOK
<1>4. emitted' = statusEventsForTransition(before, after)
  BY <1>1, <1>2, <1>3 DEF patchStatus
<1>5. StatusSound(before) /\ StatusTells(after) /\ StatusSound(after)
  BY <1>1, <1>2, PatchSound DEF SoundInv, SoundStored
<1>6. \/ IsTrue(before, "Ready") /\ ~IsTrue(after, "Ready")
      \/ ~IsTrue(before, "Ready") /\ IsTrue(after, "Ready")
  BY <1>2 DEF ReadyNow, IsTrue
<1> HIDE DEF before, after
<1>7. CASE IsTrue(before, "Ready")
  <2>1. \A t \in ConditionTypes : IsTrue(before, t)
    BY <1>5, <1>7 DEF StatusSound
  <2> QED
    BY <1>4, <1>5, <1>6, <1>7, <2>1, ChangesAnnounced
    DEF StatusTells, IsTrue, changed, ConditionTypes
<1>8. CASE ~IsTrue(before, "Ready")
  <2>1. IsTrue(after, "WorkloadReady") /\ ~IsTrue(before, "WorkloadReady")
    BY <1>5, <1>6, <1>8 DEF StatusSound, ConditionTypes
  <2> QED
    BY <1>4, <1>5, <1>6, <1>8, <2>1, ChangesAnnounced DEF StatusTells, IsTrue, changed
<1> QED
  BY <1>7, <1>8

\* For every instance in which the agent's cache is current: each change of readiness
\* raises an event, although several changes of conditions raise none.
THEOREM ReadinessIsAnnounced == Agent \notin LaggyKinds /\ Spec => ReadinessAnnounced
<1> SUFFICES ASSUME Agent \notin LaggyKinds PROVE Spec => ReadinessAnnounced
  OBVIOUS
<1> DEFINE Announced ==
        (patchStatus /\ faults' = faults /\ ReadyNow # ReadyNow') => emitted' # {}
<1>1. SoundInv /\ [Next]_vars => SoundInv'
  BY StepTyped, CurrentInductive, MarksStay, SoundInductive DEF SoundInv
<1>2. SoundInv /\ [Next]_vars => [Announced]_vars
  BY ReadinessStep
<1> QED
  BY <1>1, <1>2, SoundInitial, PTL DEF Spec, ReadinessAnnounced

-----------------------------------------------------------------------------
(* observedGeneration, whatever caches lag.  While there has been one      *)
(* agent, what the status says it observed is at most the generation the   *)
(* cache shows, and that at most the stored one.                           *)

Observed(a) == a.status.observedGeneration

GenerationsInOrder ==
    (uids <= 1 /\ api[Agent] # Absent) =>
        /\ Observed(api[Agent]) <= api[Agent].gen
        /\ seen[Agent] # Absent =>
              /\ Observed(api[Agent]) <= seen[Agent].gen
              /\ seen[Agent].gen <= api[Agent].gen

\* Generations and what was observed of them are numbers.
LEMMA GenerationTypes ==
    ASSUME TypeOK
    PROVE  /\ uids \in Nat
           /\ api[Agent] # Absent =>
                 /\ api[Agent] \in AgentObjects /\ api[Agent].uid \in Nat \ {0}
                 /\ api[Agent].gen \in Nat \ {0} /\ Observed(api[Agent]) \in Nat
           /\ seen[Agent] # Absent =>
                 /\ seen[Agent] \in AgentObjects /\ seen[Agent].uid \in Nat \ {0}
                 /\ seen[Agent].gen \in Nat \ {0} /\ Observed(seen[Agent]) \in Nat
<1>1. /\ api[Agent] # Absent => api[Agent] \in AgentObjects
      /\ seen[Agent] # Absent => seen[Agent] \in AgentObjects
  BY SeenTyped, ObjectKinds DEF TypeOK, Kinds
<1>2. \A a \in AgentObjects : /\ a.uid \in Nat \ {0} /\ a.gen \in Nat \ {0}
                              /\ Observed(a) \in Nat
  BY DEF AgentObjects, AgentStatus, Observed
<1>3. uids \in Nat
  BY DEF TypeOK, ClusterTypeOK
<1> QED
  BY <1>1, <1>2, <1>3

\* No closure touches the generation the status is stamped with.
LEMMA MutateKeepsGeneration ==
    ASSUME job \in Jobs, job.mark \in Marks, NEW st \in AgentStatus
    PROVE  mutate(st).observedGeneration = st.observedGeneration
<1> DEFINE with == populateStatusMetadata(st, job.spec, job.mark.hash)
<1>1. with \in AgentStatus /\ with.observedGeneration = st.observedGeneration
  <2>1. job.spec \in AgentSpec /\ job.mark.hash \in Hashes \cup {None}
    BY DEF Jobs, Marks
  <2>2. with.observedGeneration = st.observedGeneration
    BY DEF populateStatusMetadata, AgentStatus
  <2> QED
    BY <2>1, <2>2, MetadataTyped
<1> HIDE DEF with
<1>2. \A reason, message :
        /\ markConfigFailure(with, reason, message).observedGeneration = with.observedGeneration
        /\ markPersistenceFailure(with, reason, message).observedGeneration
              = with.observedGeneration
        /\ markWorkloadFailure(with, reason, message).observedGeneration
              = with.observedGeneration
  BY <1>1 DEF markConfigFailure, markPersistenceFailure, markWorkloadFailure, AgentStatus
<1>3. \A view : markView(with, view).observedGeneration = with.observedGeneration
  BY <1>1 DEF markView, AgentStatus
<1>4. job.mark.stage \in {"config", "persistence", "workload", "view"}
  BY DEF Marks
<1> QED
  BY <1>1, <1>2, <1>3, <1>4 DEF mutate, with

\* A patch leaves the generation it was computed for, or what was there.
LEMMA PatchObserves ==
    ASSUME TypeOK, patchStatus, api[Agent] # Absent
    PROVE  /\ uids' = uids /\ api'[Agent].gen = api[Agent].gen
           /\ \/ Observed(api'[Agent]) = Observed(api[Agent])
              \/ seen[Agent] # Absent /\ Observed(api'[Agent]) = seen[Agent].gen
           /\ seen'[Agent] = seen[Agent] \/ seen'[Agent] = api'[Agent]
<1> DEFINE base   == seen[Agent].status
           after  == mutate(stamped(seen[Agent]))
           stored == [api[Agent] EXCEPT !.status = mergePatch(base, after, @)]
<1>1. Agent \in DOMAIN api /\ Agent \in DOMAIN seen /\ uids' = uids
  BY DEF TypeOK, ClusterTypeOK, Kinds, patchStatus
<1>2. CASE api' = api /\ seen' = seen
  BY <1>1, <1>2
<1>3. CASE /\ seen[Agent] # Absent
           /\ api' = [api EXCEPT ![Agent] = stored] /\ seen' = SeenAfter(Agent, stored)
  <2>1. api[Agent] \in AgentObjects /\ seen[Agent] \in AgentObjects
    BY <1>3, GenerationTypes
  <2>2. stamped(seen[Agent]) \in AgentStatus
          /\ stamped(seen[Agent]).observedGeneration = seen[Agent].gen
    BY <2>1 DEF stamped, AgentObjects, AgentStatus
  <2>3. job \in Jobs /\ job.mark \in Marks
    BY BusyWorker DEF TypeOK, WorkerTypeOK, patchStatus, Steps, StatusSteps
  <2>4. after.observedGeneration = seen[Agent].gen
    BY <2>2, <2>3, MutateKeepsGeneration
  <2> HIDE DEF after, base
  <2>5. /\ stored.gen = api[Agent].gen
        /\ stored.status = mergePatch(base, after, api[Agent].status)
    BY <2>1 DEF AgentObjects
  <2>6. stored.status.observedGeneration
          \in {after.observedGeneration, api[Agent].status.observedGeneration}
    BY <2>5 DEF mergePatch, Merged
  <2> HIDE DEF stored
  <2>7. api'[Agent] = stored /\ seen'[Agent] \in {seen[Agent], stored}
    BY <1>1, <1>3 DEF SeenAfter
  <2> QED
    BY <1>1, <1>3, <2>4, <2>5, <2>6, <2>7 DEF Observed
<1> QED
  BY <1>2, <1>3 DEF patchStatus

\* What a step does to the cached agent.
LEMMA CachedAgent ==
    ASSUME TypeOK, [Next]_vars
    PROVE  seen'[Agent] = seen[Agent] \/ seen'[Agent] = api'[Agent]
<1>1. DOMAIN api = Kinds /\ DOMAIN seen = Kinds /\ Agent \in Kinds
  BY DEF TypeOK, ClusterTypeOK, Kinds
<1>2. CASE \E k \in Kinds : \E o : Store(k, o)
  BY <1>1, <1>2 DEF Store, SeenAfter
<1>3. CASE Users \/ ControlPlane
  BY <1>2, <1>3, UsersWrite, ControlPlaneWrites DEF Written
<1>4. CASE UNCHANGED vars \/ Delivery \/ Restart
  BY <1>1, <1>4 DEF vars, Delivery, Deliver, Restart
<1>5. CASE Worker /\ ~Reconcile /\ ~patchStatus /\ ~failedStatusView
  BY <1>5, WorkerKeeps DEF AgentKept
<1>6. CASE Reconcile \/ failedStatusView
  BY <1>6 DEF Reconcile, failedStatusView
<1>7. CASE patchStatus
  BY <1>1, <1>7 DEF patchStatus, SeenAfter
<1> QED
  BY <1>3, <1>4, <1>5, <1>6, <1>7 DEF Next, Environment

\* The order of the generations is inductive, given that of the uids.
LEMMA GenerationStep ==
    ASSUME TypeOK, TypeOK', UidsInOrder, GenerationsInOrder, [Next]_vars,
           uids' <= 1, api'[Agent] # Absent
    PROVE  /\ GenerationsInOrder'
           /\ api[Agent] # Absent => Observed(api'[Agent]) >= Observed(api[Agent])
<1>1. /\ uids \in Nat
      /\ api[Agent] # Absent =>
            /\ api[Agent].uid \in Nat \ {0}
            /\ api[Agent].gen \in Nat \ {0} /\ Observed(api[Agent]) \in Nat
      /\ seen[Agent] # Absent =>
            /\ seen[Agent].uid \in Nat \ {0}
            /\ seen[Agent].gen \in Nat \ {0} /\ Observed(seen[Agent]) \in Nat
  BY GenerationTypes
<1>2. seen'[Agent] = seen[Agent] \/ seen'[Agent] = api'[Agent]
  BY CachedAgent
<1>3. CASE ~patchStatus /\ AgentStays
  BY <1>1, <1>2, <1>3 DEF AgentStays, GenerationsInOrder, Observed
<1>4. CASE ~patchStatus /\ AgentBorn
  <2>1. uids = 0
    BY <1>1, <1>4 DEF AgentBorn
  <2>2. seen[Agent] = Absent
    BY <1>1, <2>1 DEF UidsInOrder, UpToStored
  <2>3. Observed(api'[Agent]) = 0 /\ api'[Agent].gen = 1
    BY <1>4 DEF AgentBorn, EmptyStatus, Observed
  <2> QED
    BY <1>2, <1>4, <2>2, <2>3 DEF AgentBorn, GenerationsInOrder
<1>5. CASE patchStatus
  <2>1. CASE api[Agent] # Absent
    <3>1. /\ uids' = uids /\ api'[Agent].gen = api[Agent].gen
          /\ \/ Observed(api'[Agent]) = Observed(api[Agent])
             \/ seen[Agent] # Absent /\ Observed(api'[Agent]) = seen[Agent].gen
      BY <1>5, <2>1, PatchObserves
    <3> QED
      BY <1>1, <1>2, <2>1, <3>1 DEF GenerationsInOrder
  <2>2. CASE api[Agent] = Absent
    BY <1>5, <2>2 DEF patchStatus
  <2> QED
    BY <2>1, <2>2
<1> QED
  BY <1>3, <1>4, <1>5, AgentSteps

\* For every instance, with any cache lagging: as long as there has been one agent of
\* the name, observedGeneration never goes back and never runs ahead, since what a pass
\* stamps is a generation between what was observed and what is stored.
THEOREM GenerationsAdvance == Spec => ObservedGenerationAdvances
<1> DEFINE Inv      == TypeOK /\ UidsInOrder /\ GenerationsInOrder
           Advances == (uids' = 1 /\ api[Agent] # Absent /\ api'[Agent] # Absent) =>
                          /\ api'[Agent].status.observedGeneration
                                >= api[Agent].status.observedGeneration
                          /\ api'[Agent].status.observedGeneration <= api'[Agent].gen
<1>1. Init => Inv
  <2>1. Init => api[Agent] = Absent
    BY ClusterAssumption DEF Init, ClusterInit, Kinds
  <2> QED
    BY <2>1, InitTyped, OrderInitial DEF GenerationsInOrder
<1>2. Inv /\ [Next]_vars => Inv'
  <2> SUFFICES ASSUME Inv, [Next]_vars PROVE GenerationsInOrder'
    BY StepTyped, OrderInductive
  <2>1. TypeOK'
    BY StepTyped
  <2>2. CASE uids' <= 1 /\ api'[Agent] # Absent
    BY <2>1, <2>2, GenerationStep
  <2>3. CASE ~(uids' <= 1 /\ api'[Agent] # Absent)
    BY <2>3 DEF GenerationsInOrder
  <2> QED
    BY <2>2, <2>3
<1>3. Inv /\ [Next]_vars => [Advances]_vars
  <2> SUFFICES ASSUME Inv, [Next]_vars, uids' = 1, api[Agent] # Absent, api'[Agent] # Absent
               PROVE  /\ Observed(api'[Agent]) >= Observed(api[Agent])
                      /\ Observed(api'[Agent]) <= api'[Agent].gen
    BY DEF Observed
  <2>1. GenerationsInOrder' /\ Observed(api'[Agent]) >= Observed(api[Agent])
    BY StepTyped, GenerationStep
  <2> QED
    BY <2>1 DEF GenerationsInOrder
<1> QED
  BY <1>1, <1>2, <1>3, PTL DEF Spec, ObservedGenerationAdvances
=============================================================================
