---------------------------- MODULE HermesStatus ----------------------------
(***************************************************************************)
(* The status of a HermesAgent and every way the controller writes it:     *)
(* the mutate closures of Reconcile (markConfigFailure,                    *)
(* markPersistenceFailure, markWorkloadFailure, the statusView of a        *)
(* successful pass), the merge patch that carries the change to the API    *)
(* server, and the events a change raises                                  *)
(* (internal/controller/hermesagent_controller.go).                        *)
(*                                                                         *)
(* A condition message is a tag with the data the text is made from, so    *)
(* two messages are equal exactly when the texts are (the generation       *)
(* numbers in the text of StatefulSetRolloutPending are left out).         *)
(***************************************************************************)
EXTENDS HermesResources

ConditionTypes == {"ConfigReady", "PersistenceReady", "WorkloadReady", "Ready"}

ConfigFailures == {"InvalidConfig", "ReferencedInputsReadFailed",
                   "MissingReferencedInput", "ConfigMapReconcileFailed"}
StorageFailures == {"PersistentVolumeClaimReconcileFailed",
                    "PersistentVolumeClaimSpecDrift"}
WorkloadFailures == {"StatefulSetReconcileFailed", "ServiceReconcileFailed",
                     "NetworkPolicyReconcileFailed",
                     "PodDisruptionBudgetReconcileFailed"}
Failures == ConfigFailures \cup StorageFailures \cup WorkloadFailures

Reasons ==
    Failures \cup
    {"Unknown", "ConfigReconciled", "PersistentVolumeClaimMissing",
     "PersistentVolumeClaimPending", "PersistentVolumeClaimBound",
     "PersistentVolumeClaimLost", "PersistenceDisabled",
     "WaitingForPersistence", "StatefulSetMissing", "StatefulSetReady",
     "StatefulSetRolloutPending", "StatefulSetWaitingForReadyReplicas", "Ready"}

Phases == {"ConfigError", "StoragePending", "StorageError", "WorkloadPending",
           "WorkloadError", "Ready"}

ImmutableFields == {"accessModes", "storageClassName"}

Errors == {"Unavailable", "AlreadyExists", "AlreadyOwned", "NotOwned", "Conflict",
           "NotFound", "Invalid", "NotAQuantity"}

Messages ==
    {<<>>} \cup ({"error"} \X Errors)
           \cup ({"missing"} \X SUBSET Inputs)
           \cup ({"fields"} \X SUBSET ImmutableFields)
           \cup ({"replicas"} \X Nat \X Nat)

Truths == {"True", "False", "Unknown"}

\* What a caller says of a condition, and the condition as it is stored.
Verdicts   == [status : Truths, reason : Reasons, message : Messages]
Conditions == [status : Truths, reason : Reasons, message : Messages, gen : Nat]

\* A phase or a condition that is set can be told from one that is not.
ASSUME StatusAssumption == None \notin Phases /\ None \notin Conditions

AgentStatus ==
    [ phase              : Phases \cup {None},
      observedGeneration : Nat,
      image              : Images \cup {None},
      configHash         : Hashes \cup {None},
      readyReplicas      : Nat,
      persistenceBound   : BOOLEAN,
      pvcName            : BOOLEAN,                 \* the name is set
      driftedFields      : SUBSET ImmutableFields,
      serviceName        : BOOLEAN,                 \* the name is set
      conditions         : [ConditionTypes -> Conditions \cup {None}] ]

EmptyStatus ==
    [ phase |-> None, observedGeneration |-> 0, image |-> None,
      configHash |-> None, readyReplicas |-> 0, persistenceBound |-> FALSE,
      pvcName |-> FALSE, driftedFields |-> {}, serviceName |-> FALSE,
      conditions |-> [t \in ConditionTypes |-> None] ]

Verdict(status, reason, message) ==
    [status |-> status, reason |-> reason, message |-> message]

\* A condition carries the observedGeneration of the status it is set in.
setCondition(st, v) ==
    [ status |-> v.status, reason |-> v.reason, message |-> v.message,
      gen |-> st.observedGeneration ]

populateStatusMetadata(st, s, hash) ==
    [st EXCEPT !.image         = s.image,
               !.configHash    = hash,
               !.pvcName       = s.persistence,
               !.driftedFields = {},
               !.serviceName   = (s.service # None)]

-----------------------------------------------------------------------------
(* A mark says what the closure passed to patchStatus captured: the        *)
(* failing stage with its reason and message, or the status view of a      *)
(* pass that went through.                                                 *)

ConfigReconciled == Verdict("True", "ConfigReconciled", <<>>)

markConfigFailure(st, reason, message) ==
    [st EXCEPT
        !.readyReplicas    = 0,
        !.persistenceBound = FALSE,
        !.conditions       =
            [ConfigReady      |-> setCondition(st, Verdict("False", reason, message)),
             PersistenceReady |-> setCondition(st, Verdict("Unknown", "Unknown", <<>>)),
             WorkloadReady    |-> setCondition(st, Verdict("Unknown", "Unknown", <<>>)),
             Ready            |-> setCondition(st, Verdict("False", reason, <<>>))],
        !.phase            = "ConfigError"]

\* Mutants of markPersistenceFailure: persistenceBound, or the drifted fields, are
\* not set.
markPersistenceKeepsBound(st, reason, message) ==
    LET drift == reason = "PersistentVolumeClaimSpecDrift"
    IN [st EXCEPT
        !.readyReplicas    = 0,
        !.driftedFields    = IF drift THEN message[2] ELSE @,
        !.conditions       =
            [ConfigReady      |-> setCondition(st, ConfigReconciled),
             PersistenceReady |-> setCondition(st, Verdict("False", reason, message)),
             WorkloadReady    |-> setCondition(st,
                                   IF drift THEN Verdict("Unknown", reason, <<>>)
                                   ELSE Verdict("False", "WaitingForPersistence", <<>>)),
             Ready            |-> setCondition(st, Verdict("False", reason, <<>>))],
        !.phase            = "StorageError"]

markPersistenceNoFields(st, reason, message) ==
    LET drift == reason = "PersistentVolumeClaimSpecDrift"
    IN [st EXCEPT
        !.readyReplicas    = 0,
        !.persistenceBound = FALSE,
        !.conditions       =
            [ConfigReady      |-> setCondition(st, ConfigReconciled),
             PersistenceReady |-> setCondition(st, Verdict("False", reason, message)),
             WorkloadReady    |-> setCondition(st,
                                   IF drift THEN Verdict("Unknown", reason, <<>>)
                                   ELSE Verdict("False", "WaitingForPersistence", <<>>)),
             Ready            |-> setCondition(st, Verdict("False", reason, <<>>))],
        !.phase            = "StorageError"]

markPersistenceFailure(st, reason, message) ==
    LET drift == reason = "PersistentVolumeClaimSpecDrift"
    IN [st EXCEPT
        !.readyReplicas    = 0,
        !.persistenceBound = FALSE,
        !.driftedFields    = IF drift THEN message[2] ELSE @,
        !.conditions       =
            [ConfigReady      |-> setCondition(st, ConfigReconciled),
             PersistenceReady |-> setCondition(st, Verdict("False", reason, message)),
             WorkloadReady    |-> setCondition(st,
                                   IF drift THEN Verdict("Unknown", reason, <<>>)
                                   ELSE Verdict("False", "WaitingForPersistence", <<>>)),
             Ready            |-> setCondition(st, Verdict("False", reason, <<>>))],
        !.phase            = "StorageError"]

\* Mutant of markWorkloadFailure: PersistenceReady is reset, persistenceBound is not.
markWorkloadResets(st, reason, message) ==
    [st EXCEPT
        !.readyReplicas = 0,
        !.conditions    =
            [ConfigReady      |-> setCondition(st, ConfigReconciled),
             PersistenceReady |-> setCondition(st, Verdict("Unknown", reason, <<>>)),
             WorkloadReady    |-> setCondition(st, Verdict("False", reason, message)),
             Ready            |-> setCondition(st, Verdict("False", reason, <<>>))],
        !.phase         = "WorkloadError"]

\* Leaves PersistenceReady and persistenceBound as they are.
markWorkloadFailure(st, reason, message) ==
    [st EXCEPT
        !.readyReplicas = 0,
        !.conditions    =
            [ConfigReady      |-> setCondition(st, ConfigReconciled),
             PersistenceReady |-> @.PersistenceReady,
             WorkloadReady    |-> setCondition(st, Verdict("False", reason, message)),
             Ready            |-> setCondition(st, Verdict("False", reason, <<>>))],
        !.phase         = "WorkloadError"]

Views ==
    [ readyReplicas : Nat, persistenceBound : BOOLEAN, persistence : Verdicts,
      workload : Verdicts, ready : Verdicts, phase : Phases ]

markView(st, view) ==
    [st EXCEPT
        !.readyReplicas    = view.readyReplicas,
        !.persistenceBound = view.persistenceBound,
        !.conditions       =
            [ConfigReady      |-> setCondition(st, ConfigReconciled),
             PersistenceReady |-> setCondition(st, view.persistence),
             WorkloadReady    |-> setCondition(st, view.workload),
             Ready            |-> setCondition(st, view.ready)],
        !.phase            = view.phase]

-----------------------------------------------------------------------------
(* The view of a pass that reconciled everything, from the claim and the   *)
(* StatefulSet it read.                                                    *)

persistenceReason(phase) ==
    IF phase = "Lost" THEN "PersistentVolumeClaimLost" ELSE "PersistentVolumeClaimPending"

persistencePhase(phase) == IF phase = "Lost" THEN "StorageError" ELSE "StoragePending"

StorageView(reason, phase) ==
    [ readyReplicas |-> 0, persistenceBound |-> FALSE,
      persistence   |-> Verdict("False", reason, <<>>),
      workload      |-> Verdict("False", "WaitingForPersistence", <<>>),
      ready         |-> Verdict("False", reason, <<>>),
      phase         |-> phase ]

statefulSetReady(sts) == sts.status.ready >= sts.spec.replicas /\ sts.status.observed

WorkloadView(s, sts) ==
    LET reason ==
            CASE sts = Absent                -> "StatefulSetMissing"
              [] sts # Absent /\ statefulSetReady(sts) -> "StatefulSetReady"
              [] sts # Absent /\ ~statefulSetReady(sts) /\ ~sts.status.observed
                                             -> "StatefulSetRolloutPending"
              [] OTHER                       -> "StatefulSetWaitingForReadyReplicas"
        ready   == reason = "StatefulSetReady"
        message == IF reason \in {"StatefulSetReady", "StatefulSetWaitingForReadyReplicas"}
                   THEN <<"replicas", sts.status.ready, sts.spec.replicas>>
                   ELSE <<>>
    IN  [ readyReplicas    |-> IF sts = Absent THEN 0 ELSE sts.status.ready,
          persistenceBound |-> s.persistence,
          persistence      |-> Verdict("True", IF s.persistence
                                                 THEN "PersistentVolumeClaimBound"
                                                 ELSE "PersistenceDisabled", <<>>),
          workload         |-> Verdict(IF ready THEN "True" ELSE "False", reason, message),
          ready            |-> IF ready THEN Verdict("True", "Ready", <<>>)
                                        ELSE Verdict("False", reason, message),
          phase            |-> IF ready THEN "Ready" ELSE "WorkloadPending" ]

\* The claim decides alone until it is bound; then the StatefulSet does.
readStatusView(s, pvc, sts) ==
    CASE s.persistence /\ pvc = Absent ->
            StorageView("PersistentVolumeClaimMissing", "StoragePending")
      [] s.persistence /\ pvc # Absent /\ pvc.status # "Bound" ->
            StorageView(persistenceReason(pvc.status), persistencePhase(pvc.status))
      [] OTHER -> WorkloadView(s, sts)

-----------------------------------------------------------------------------
(* patchStatus sends client.MergeFrom(base): a field travels only when it  *)
(* differs from the cached base, and the list of conditions travels whole. *)

Merged(base, new, current) == IF new = base THEN current ELSE new

mergePatch(base, new, current) ==
    [ phase              |-> Merged(base.phase, new.phase, current.phase),
      observedGeneration |-> Merged(base.observedGeneration, new.observedGeneration,
                                    current.observedGeneration),
      image              |-> Merged(base.image, new.image, current.image),
      configHash         |-> Merged(base.configHash, new.configHash, current.configHash),
      readyReplicas      |-> Merged(base.readyReplicas, new.readyReplicas,
                                    current.readyReplicas),
      persistenceBound   |-> Merged(base.persistenceBound, new.persistenceBound,
                                    current.persistenceBound),
      pvcName            |-> Merged(base.pvcName, new.pvcName, current.pvcName),
      driftedFields      |-> Merged(base.driftedFields, new.driftedFields,
                                    current.driftedFields),
      serviceName        |-> Merged(base.serviceName, new.serviceName, current.serviceName),
      conditions         |-> Merged(base.conditions, new.conditions, current.conditions) ]

(* Events: one per changed condition, ConfigReady only when it is a        *)
(* warning, never for reason Unknown, and no WaitingForPersistence beside  *)
(* a persistence event.                                                    *)

warns(reason) == reason \in Failures \cup {"PersistentVolumeClaimLost"}

changed(before, after, type) ==
    LET a == after.conditions[type]
        b == before.conditions[type]
    IN  /\ a # None
        /\ b = None \/ a.status # b.status \/ a.reason # b.reason \/ a.message # b.message

\* Mutant of statusEventsForTransition: only warnings are raised.
warningsForTransition(before, after) ==
    {[about |-> t, reason |-> after.conditions[t].reason] :
        t \in {x \in ConditionTypes \ {"Ready"} :
                 changed(before, after, x) /\ warns(after.conditions[x].reason)}}

statusEventsForTransition(before, after) ==
    LET reason(t) == after.conditions[t].reason
        config      == changed(before, after, "ConfigReady") /\ warns(reason("ConfigReady"))
        persistence == changed(before, after, "PersistenceReady")
                          /\ reason("PersistenceReady") # "Unknown"
        workload    == /\ changed(before, after, "WorkloadReady")
                       /\ reason("WorkloadReady") # "Unknown"
                       /\ ~persistence \/ reason("WorkloadReady") # "WaitingForPersistence"
        raised      == {t \in ConditionTypes :
                           \/ t = "ConfigReady" /\ config
                           \/ t = "PersistenceReady" /\ persistence
                           \/ t = "WorkloadReady" /\ workload}
    IN  {[about |-> t, reason |-> reason(t)] : t \in raised}

Events == [about : ConditionTypes, reason : Reasons]
=============================================================================
