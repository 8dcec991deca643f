-------------------------- MODULE HermesReconciler --------------------------
(***************************************************************************)
(* HermesAgentReconciler.Reconcile                                         *)
(* (internal/controller/hermesagent_controller.go) running against the     *)
(* Cluster: one worker takes the agent's request from the queue and goes   *)
(* through the calls of Reconcile, one step per API write and per cached   *)
(* read that a later call depends on, while the cluster moves on between   *)
(* the steps.                                                              *)
(*                                                                         *)
(* pc names the call that is next.  job is what the worker holds in        *)
(* memory: the agent it read, the referenced inputs, the object read first *)
(* where a function reads twice, and the mark patchStatus will apply.      *)
(***************************************************************************)
EXTENDS Cluster

VARIABLES
    pc,       \* the next call of the worker
    job,      \* its local state, None when it has none
    emitted   \* the events raised by the last patchStatus of the worker

vars == <<api, seen, queued, due, uids, churn, faults, pc, job, emitted>>

Stale(id)    == IF id = "config" THEN "stale config" ELSE "stale gateway-config"
WriteStep(k) ==
    CASE k = "PersistentVolumeClaim" -> "write PersistentVolumeClaim"
      [] k = "Service"               -> "write Service"
      [] k = "NetworkPolicy"         -> "write NetworkPolicy"
      [] k = "PodDisruptionBudget"   -> "write PodDisruptionBudget"

\* The order of the calls in Reconcile.
After(p) ==
    CASE p = "resolveReferencedInputs" -> "config"
      [] p = "config"                  -> "gateway-config"
      [] p = "gateway-config"          -> "cleanupStaleGeneratedConfigMaps"
      [] p = "cleanupStaleGeneratedConfigMaps" -> "stale config"
      [] p = "stale config"            -> "stale gateway-config"
      [] p = "stale gateway-config"    -> "PersistentVolumeClaim"
      [] p \in {"PersistentVolumeClaim", "write PersistentVolumeClaim"} -> "StatefulSet"
      [] p = "StatefulSet"             -> "Service"
      [] p \in {"Service", "write Service"} -> "NetworkPolicy"
      [] p \in {"NetworkPolicy", "write NetworkPolicy"} -> "PodDisruptionBudget"
      [] p \in {"PodDisruptionBudget", "write PodDisruptionBudget"} -> "readStatusView"
      [] p = "readStatusView"          -> "readStatusView StatefulSet"
      [] p = "readStatusView StatefulSet" -> "patchStatus"

\* The calls whose error Reconcile turns into a status, with the reason it gives.
FailureOf(p) ==
    CASE p = "resolveReferencedInputs" -> "ReferencedInputsReadFailed"
      [] p \in ConfigIds \cup {"cleanupStaleGeneratedConfigMaps", "stale config",
                               "stale gateway-config"} -> "ConfigMapReconcileFailed"
      [] p \in {"PersistentVolumeClaim", "write PersistentVolumeClaim"} ->
            "PersistentVolumeClaimReconcileFailed"
      [] p = "StatefulSet" -> "StatefulSetReconcileFailed"
      [] p \in {"Service", "write Service"} -> "ServiceReconcileFailed"
      [] p \in {"NetworkPolicy", "write NetworkPolicy"} -> "NetworkPolicyReconcileFailed"
      [] p \in {"PodDisruptionBudget", "write PodDisruptionBudget"} ->
            "PodDisruptionBudgetReconcileFailed"

ChildSteps == Children \cup {"cleanupStaleGeneratedConfigMaps", "stale config",
                             "stale gateway-config", "write PersistentVolumeClaim",
                             "write Service", "write NetworkPolicy",
                             "write PodDisruptionBudget"}
StatusSteps == {"readStatusView", "readStatusView StatefulSet", "patchStatus"}
Steps == {"resolveReferencedInputs"} \cup ChildSteps \cup StatusSteps

Marks ==
    [ stage : {"config"}, hash : Hashes \cup {None}, reason : ConfigFailures,
      message : Messages ]
    \cup
    [ stage : {"persistence"}, hash : Hashes,
      reason : {"PersistentVolumeClaimReconcileFailed"}, message : Messages ]
    \cup
    [ stage : {"persistence"}, hash : Hashes,
      reason : {"PersistentVolumeClaimSpecDrift"},
      message : {"fields"} \X SUBSET ImmutableFields ]
    \cup
    [ stage : {"workload"}, hash : Hashes, reason : WorkloadFailures,
      message : Messages ]
    \cup
    [ stage : {"view"}, hash : Hashes, view : Views ]

\* What a first read of an object may have returned.
FirstReads ==
    Objects("PersistentVolumeClaim") \cup Objects("Service")
       \cup Objects("NetworkPolicy") \cup Objects("PodDisruptionBudget")

Jobs ==
    [ uid : Nat \ {0}, gen : Nat \ {0}, spec : AgentSpec, refs : [Inputs -> InputValues],
      first : FirstReads, mark : Marks \cup {None},
      retry : BOOLEAN ]

WorkerTypeOK ==
    /\ pc \in Steps \cup {"idle"}
    /\ pc = "idle" => job = None
    /\ pc # "idle" => job \in Jobs
    /\ pc \in {"write PersistentVolumeClaim", "readStatusView StatefulSet"} =>
          job.first \in Objects("PersistentVolumeClaim")
    /\ pc = "write Service" => job.spec.service # None
    /\ pc = "patchStatus" => job.mark \in Marks
    /\ emitted \in SUBSET Events

\* Every object in the API server and the caches has the shape of its kind, and the
\* worker holds a job, with what the next call needs in it, exactly while it is busy.
TypeOK == ClusterTypeOK /\ WorkerTypeOK

Init ==
    /\ ClusterInit
    /\ pc = "idle"
    /\ job = None
    /\ emitted = {}

-----------------------------------------------------------------------------
(* How a call ends.                                                        *)

Advance ==
    /\ pc' = After(pc)
    /\ job' = [job EXCEPT !.first = Absent]

hash == configHash(job.spec, job.refs)

Marked(j, mark, retry) == [j EXCEPT !.mark = mark, !.retry = retry, !.first = Absent]

\* returnStatusFailure (retry FALSE) and returnErrorWithStatus (retry TRUE).
FailWith(stage, h, reason, message, retry) ==
    /\ job' = Marked(job, [stage |-> stage, hash |-> h, reason |-> reason,
                           message |-> message], retry)
    /\ pc' = "patchStatus"

StageOf(reason) ==
    CASE reason \in ConfigFailures   -> "config"
      [] reason \in StorageFailures  -> "persistence"
      [] reason \in WorkloadFailures -> "workload"

\* Mutant of Fail: the error is reported but not returned.
FailQuietly(error) ==
    FailWith(StageOf(FailureOf(pc)),
             IF pc = "resolveReferencedInputs" THEN None ELSE hash,
             FailureOf(pc), <<"error", error>>, FALSE)

Fail(error) ==
    FailWith(StageOf(FailureOf(pc)),
             IF pc = "resolveReferencedInputs" THEN None ELSE hash,
             FailureOf(pc), <<"error", error>>, TRUE)

Finish(retry) ==
    /\ pc' = "idle"
    /\ job' = None
    /\ queued' = (queued \/ retry)

Fault == faults < MaxFaults /\ faults' = faults + 1

\* A write of k that the API server answers with the error, or by storing o;
\* the answer to a write that took effect may be lost.
Call(k, error, o) ==
    /\ \/ error = "ok" /\ Store(k, o) /\ Advance /\ UNCHANGED faults
       \/ error = "ok" /\ Store(k, o) /\ Fault /\ Fail("Unavailable")
       \/ error # "ok" /\ Fail(error) /\ UNCHANGED <<api, seen, queued, due, faults>>
    /\ UNCHANGED <<uids, churn>>

Local == UNCHANGED cluster

\* A call that fails before it has any effect.
FailedCall ==
    /\ pc \in Steps \ StatusSteps
    /\ Fault
    /\ Fail("Unavailable")
    /\ UNCHANGED <<api, seen, queued, due, uids, churn, emitted>>

-----------------------------------------------------------------------------
(* The calls.                                                              *)

Reconcile ==
    /\ pc = "idle"
    /\ queued
    /\ LET agent == seen[Agent]
           fresh == [ uid |-> agent.uid, gen |-> agent.gen, spec |-> agent.spec,
                      refs |-> [i \in Inputs |-> Absent], first |-> Absent,
                      mark |-> None, retry |-> FALSE ]
       IN  \/ Fault /\ UNCHANGED <<queued, pc, job>>
           \/ /\ queued' = FALSE
              /\ \/ agent = Absent /\ UNCHANGED <<pc, job>>
                 \/ /\ agent # Absent
                    /\ ~agent.spec.valid
                    /\ job' = Marked(fresh, [stage |-> "config", hash |-> None,
                                             reason |-> "InvalidConfig",
                                             message |-> <<>>], FALSE)
                    /\ pc' = "patchStatus"
                 \/ /\ agent # Absent
                    /\ agent.spec.valid
                    /\ job' = fresh
                    /\ pc' = "resolveReferencedInputs"
              /\ UNCHANGED faults
    /\ UNCHANGED <<api, seen, due, uids, churn, emitted>>

\* Mutant of resolveReferencedInputs: a missing input is retried.
resolveWithRetry ==
    /\ pc = "resolveReferencedInputs"
    /\ LET refs    == Snapshot(job.spec, seen)
           missing == missingReferences(job.spec, refs)
       IN  \/ missing = {} /\ job' = [job EXCEPT !.refs = refs] /\ pc' = After(pc)
           \/ missing # {} /\ FailWith("config", None, "MissingReferencedInput",
                                        <<"missing", missing>>, TRUE)
    /\ Local
    /\ UNCHANGED emitted

resolveReferencedInputs ==
    /\ pc = "resolveReferencedInputs"
    /\ LET refs    == Snapshot(job.spec, seen)
           missing == missingReferences(job.spec, refs)
       IN  \/ /\ missing = {}
              /\ job' = [job EXCEPT !.refs = refs]
              /\ pc' = After(pc)
           \/ /\ missing # {}
              /\ FailWith("config", None, "MissingReferencedInput",
                          <<"missing", missing>>, FALSE)
    /\ Local
    /\ UNCHANGED emitted

\* Mutant of Wanted: the owner is the first incarnation.
WantedFirstUid(k, spec) ==
    IF seen[k] = Absent
    THEN [owner |-> job.uid, spec |-> spec, status |-> InitialStatus(k)]
    ELSE [seen[k] EXCEPT !.owner = 1, !.spec = spec]

\* What an update of the cached object, or a create, sends.
Wanted(k, spec) ==
    IF seen[k] = Absent
    THEN [owner |-> job.uid, spec |-> spec, status |-> InitialStatus(k)]
    ELSE [seen[k] EXCEPT !.owner = job.uid, !.spec = spec]

\* Mutant of SetControllerReference: any controller is replaced.
TakeOver(k) == TRUE

\* The object CreateOrUpdate mutates: the one it reads, or what a first read has left
\* in the variable when it finds nothing.
Held(k) == IF seen[k] # Absent THEN seen[k] ELSE job.first

\* SetControllerReference takes over an object that has no controller, or a
\* HermesAgent of this name, whatever its uid.
SetControllerReference(k) == Held(k) # Absent => Held(k).owner # OtherOwner

\* controllerutil.CreateOrUpdate: reads the cache, creates what is not there,
\* updates what differs.  A StatefulSet always differs, in the fields the API
\* server defaults.  A create of an object that was found before carries its
\* resourceVersion and is refused.
CreateOrUpdate(k, spec) ==
    LET new     == Wanted(k, spec)
        refusal == CASE seen[k] = Absent /\ job.first # Absent -> "Invalid"
                     [] seen[k] = Absent /\ job.first = Absent /\ api[k] # Absent ->
                           "AlreadyExists"
                     [] seen[k] # Absent /\ api[k] = Absent -> "NotFound"
                     [] seen[k] # Absent /\ api[k] # Absent /\ api[k] # seen[k] -> "Conflict"
                     [] seen[k] # Absent /\ api[k] = seen[k] /\ Refuses(k, api[k], new) ->
                           "Invalid"
                     [] OTHER -> "ok"
    IN  \/ ~SetControllerReference(k) /\ Fail("AlreadyOwned") /\ Local
        \/ /\ SetControllerReference(k)
           /\ new = seen[k] /\ k # "StatefulSet"
           /\ Advance
           /\ Local
        \/ /\ SetControllerReference(k)
           /\ new # seen[k] \/ k = "StatefulSet"
           /\ \E port \in NodePorts : Call(k, refusal, Admitted(k, seen[k], new, port))

\* client.Delete: by name, with no precondition on what is there now.
Delete(k, ignoreNotFound) ==
    Call(k, IF api[k] = Absent /\ ~ignoreNotFound THEN "NotFound" ELSE "ok", Absent)

Skip == Advance /\ Local

ControlledByJob(k) == seen[k] # Absent /\ seen[k].owner = job.uid

reconcileInlineConfigMap(id) ==
    /\ pc = id
    /\ \/ id \in Generated(job.spec) /\ CreateOrUpdate(id, job.spec.src[id])
       \/ id \notin Generated(job.spec) /\ Skip
    /\ UNCHANGED emitted

\* The gate looks at the StatefulSet as the last pass left it.
cleanupStaleGeneratedConfigMaps ==
    /\ pc = "cleanupStaleGeneratedConfigMaps"
    /\ LET ready == seen["StatefulSet"] # Absent /\ statefulSetReady(seen["StatefulSet"])
       IN  pc' = IF ready THEN After(pc) ELSE "PersistentVolumeClaim"
    /\ UNCHANGED job
    /\ Local
    /\ UNCHANGED emitted

deleteStaleConfigMap(id) ==
    /\ pc = Stale(id)
    /\ LET stale == id \notin Generated(job.spec) /\ ControlledByJob(id)
       IN  (stale /\ Delete(id, TRUE)) \/ (~stale /\ Skip)
    /\ UNCHANGED emitted

reconcilePersistentVolumeClaim ==
    /\ pc = "PersistentVolumeClaim"
    /\ \/ ~job.spec.persistence /\ Skip
       \/ job.spec.persistence /\ job.spec.size = 0 /\ Fail("NotAQuantity") /\ Local
       \/ /\ job.spec.persistence /\ job.spec.size # 0
          /\ job' = [job EXCEPT !.first = seen["PersistentVolumeClaim"]]
          /\ pc' = WriteStep(pc)
          /\ Local
    /\ UNCHANGED emitted

persistentVolumeClaimImmutableFieldDrift(s, existing) ==
    LET desired == buildPersistentVolumeClaim(s)
    IN  {f \in ImmutableFields :
            \/ f = "accessModes" /\ existing.modes # desired.modes
            \/ f = "storageClassName" /\ s.class # None /\ existing.class # desired.class}

\* The second read of the claim and what follows.  Found by the first read: only
\* the size may change.  Not found: the whole spec is set.
writePersistentVolumeClaim ==
    /\ pc = "write PersistentVolumeClaim"
    /\ LET k       == "PersistentVolumeClaim"
           exists  == job.first # Absent
           drift   == persistentVolumeClaimImmutableFieldDrift(job.spec, Held(k).spec)
           desired == buildPersistentVolumeClaim(job.spec)
       IN  \/ ~exists /\ CreateOrUpdate(k, desired)
           \/ /\ exists /\ drift # {}
              /\ FailWith("persistence", hash, "PersistentVolumeClaimSpecDrift",
                          <<"fields", drift>>, TRUE)
              /\ Local
           \/ /\ exists /\ drift = {}
              /\ CreateOrUpdate(k, [Held(k).spec EXCEPT !.size = desired.size])
    /\ UNCHANGED emitted

reconcileStatefulSet ==
    /\ pc = "StatefulSet"
    /\ CreateOrUpdate("StatefulSet", buildStatefulSet(job.spec, hash))
    /\ UNCHANGED emitted

\* Mutant of checkOptional: a disabled child is left alone.
checkOptionalNoDelete(k) ==
    /\ pc = k
    /\ \/ ~Enabled(k, job.spec) /\ Skip
       \/ /\ Enabled(k, job.spec)
          /\ seen[k] # Absent => ControlledByJob(k)
          /\ job' = [job EXCEPT !.first = seen[k]]
          /\ pc' = WriteStep(k)
          /\ Local
       \/ /\ Enabled(k, job.spec) /\ seen[k] # Absent /\ ~ControlledByJob(k)
          /\ Fail("NotOwned") /\ Local
    /\ UNCHANGED emitted

\* Mutant of checkOptional: a child that is not asked for is written when it is not there.
checkOptionalAsIfEnabled(k) ==
    /\ pc = k
    /\ LET mine == ControlledByJob(k)
       IN  \/ seen[k] # Absent /\ ~mine /\ Fail("NotOwned") /\ Local
           \/ /\ seen[k] = Absent \/ mine
              /\ job' = [job EXCEPT !.first = seen[k]]
              /\ pc' = WriteStep(k)
              /\ Local
    /\ UNCHANGED emitted

\* reconcileService, reconcileNetworkPolicy, reconcilePodDisruptionBudget up to
\* CreateOrUpdate: who controls the object decides.
checkOptional(k) ==
    /\ pc = k
    /\ LET enabled == Enabled(k, job.spec)
           mine    == ControlledByJob(k)
       IN  \/ ~enabled /\ ~mine /\ Skip
           \/ ~enabled /\ mine /\ Delete(k, FALSE)
           \/ enabled /\ seen[k] # Absent /\ ~mine /\ Fail("NotOwned") /\ Local
           \/ /\ enabled /\ (seen[k] = Absent \/ mine)
              /\ job' = [job EXCEPT !.first = seen[k]]
              /\ pc' = WriteStep(k)
              /\ Local
    /\ UNCHANGED emitted

\* Mutant of serviceSpec: the node port is left to the API server.
serviceSpecFresh == buildService(job.spec)

\* A Service that already has a node port keeps it.
serviceSpec ==
    LET desired == buildService(job.spec)
    IN  IF desired.type # "ClusterIP" /\ seen["Service"] # Absent
        THEN [desired EXCEPT !.nodePort = seen["Service"].spec.nodePort]
        ELSE desired

writeOptional(k) ==
    /\ pc = WriteStep(k)
    /\ CreateOrUpdate(k, IF k = "Service" THEN serviceSpec
                                          ELSE Desired(k, job.spec, job.refs))
    /\ UNCHANGED emitted

readClaim ==
    /\ pc = "readStatusView"
    /\ job' = [job EXCEPT !.first = seen["PersistentVolumeClaim"]]
    /\ pc' = After(pc)
    /\ Local
    /\ UNCHANGED emitted

readStatefulSet ==
    /\ pc = "readStatusView StatefulSet"
    /\ LET view == readStatusView(job.spec, job.first, seen["StatefulSet"])
       IN  job' = Marked(job, [stage |-> "view", hash |-> hash, view |-> view], FALSE)
    /\ pc' = After(pc)
    /\ Local
    /\ UNCHANGED emitted

\* A failed read ends the pass without a status.
failedStatusView ==
    /\ pc \in {"readStatusView", "readStatusView StatefulSet"}
    /\ Fault
    /\ Finish(TRUE)
    /\ UNCHANGED <<api, seen, due, uids, churn, emitted>>

mutate(st) ==
    LET mark == job.mark
        with == populateStatusMetadata(st, job.spec, mark.hash)
    IN  CASE mark.stage = "config" -> markConfigFailure(with, mark.reason, mark.message)
          [] mark.stage = "persistence" ->
                markPersistenceFailure(with, mark.reason, mark.message)
          [] mark.stage = "workload" -> markWorkloadFailure(with, mark.reason, mark.message)
          [] mark.stage = "view" -> markView(with, mark.view)

\* Mutant of stamped: counts the passes.
stampedCount(latest) == [latest.status EXCEPT !.observedGeneration = @ + 1]

stamped(latest) == [latest.status EXCEPT !.observedGeneration = latest.gen]

\* The status is computed over the cached agent and patched onto the stored one,
\* whichever generation or uid that has by now.  The read or the patch may fail, or
\* the answer to the patch be lost.
patchStatus ==
    /\ pc = "patchStatus"
    /\ LET latest == seen[Agent]
           base   == latest.status
           after  == mutate(stamped(latest))
           stored == [api[Agent] EXCEPT !.status = mergePatch(base, after, @)]
           patch  == /\ api' = [api EXCEPT ![Agent] = stored]
                     /\ seen' = SeenAfter(Agent, stored)
       IN  \/ /\ latest # Absent => after = base
              /\ Finish(job.retry)
              /\ UNCHANGED <<api, seen, faults, emitted>>
           \/ /\ latest # Absent /\ after # base /\ api[Agent] = Absent
              /\ Finish(TRUE)
              /\ UNCHANGED <<api, seen, faults, emitted>>
           \/ /\ latest # Absent /\ after # base /\ api[Agent] # Absent
              /\ patch
              /\ emitted' = statusEventsForTransition(base, after)
              /\ Finish(job.retry)
              /\ UNCHANGED faults
           \/ /\ Fault
              /\ \/ latest # Absent /\ after # base /\ api[Agent] # Absent /\ patch
                 \/ UNCHANGED <<api, seen>>
              /\ Finish(TRUE)
              /\ UNCHANGED emitted
    /\ UNCHANGED <<due, uids, churn>>

-----------------------------------------------------------------------------
\* Mutant of Restart: the queue is not filled again.
RestartEmpty ==
    /\ Disturb("restart")
    /\ pc' = "idle" /\ job' = None /\ seen' = api /\ queued' = FALSE /\ due' = {}
    /\ UNCHANGED <<api, uids, faults, emitted>>

\* The manager restarts, or another replica becomes leader: caches and queue are
\* filled from the API server.
Restart ==
    /\ Disturb("restart")
    /\ pc' = "idle"
    /\ job' = None
    /\ seen' = api
    /\ due' = {}
    /\ queued' = (api[Agent] # Absent \/ \E k \in Children : OwnedByAgent(api[k]))
    /\ UNCHANGED <<api, uids, faults, emitted>>

Worker ==
    \/ Reconcile
    \/ resolveReferencedInputs
    \/ \E id \in ConfigIds : reconcileInlineConfigMap(id) \/ deleteStaleConfigMap(id)
    \/ cleanupStaleGeneratedConfigMaps
    \/ reconcilePersistentVolumeClaim
    \/ writePersistentVolumeClaim
    \/ reconcileStatefulSet
    \/ \E k \in OptKinds : checkOptional(k) \/ writeOptional(k)
    \/ readClaim
    \/ readStatefulSet
    \/ failedStatusView
    \/ patchStatus
    \/ FailedCall

Environment == (Users \/ ControlPlane \/ Delivery) /\ UNCHANGED <<pc, job, emitted>>

Next == Worker \/ Environment \/ Restart

Spec == Init /\ [][Next]_vars

(* The worker, the informers and the control plane do not stop; users,     *)
(* pods that fail and volumes that are lost owe nothing.                   *)
Fairness ==
    /\ WF_vars(Worker)
    /\ \A k \in Kinds : WF_vars(Deliver(k) /\ UNCHANGED <<pc, job, emitted>>)
    /\ WF_vars(ObserveStatefulSet /\ UNCHANGED <<pc, job, emitted>>)
    /\ WF_vars(AdjustPods /\ UNCHANGED <<pc, job, emitted>>)
    /\ WF_vars(BindClaim /\ UNCHANGED <<pc, job, emitted>>)
    /\ WF_vars(CollectGarbage /\ UNCHANGED <<pc, job, emitted>>)

FairSpec == Spec /\ Fairness
=============================================================================
