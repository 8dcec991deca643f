# TLA+ model of the Hermes agent operator

The repository is a Kubernetes operator for one custom resource, `HermesAgent`.
From the spec of an agent, and from the ConfigMaps and Secrets the spec refers
to, the operator keeps a StatefulSet, a PersistentVolumeClaim, up to two
generated ConfigMaps, a Service, a NetworkPolicy and a PodDisruptionBudget, and
reports in the agent's status. The core is
`internal/controller/hermesagent_controller.go` (the reconciler, its watches,
its status) with `internal/controller/hermesagent_resources.go` (what the
children look like). `HermesReconciler` and the modules below it model that core,
running against a cluster that moves between any two of its calls; `Admission`,
`Rollout` and `WatchRouting` model what comes before a spec is stored, what becomes
of it in the pods, and what several agents of one namespace share.

Paths below are relative to the repository; `controller.go` and `resources.go`
are the two files just named, `webhook.go` is
`internal/webhook/v1/hermesagent_webhook.go`.

## The system's parts

| Part | State it keeps | Operations | Interacts through |
|---|---|---|---|
| Reconciler (`controller.go` 86-180, 404-710) | nothing across passes; in a pass: the agent it read, the inputs, a first read of a child | `Reconcile` and the `reconcile*` functions, `cleanupStaleGeneratedConfigMaps` | API server writes, informer cache reads, work queue |
| Status and events (`controller.go` 711-1104) | `status` of the agent | `mark*Failure`, `readStatusView`, `patchStatus`, `statusEventsForTransition` | merge patch of the status subresource, event recorder |
| Watches (`controller.go` 183-402) | the work queue | `SetupWithManager`, `findReferencingAgents` | informers, `GenerationChangedPredicate`, owner references |
| Desired resources, config plan (`resources.go`) | none, functions | `build*`, `buildConfigPlan`, the hash, the validation of sources | called by the reconciler with the snapshot of the inputs |
| API types (`api/v1`) | none | defaults by kubebuilder markers | the CRD |
| Admission webhook (`internal/webhook/v1`) | none, functions | `Default`, `Validate*` | API server, before an agent is stored |
| Manager (`cmd/main.go`) | leader election, flags | start, stop, health | one process runs the workers |
| Cluster (external) | every object, the caches, uids, node ports | optimistic concurrency, defaulting, immutability, garbage collection, StatefulSet and volume controllers | everything |
| Legacy types, deep copies, runtime image, chart, tests | none the operator acts on | none | none |

What is hard here:

- *A pass is not atomic.* It is about a dozen calls. Users, other controllers,
  the garbage collector and a second incarnation of the agent act between them.
- *Reads are cached.* A pass may read an old agent, an old child, or the result
  of its own last write not yet visible; `CreateOrUpdate` re-reads, `Delete` and
  the status patch carry no precondition.
- *Some failures are not retried.* An invalid or incomplete configuration ends
  the pass without an error, so only a watch event can wake the agent again.
- *Status is overwritten by stages.* Each failing stage writes a part of the
  status and leaves the rest to what an earlier pass wrote, through a merge
  patch over a cached base.
- *Crashes.* The manager may stop between any two calls; nothing but the API
  server's state survives.
- *Rules exist twice.* Defaults and checks are in the schema, in the webhook and in
  the controller, and the API server has its own; webhooks may be off.
- *Content reaches pods by another way than the template.* A hash in the template
  rolls the pods; the files themselves are read by the kubelet when a container
  starts, from objects that others, or the operator itself, overwrite in place.
- *Agents share names.* Inputs are shared on purpose, the names of generated
  ConfigMaps by accident (`a`'s second file and `a-gateway`'s first).

What makes each part correct:

- reconciler: when the operator sleeps the children fit the current spec and
  inputs; objects of others are left alone; children never go back to an older
  incarnation; a node port survives updates;
- status: coherent after any sequence of failures; complete and current when the
  operator sleeps; generations only advance; drift is reported; readiness never
  changes silently;
- watches and queue: no lost wake-up, also on shared objects, and no self-inflicted
  loop; an agent that fails for ever holds up no other;
- admission: what is admitted runs, the copies of the rules agree, switching the
  webhooks on changes no running agent;
- inputs and rollout: the hash changes exactly with what pods see, what is reported
  missing is what keeps a pod from starting, every pod ends up with the current
  content.

`PROJECT.json` lists the hazards line by line with the properties that cover them.

## Modules

```
HermesResources   the spec, the config plan, the desired children     resources.go
  HermesStatus    the status, marks, merge patch, events               controller.go 711-1104
    Cluster       API server, caches, queue, users, control plane      external; watches from controller.go
      HermesReconciler   the pass, call by call; Next, fairness        controller.go 86-710
        HermesProperties        what is promised; refines Ownership
          MCHermes              instances for TLC
          HermesProofs          type correctness, proved
            HermesSafetyProofs  who may change a child, proved
              HermesControlProofs  the refinement of Ownership, node ports, proved
              HermesStatusProofs   the status and its events, proved
                HermesConvergenceProofs  children and status converge, proved
Ownership         abstract: who controls an object of a given name     (no code of its own)

ReferencedInputs  keys, items, BinaryData, snapshots, missing, hash    resources.go 563-842, 1087-1149
  Rollout         passes, StatefulSet controller, pods, kubelet        controller.go, pods external
    MCRollout
    RolloutProofs   hash, missing inputs, NetworkPolicy, proved
  WatchRouting    several agents, shared objects, one queue            controller.go 181-492
    MCRouting
    RoutingProofs   others' ConfigMaps, no lost wake-up, proved

Admission         schema, webhooks, the controller's own rules         webhook.go, api/v1, resources.go
  MCAdmission
  AdmissionProofs   the copies of the rules agree, proved
```

Indentation is EXTENDS. Definitions that model a function have that function's
name; `PROJECT.json` maps them to lines. There are four state machines. Each
abstracts what the others model:

| Module | One agent or more | Caches | Inputs | Pods | Spec |
|---|---|---|---|---|---|
| `HermesReconciler` | one, re-created | lag, per kind | one content each | ready or not | the fields a pass branches on |
| `Rollout` | one | current | keys, text and bytes | by revision and content | sources and update strategy |
| `WatchRouting` | several | lag; a stream of events per object | keys | none | sources |
| `Admission` | one | none | none | none | every field that is defaulted or checked |

### The reconciler

**State.** `api` holds the objects by kind (one agent, its seven children, the
inputs), `seen` the informer caches, `queued` the agent's entry in the work
queue, `due` the kinds with an undelivered watch event that will wake the controller
(a set: what counts is that there is one). `pc` names the next call of the worker and `job` is what `Reconcile` has
on its stack: uid, generation and spec it read, resolved inputs, the first read
where a function reads twice (`first`), and, once the outcome is known, what the
closure passed to `patchStatus` captured (`mark`). `emitted` holds the events of
the last patch. `uids`, `churn` and `faults` are bounds.

**Actions.** One per call of the pass:
`Reconcile` (Get of the agent, plan validation), `resolveReferencedInputs`,
`reconcileInlineConfigMap`, `cleanupStaleGeneratedConfigMaps` and
`deleteStaleConfigMap`, `reconcilePersistentVolumeClaim` (first read) and
`writePersistentVolumeClaim`, `reconcileStatefulSet`, `checkOptional` (ownership
check or delete) and `writeOptional` for Service, NetworkPolicy and
PodDisruptionBudget, `readClaim` and `readStatefulSet` (`readStatusView`),
`patchStatus`. Every call may fail before it has an effect, and every write may
take effect and lose its answer. `Restart` stops the worker anywhere and fills
caches and queue again. Everybody else is in `Cluster`.

### Ownership

`Ownership` says in four actions who may come to control an object: an incarnation
of the agent takes what is free, uncontrolled or an earlier incarnation's; what
something else controls can only disappear. `HermesProperties` instantiates it with
the children's owners (`Control == INSTANCE Ownership WITH holder <- ..., born <- uids`)
and `ControlRefined` says that the reconciler with everything around it implements it.

### Admission

A document goes through the schema's defaults (`decoded`), the webhook's
(`Default`), the schema's rules and the webhook's (`validateHermesAgent` and the
functions under it, one operator each) into `stored`; `Reconcile` runs the
controller's checks and builders over it and takes the API server's verdict on each
child. `webhooks` is off, serving or unreachable and may change at any time.
`Document` and `HermesAgentSpec` are the shapes of a spec as submitted and as Go
decodes it. Texts are members of `Text`; a path is its segments, a CIDR block the set of its addresses,
`Bad` any text the parser of a field refuses.

### Referenced inputs and rollout

`ReferencedInputs` has the operators: an object with text and bytes per key, the
three kinds of snapshot, which of them count as missing, the hash, the terminal
backend, and beside them what the kubelet makes of the same reference. Base64 is an
injective function whose values are none of the contents; a user who stores the
Base64 text of the bytes that were there before would not change the hash.

`Rollout` adds a pass with current caches (the inputs, the generated ConfigMaps one
by one, the cleanup, the StatefulSet, the NetworkPolicy, the status), cut short
anywhere by `Interrupt`; the StatefulSet controller with revisions, partitions,
OnDelete and ordered pods; and the kubelet, which reads the objects at the moment a
container starts. Watches are one step here: they queue the agent when its spec,
an input it refers to, or the StatefulSet's status changes.

### Several agents

`WatchRouting` has agents, objects and their caches, a queue, and one worker
(`MaxConcurrentReconciles` is 1 by default). Each object has a stream of watch events,
so an owner that appears and disappears between two deliveries is still seen. A pass
is cut down to what agents share: snapshots, generated ConfigMaps, their cleanup
(with the StatefulSet ready or not), the template hash.

### What is abstracted in the reconciler

- File contents are model values; an input holds the content of the one key that
  is asked for, lacks it, or is absent. SHA-256 is taken to be injective: the
  hash *is* the hashed plan.
- A condition message is a tag with the data its text is made from. Timestamps
  (`lastReconcileTime`, `lastTransitionTime`) are left out, so a status that
  differs only in them counts as the same; `patchStatus` itself stamps the time
  only when something else has changed.
- Of the pod template only what the reconciler's behaviour depends on is kept:
  hash, image, claim, port, mounted ConfigMaps. Probes, security contexts,
  scheduling and the rules of the NetworkPolicy other than port 22 are not there.
- Several undelivered watch events of one object are delivered together: the cache
  passes over the versions between, but the wake-up of each counts (`due`). A child
  that is created and deleted again between two deliveries leaves a cache that never
  shows it and still wakes the agent; deciding by the difference between the cached
  and the stored version would lose that event, and `ChildrenConverged` with it.
- A StatefulSet is updated in every pass, since the fields the API server fills
  in make the mutated object differ from the cached one; an update that changes
  nothing leaves the stored object, and hence raises no event.
- `SetControllerReference` compares group, kind and name of the owner but not
  its uid, so a child of an earlier incarnation is taken over on update. The
  ownership checks before it (`metav1.IsControlledBy`) do compare the uid.
- One agent, one worker. controller-runtime never runs two passes for one agent
  at a time, so a second worker would act for another agent.
- A cached read and the write that follows it at once are one step; what may
  happen between the two is what a lagging cache of that kind allows, since the
  write then meets an object the read did not show.
- The resourceVersion is not a field: an update conflicts when the stored object
  differs from the cached one. Two writes that restore an object exactly would
  conflict in the real server and do not here.

## Runs

In the runs of `MCHermes`, `LaggyKinds` says which caches may lag, `Disturbances`
what users and the cluster do, `Specs` what users submit.

| Run | Question | Checked |
|---|---|---|
| `inputs` | Inputs appear, change, lose their key and vanish behind a lagging cache, specs are changed and refused, calls fail or lose their answer, the manager restarts between any two calls. Does an agent ever wait for something that is there? | `TypeOK`, `ChildrenConverged`, `StatusConverged`, `EventuallyQuiet` |
| `optional` | Optional children are switched on, off and changed while others create objects under their names. | `ChildrenConverged`, `ForeignKept`, `NodePortKept`, `ControlRefined` |
| `storage` | Claims pending, bound, lost, growing, shrinking, immutable; pods fail; the spec asks for what the claim cannot become, and back. | `StatusCoherent`, `ReadinessAnnounced`, `DriftReported` |
| `lag` | The caches of a ConfigMap and the StatefulSet lag; children (the claim too, between its two reads) are deleted and scaled by others, so that what the operator makes again may be gone before its cache shows it; calls fail with conflicts; sizes are unparsable. | `ChildrenConverged`, `StatusConverged`, `StatusCoherent` |
| `agentcache` | The caches of the agent and of its input lag against each other; the agent is deleted and created again under a worker that acts for the old one; the garbage collector runs. | `ChildrenConverged`, `OwnersMoveForward`, `ControlRefined`, `ObservedGenerationAdvances` |
| `admission` (`MCAdmission`) | About 1800 documents with fields at their limits, through webhooks on, off and unreachable. | `AdmittedRuns`, `BackstopAgrees`, `DefaultsHarmless` |
| `rollout` (`MCRollout`) | Specs and inputs change while pods are replaced, lost and started, passes cut short. | `MissingIsStuck`, `PolicyFollowsConfig`, `HashTracksContent`, `EventuallyFresh` |
| `routing` (`MCRouting`) | Two agents share an input and the name of a generated ConfigMap; one refers to a ConfigMap generated for the other. | `NoLostWakeup`, `OthersConfigMapsKept`, `Served` |
| `conditions`, `drift`, `accepted`, `partition` | Four statements of the API's comments, the docs and a status message that the code does not keep (below). | one property each, violated |

`ChildrenConverged` and `StatusConverged` say convergence as safety: in no
reachable state is the operator asleep (nothing queued, nothing running, every
event delivered) with a child or the status out of date. Together with
`EventuallyQuiet` (it does fall asleep) this is level-triggered reconciliation.
Where a claim cannot follow the spec, the operator never sleeps; there
`DriftReported` says what it must show meanwhile. `NoLostWakeup` is the same kind of
property for several agents; there an agent whose name is taken never sleeps, and
`Served` says that it, and the others, still get their turn.

What the properties leave out, each named in the property itself: `AdmittedRuns`
holds outside `Gap`, the list of what the webhook lets through and the API server
refuses; `MissingIsStuck` leaves out an env value that a ConfigMap holds as bytes,
`PolicyFollowsConfig` a config.yaml that a ConfigMap holds as bytes (the first is not
reported missing and the pod does not start, the second falls back to
`spec.terminal.backend`); `EventuallyFresh` assumes RollingUpdate without a
partition, that no pod is stuck on an object that is gone (ordered pods wait for it),
and edits in which no content comes back: inputs that change and change back between
two passes have the same hash, and a pod that started in between keeps what it read.

**Bounds.** `MaxUid` incarnations, `MaxGen` generations, `MaxChurn`
disturbances, `MaxFaults` failed calls, `Specs` of up to five specs that differ
in the fields the run is about. Two generations are enough for a worker to hold
an old spec while a new one is stored; two incarnations for an old worker against a
new agent; two disturbances for one to undo the other inside a pass (in `lag`, for a deletion the operator mends
and one that hides the mending from the cache); one fault at each call in turn covers
each error path with everything before it done and everything after it undone.
In `lag` the claim's cache follows at once and no second pod becomes ready: with three
lagging caches TLC did not finish in five minutes, and the theorems `ChildrenConverge`
and `StatusConverges` hold for every set of lagging children and any number of pods.
`inputs` needs one input (a second would only add independent wake-ups) with
four values: two contents, no key, absent. `agentcache`
leaves out the second content, which doubles the states and adds no wake-up, and its
input starts complete or absent (it may lose its key later).
`ControlRefined` is checked against other owners in `optional` and against a second
incarnation in `agentcache`. `rollout` has two pods, so that one can
run the old and one the new revision, two inputs (a ConfigMap with text and bytes, a
Secret) of two keys, specs that use each kind of reference, two edits, one eviction
and one cut pass; `HashTracksContent` compares the inputs of each pass with every
object that could take the place of one of them. `routing` has the two agents whose
names collide, four names and two edits. In `admission` a document differs from a
plain one in one section, or in two sections the rules relate (mount paths and
secretRefs, replicas and persistence).

**Deadlock.** `CHECK_DEADLOCK FALSE` everywhere: with nothing to do the operator
waits, and once the environment's bounds are used up it waits forever.

**Fairness.** Weak fairness of the worker (the queue hands out its entry, a call
returns), of each informer, of the StatefulSet controller, the volume binder and
the garbage collector. controller-runtime's workers and informers loop for as
long as the process lives, and the others are control loops of the same kind.
Users, failing pods, lost volumes, faults and restarts have none. A retry after
an error is put back at once; the backoff is a delay, and delays are already
there in the interleaving. In `Rollout` the worker, the StatefulSet controller and
the kubelet of each pod are weakly fair. In `WatchRouting` each agent's turn is
strongly fair: the queue is first in, first out and a failing agent comes back only
after its back-off, so an agent that is queued again and again cannot be passed over
for ever; its turn is disabled whenever the one worker is busy, so weak fairness
would not say this.

**Mutants.** Each property of each passing run has a mutant in `PROJECT.json`:
a mapped definition with a plausible bug (a wake-up filtered out, an error not
returned, a field not reset, an owner kept), under which TLC finds the property
violated. The mutated forms stand before the originals, marked as such.

## Where the code and what is said of it differ

- `conditions`: with a lagging cache of the agent, a pass can find the cached
  status already right, skip the patch, and leave an older stored status wrong;
  the later event is a status update and is filtered. "conditions represent the
  current state" (`:424`) fails until something else wakes the agent. The same
  cause, a merge patch over a base that is not the stored status, also mixes
  fields of two statuses. This is why `StatusConverged` and `StatusCoherent` are
  checked with a current cache of the agent.
- `drift`: generated ConfigMaps are cleaned up before the claim is reconciled.
  If the claim then stops the pass, the unchanged StatefulSet mounts a ConfigMap
  that is gone, under a status that says "Workload state is unchanged".
- `accepted`: the webhook admits specs whose children the API server refuses (the
  cases of `Gap`: ports beyond 65535, mount paths used twice, and others), although
  "invalid specs are rejected on create and update instead of being accepted and then
  failing later in reconcile status" (`README.md:248`).
- `partition`: the generated ConfigMap keeps its name and is overwritten in place. A
  pod below the partition that restarts comes from the old revision and reads the new
  text, although such pods "wait for an explicit strategy change before updating"
  (`docs/api-reference.md:324`). In `MCPartition.cfg` the text changes only once both
  pods run the first revision.

Two more differences were met and are not runs. `patchStatus` stamps the generation of
its own read of the agent, so `observedGeneration` ("the last processed metadata
generation") can be one the pass did not work from; `ObservedGenerationAdvances` is
what does hold. And a delete goes by name after an ownership check on the cache, so an
object created meanwhile can be deleted; `ForeignKept` says so in its exception.

## Proofs

Eighteen theorems, each the statement of a property some run checks, hold for every
value of the constants. What they assume are the named `ASSUME`s, which TLC evaluates
in every run whose module extends them:

- `ResourcesAssumption`, `StatusAssumption`, `ObjectsAssumption`: the special values
  (`None`, `Absent`, `NoKey`) are none of the ordinary ones, the default class is a
  class, node ports are positive;
- `ClusterAssumption`: specs are specs, lagging kinds are kinds, nobody else creates a
  StatefulSet under the agent's name, inputs are not named like children, bounds are
  naturals. Nothing is assumed about which caches lag or which disturbances occur;
- `InputsAssumption`, `RolloutAssumption`: Base64 is injective and its values are no
  contents; the specs are those with a config plan (`HasPlan`; the others end in
  `InvalidConfig`, see `Admission`); inputs and edits are objects of their kind;
- `RoutingAssumption`: specs, objects and edits have their shape, the two files of one
  agent have different names (those of two agents need not), and users hand control of
  an object to no agent;
- `AdmissionAssumption`: documents have the shape the CRD gives them, `Unset` and `Bad`
  are none of the ordinary values, the default texts are texts.

**The reconciler** (`HermesProofs`, `HermesSafetyProofs`, `HermesControlProofs`)

- `TypeCorrect`: `Spec => []TypeOK`. `TypeOK` is inductive as it stands because it says
  of `pc` and `job` what the next call relies on: a claim or nothing in `first` where
  the second read of a claim follows, a service in the spec where the Service is
  written, a mark where the status is patched. The lemmas go bottom up: what the
  resource functions return, what a mark and the merge patch make of a status, what
  `Store` and `CreateOrUpdate` leave in `api` and `seen`, then one lemma per action.
- `ForeignSafe`: `Spec => ForeignKept`. It rests on the invariant `Current` (a cache
  that does not lag equals the store) and on `ChildWrites`, which names the two ways
  the operator changes a child: an update of exactly the object it has cached, past
  `SetControllerReference`, or a delete of what the cache says it controls.
- `OwnersForward`: `Spec => OwnersMoveForward`. The property is not inductive;
  `UidsInOrder` is: the owner of every stored child is at most the uid the worker acts
  for, that uid is at most the cached agent's, that one at most the stored agent's, and
  all are at most `uids`. Without the chain through the cache and the job nothing keeps
  a worker from writing for a uid older than the owner it meets.
- `ControlImplemented`: `Spec => ControlRefined`, the refinement of `Ownership`. From
  `UidsInOrder` and the same description of writes; what is added is that a step writes
  one object at most (`OneWrite`), so that it is one step of `Ownership` or a stutter,
  and that the uid which takes a child has been given out.
- `NodePortSafe`: `Spec => NodePortKept`. The updated object is the cached one, which
  the conflict check makes the stored one, and the mutation keeps its port.

**The status** (`HermesStatusProofs`). The first two are stated for
`Agent \notin LaggyKinds`, the condition under which they are checked too: run
`conditions` shows what goes wrong without it.

- `StatusStaysCoherent`: `=> []StatusCoherent`. The invariant `SoundInv` adds to the
  types and `Current` that a view waiting to be applied fits together (`MarkSound`) and
  that the stored status does. Each mark of a failed stage is shown to make a coherent
  status of a coherent one, and the merge patch over a current base to store exactly
  what was computed.
- `ReadinessIsAnnounced`: `=> ReadinessAnnounced`, by cases on the conditions that
  differ when Ready does.
- `GenerationsAdvance`: `Spec => ObservedGenerationAdvances`, with any cache lagging.
  `GenerationsInOrder` relates the observed generation and the generation of the cached
  and of the stored agent.

**Convergence** (`HermesConvergenceProofs`). Both theorems say that nothing is wrong
while the operator sleeps. Neither property is inductive: it speaks of quiet states
only, and what makes them right happens in the pass before. The invariant follows that
pass. It says of every state

- that no event is lost (`NoEventLost`): where a cache is behind in something that must
  wake the controller, the event is in `due`;

and, as long as nothing is queued (`Progress`),

- that the worker acts for what its caches show (`JobCurrent`): the job has the uid and
  the spec of the cached agent and the cached content of the inputs;
- that the children the pass has behind it are what that agent wants, or their event is
  due (`WorkKept`, by `Done` and `Swept`, the calls that lie behind each child), unless
  the pass ended early and will be retried, or waits for a user (`Excused`).

A step of anybody is then shown to be `Calm`: it queues a pass, or it changes neither
the agent and the inputs the caches show nor, without an event that is now due, a child
the agent controls. This is where the predicates of the watches matter: a filtered
update leaves uid, generation and spec alone, an event on a child passes when it has or
had an agent as controller, and an event on an input is dropped only when the cached
agent does not refer to it. A calm step keeps what fits fitting (`FitsStays`): a child
that is to be there is controlled by the agent, so every change of it is told; one that
is not to be there can only come under the agent's control by a change that is told.
Of the worker's own calls there is one lemma each: a call fails and is retried, or what
it leaves is what the spec asks for, after the API server's defaults too (`AdmittedIs`,
`AdmittedClaim`, `AdmittedService`).

- `ChildrenConverge`: `Spec => []ChildrenConverged`, with any caches lagging.
- `StatusConverges`: `Agent \notin LaggyKinds /\ Spec => []StatusConverged`. `Reported`
  adds what the pass knows of the status: the claim it has read, the mark it hands to
  `patchStatus` and the status it has patched are those of the claim and the
  StatefulSet as they are, or an event of theirs is due (`StatusKnown`). The
  StatefulSet, and the claim where there is one, are controlled by the agent by then
  (`ViewHeld`), which is why the convergence of the children comes first. `MarksAgree`
  shows that a mark leaves nothing of the status it is applied to but the generation.
  Run `conditions` shows why the agent's cache must be current.

Trying this proof showed that the model had to be changed: an earlier `Deliver` decided
by the difference between the cached and the stored object whether to wake, and lost
the events described under *What is abstracted*. Informers lose none, so `due` was
added.

**Several agents** (`RoutingProofs`), for any number of agents, names and objects.

- `OthersKept`: `Spec => OthersConfigMapsKept`. Invariant `Ordered`: the last
  undelivered version of an object is the stored one, and among the versions from the
  cached one to the stored one no two different agents appear as controller
  (`OneController`). Hence an agent that the cache shows in control is in control, or
  nobody is.
- `NothingLost`: `Spec => []NoLostWakeup`. Invariant `Wakeful`: each cached agent is
  queued, or is being worked on with what was resolved still current as far as the
  delivered events tell, or is settled. An event that unsettles an agent is shown to
  queue it, through the owner reference or through `findReferencingAgents`.

**Inputs and rollout** (`RolloutProofs`), for all keys, contents, specs with a plan.

- `HashExact`: `Spec => HashTracksContent`. The lemmas `SnapshotsTell` and
  `SnapshotsSelect` say that a snapshot separates what pods tell apart, and depends on
  nothing but the selected keys.
- `MissingExact`, `PolicyExact`: `=> []MissingIsStuck`, `=> []PolicyFollowsConfig`.
  Invariant `Abreast`: an agent that is not queued has been, or is being, reconciled
  from the inputs as they are now. `MissingStops` compares the operator's notion of
  missing with the kubelet's for every kind of reference; `HeldText` and
  `NamedBackend` compare the text the operator parses with the text the pod reads.

**Admission** (`AdmissionProofs`), for every document. The invariant `Kept`: what is
stored has the shape of a spec and an image repository (however it got there, also
through a touch), an outcome is about the spec stored now, and an admitted spec still
satisfies `validateHermesAgent`.

- `BackstopHolds`: `Spec => []BackstopAgrees`. The functions are paired: `SourcesAgree`,
  `ModesAgree`, `ItemsAgree`, `FileMountsAgree`, then `PlansAgree`. The controller
  compares each mount with the earlier ones, the webhook with all others (`Earlier`).
- `AdmittedAlwaysRuns`: `Spec => []AdmittedRuns`. One lemma per child says that
  validation without a `Gap` gives an object the API server takes (`ClaimPasses`,
  `StatefulSetPasses`, `ServicePasses`, `NetworkPolicyPasses`), `Verdict` that a pass
  comes to its first failing stage. So `Gap` is the complete list of what the webhook
  lets through wrongly, as far as the modelled rules of the API server go.
- `DefaultsChangeNothing`: `Spec => DefaultsHarmless`. `Defaulted` gives the fields of
  `Default(s)`, `SameProbes` and `SameChildren` that the controller's own defaults
  absorb the webhook's.

The inductive invariants hold in TLC on the instances of the runs as well: `Abreast` on
`MCRollout.cfg`, `Wakeful` and `Ordered` on `MCRouting.cfg`, `Kept` on
`MCAdmission.cfg`, `SoundInv` on `MCStorage.cfg`, `GenerationsInOrder` and
`UidsInOrder` on `MCAgentCache.cfg`, `NoEventLost`, `Progress` and `Reported` on that
of `MCLag.cfg` without a claim, all children's caches lagging and with restarts.

Only model-checked: the liveness properties (`EventuallyQuiet`, `DriftReported`,
`EventuallyFresh`, `Served`). Every other property of a passing run is a theorem.
Liveness under fairness and `ENABLED` are beyond the
prover, as are induction over data and RECURSIVE operators, of which the project has
none.

## Not modelled, and why

- Legacy API types: the same as `api/v1` field by field, with conversion strategy
  `None`; an agent written through them is the same document.
- Generated deep copies, chart, manifests: no behaviour.
- Runtime image: a start script; the program it starts, which writes the files the
  probes read, is not in the repository. Probe commands, labels, security contexts,
  scheduling fields and resources are copied into the pod template and no property
  depends on them.
- Metrics, TLS, health endpoints, other flags of the manager: configuration and I/O.
- Events lost by a crash after the patch: events are best effort.
- Rules of the API server that depend on the text of a name or a label, and a `valueFrom`
  with a source other than a ConfigMap or a Secret: `AdmittedRuns` is about fields the
  webhook or the controller decides on.
- An error of `List` in `findReferencingAgents`: the list comes from the cache, which the
  workers wait for before they start.
- A reference in a variable the user calls `HERMES_HOME`: `upsertEnvVar` replaces the
  variable in the pod (`Admission` has that), while the reference is still resolved and
  may be reported as missing. `Rollout` has no such use.
- Agents that refer to their own or to each other's generated ConfigMaps: the pass
  ends at the missing input before it generates anything, so they wait for ever;
  `NoLostWakeup` counts that as waiting for an input that is missing.
- A composition of `Rollout` with lagging caches: `Rollout` takes the worker's reads as
  current; that the worker converges when they are not is what `ChildrenConverge`
  proves.

## Plan

Every invariant and action property of a passing run is proved. What would come next
is a composition of `HermesReconciler` with the content of `ReferencedInputs` and the
pods of `Rollout`, so that the freshness of pods could be stated under lagging caches.
