----------------------- MODULE HermesConvergenceProofs -----------------------
(***************************************************************************)
(* Convergence, for every instance: while the operator sleeps nothing is   *)
(* wrong.  The argument follows one pass of the worker: the job it holds   *)
(* is about the agent and the inputs its caches show (JobCurrent), each    *)
(* child it has behind it is what that agent wants (WorkKept), and this    *)
(* stays so until an event that will queue another pass is on its way      *)
(* (NoEventLost): no step can spoil what a pass has done without one.      *)
(***************************************************************************)
EXTENDS HermesStatusProofs

-----------------------------------------------------------------------------
(* What the worker is to bring about, as its caches show it.               *)

CachedSpec == seen[Agent].spec
CachedRefs == Snapshot(CachedSpec, seen)

Missing  == missingReferences(CachedSpec, CachedRefs)
Resolves == seen[Agent] # Absent /\ CachedSpec.valid /\ Missing = {}

HeldBy(o, u) == o # Absent /\ o.owner = u

\* o is what an agent with uid u, spec s and inputs refs wants under the name k.
Fits(k, u, s, refs, o) ==
    CASE k \in ConfigIds ->
            k \in Generated(s) => HeldBy(o, u) /\ o.spec = s.src[k]
      [] k = "PersistentVolumeClaim" ->
            s.persistence =>
                /\ HeldBy(o, u)
                /\ o.spec.size = s.size
                /\ persistentVolumeClaimImmutableFieldDrift(s, o.spec) = {}
      [] k = "StatefulSet" ->
            HeldBy(o, u) /\ o.spec = buildStatefulSet(s, configHash(s, refs))
      [] k \in OptKinds ->
            IF Enabled(k, s)
            THEN /\ HeldBy(o, u)
                 /\ IF k = "Service" THEN [o.spec EXCEPT !.nodePort = 0] = buildService(s)
                                     ELSE o.spec = Desired(k, s, refs)
            ELSE ~HeldBy(o, u)

\* No ConfigMap of a file that is no longer inline is left beside a ready StatefulSet.
Clean(id, u, s, o, sts) ==
    \/ id \in Generated(s)
    \/ ~HeldBy(o, u)
    \/ ~(OwnedByAgent(sts) /\ statefulSetReady(sts))

-----------------------------------------------------------------------------
(* The calls a pass has behind it.                                         *)

PastBudget      == StatusSteps \cup {"idle"}
PastPolicy      == PastBudget \cup {"PodDisruptionBudget", "write PodDisruptionBudget"}
PastService     == PastPolicy \cup {"NetworkPolicy", "write NetworkPolicy"}
PastStatefulSet == PastService \cup {"Service", "write Service"}
PastClaim       == PastStatefulSet \cup {"StatefulSet"}
PastStaleGateway == PastClaim \cup {"PersistentVolumeClaim", "write PersistentVolumeClaim"}
PastStaleConfig == PastStaleGateway \cup {"stale gateway-config"}
PastGateway     == PastStaleConfig \cup {"stale config", "cleanupStaleGeneratedConfigMaps"}
PastConfig      == PastGateway \cup {"gateway-config"}

Done(k) ==
    CASE k = "config"                -> PastConfig
      [] k = "gateway-config"        -> PastGateway
      [] k = "PersistentVolumeClaim" -> PastClaim
      [] k = "StatefulSet"           -> PastStatefulSet
      [] k = "Service"               -> PastService
      [] k = "NetworkPolicy"         -> PastPolicy
      [] k = "PodDisruptionBudget"   -> PastBudget

Swept(id) == IF id = "config" THEN PastStaleConfig ELSE PastStaleGateway

-----------------------------------------------------------------------------
(* The invariant.                                                          *)

SameAgent(a, b) ==
    \/ a = b
    \/ a # Absent /\ b # Absent /\ a.uid = b.uid /\ a.gen = b.gen /\ a.spec = b.spec

\* Where a cache is behind in something the controller must know of, the event that
\* will tell it is on its way.
NoEventLost ==
    /\ Agent \in due \/ SameAgent(seen[Agent], api[Agent])
    /\ \A i \in Inputs : i \in due \/ seen[i] = api[i]
    /\ \A k \in Children :
          \/ k \in due
          \/ seen[k] = api[k]
          \/ ~OwnedByAgent(seen[k]) /\ ~OwnedByAgent(api[k])

\* The job is about the agent and the inputs that the caches show.
JobCurrent ==
    pc # "idle" =>
        /\ seen[Agent] # Absent
        /\ job.uid = seen[Agent].uid /\ job.spec = CachedSpec
        /\ pc # "patchStatus" => CachedSpec.valid
        /\ pc \notin {"resolveReferencedInputs", "patchStatus"} =>
              job.refs = CachedRefs /\ Missing = {}

\* The pass ended early: it will be retried, or only the agent or an input can help.
Excused ==
    \/ pc = "patchStatus" /\ (job.retry \/ ~Resolves)
    \/ pc = "idle" /\ ~Resolves

Settled(k) == k \in due \/ Fits(k, seen[Agent].uid, CachedSpec, CachedRefs, api[k])

Cleaned(id) ==
    \/ id \in due \/ "StatefulSet" \in due
    \/ Clean(id, seen[Agent].uid, CachedSpec, api[id], api["StatefulSet"])

\* The children the pass has behind it stay what it made them, or somebody is told.
WorkKept ==
    Excused \/ ( /\ \A k \in Children : pc \in Done(k) => Settled(k)
                 /\ \A id \in ConfigIds : pc \in Swept(id) => Cleaned(id) )

Progress == ~queued => JobCurrent /\ WorkKept

-----------------------------------------------------------------------------
(* What the invariant is made of.                                          *)

\* A child that fits still does after a change that wakes nobody: either the agent
\* controls it, and is told of every change, or it is not to control it, and is told
\* when it does.
LEMMA FitsStays ==
    ASSUME NEW k \in Children, NEW u \in Nat \ {0}, NEW s, NEW refs,
           NEW old, NEW new, Fits(k, u, s, refs, old),
           old = new \/ (~OwnedByAgent(old) /\ ~OwnedByAgent(new))
    PROVE  Fits(k, u, s, refs, new)
<1>1. CASE old = new
  BY <1>1
<1>2. CASE ~OwnedByAgent(old) /\ ~OwnedByAgent(new)
  <2>1. ~HeldBy(old, u) /\ ~HeldBy(new, u)
    BY <1>2 DEF OwnedByAgent, HeldBy
  <2> QED
    BY <2>1 DEF Fits, Children
<1> QED
  BY <1>1, <1>2

\* The same of a ConfigMap that is to be gone.
LEMMA CleanStays ==
    ASSUME NEW id, NEW u \in Nat \ {0}, NEW s, NEW old, NEW new, NEW sts, NEW sts2,
           Clean(id, u, s, old, sts),
           old = new \/ (~OwnedByAgent(old) /\ ~OwnedByAgent(new)),
           sts = sts2 \/ (~OwnedByAgent(sts) /\ ~OwnedByAgent(sts2))
    PROVE  Clean(id, u, s, new, sts2)
  BY DEF Clean, HeldBy, OwnedByAgent

-----------------------------------------------------------------------------
(* What wakes nobody, spoils nothing.                                      *)

\* The caches show the same agent and the same values of the inputs it refers to.
TargetKept ==
    /\ seen'[Agent] = Absent <=> seen[Agent] = Absent
    /\ seen[Agent] # Absent =>
          /\ seen'[Agent].uid = seen[Agent].uid /\ seen'[Agent].gen = seen[Agent].gen
          /\ CachedSpec' = CachedSpec /\ CachedRefs' = CachedRefs

ChildKept(k) ==
    \/ k \in due'
    \/ /\ k \notin due
       /\ \/ api'[k] = api[k]
          \/ ~OwnedByAgent(api[k]) /\ ~OwnedByAgent(api'[k])

Calm == ~queued' => ~queued /\ TargetKept /\ \A k \in Children : ChildKept(k)

\* A new spec has a new generation.
Successor(k, o) ==
    (k = Agent /\ api[Agent] # Absent /\ o # Absent
       /\ o.uid = api[Agent].uid /\ o.gen = api[Agent].gen) => o.spec = api[Agent].spec

\* A snapshot depends only on the inputs the spec refers to.
LEMMA SnapshotSame ==
    ASSUME NEW s, NEW a, NEW b, \A i \in Inputs : i \in Referenced(s) => a[i] = b[i]
    PROVE  Snapshot(s, a) = Snapshot(s, b)
  BY DEF Snapshot

\* The agent, the children and the inputs have different names.
LEMMA KindsApart ==
    /\ Agent \in Kinds /\ Children \subseteq Kinds /\ Inputs \subseteq Kinds
    /\ Agent \notin Children /\ Agent \notin Inputs
    /\ \A i \in Inputs : i \notin Children
    /\ \A k \in Kinds : k = Agent \/ k \in Children \/ k \in Inputs
<1>1. Agent \notin Children
  BY DEF Agent, Children, ConfigIds, OptKinds
<1> QED
  BY <1>1, ClusterAssumption DEF Kinds

\* If the cached agent and the inputs it refers to are the same, so is the target.
LEMMA TargetSame ==
    ASSUME SameAgent(seen[Agent], seen'[Agent]),
           seen[Agent] # Absent =>
              \A i \in Inputs : i \in Referenced(CachedSpec) => seen'[i] = seen[i]
    PROVE  TargetKept
<1>1. seen'[Agent] = Absent <=> seen[Agent] = Absent
  BY DEF SameAgent
<1>2. ASSUME seen[Agent] # Absent
      PROVE  /\ seen'[Agent].uid = seen[Agent].uid /\ seen'[Agent].gen = seen[Agent].gen
             /\ CachedSpec' = CachedSpec /\ CachedRefs' = CachedRefs
  <2>1. /\ seen'[Agent].uid = seen[Agent].uid /\ seen'[Agent].gen = seen[Agent].gen
        /\ CachedSpec' = CachedSpec
    BY <1>2 DEF SameAgent, CachedSpec
  <2>2. Snapshot(CachedSpec, seen') = Snapshot(CachedSpec, seen)
    BY <1>2, SnapshotSame
  <2> QED
    BY <2>1, <2>2 DEF CachedRefs
<1> QED
  BY <1>1, <1>2 DEF TargetKept

\* What a write of k does to the events of k and to the other kinds.
LEMMA StoreEffect ==
    ASSUME TypeOK, NEW k \in Kinds, NEW o, Store(k, o)
    PROVE  /\ api'[k] = o /\ \A j \in Kinds : j # k => api'[j] = api[j] /\ seen'[j] = seen[j]
           /\ \A j \in due : j \in due'
           /\ k \in LaggyKinds => seen'[k] = seen[k]
           /\ (k \in LaggyKinds /\ Wakes(k, api[k], o)) => k \in due'
           /\ k \notin LaggyKinds => seen'[k] = o
           /\ (k \notin LaggyKinds /\ Wakes(k, seen[k], o) /\ Handled(k)) => queued'
           /\ queued => queued'
<1>1. DOMAIN api = Kinds /\ DOMAIN seen = Kinds
  BY DEF TypeOK, ClusterTypeOK
<1> QED
  BY <1>1 DEF Store, SeenAfter, DueAfter, Woken

\* An event that does not wake is about the same agent, the same value, or a child no
\* agent controls.
LEMMA NotWaking ==
    ASSUME NEW k \in Kinds, NEW old, NEW new, ~Wakes(k, old, new)
    PROVE  /\ (k = Agent /\ (old # Absent /\ new # Absent
                   /\ new.uid = old.uid /\ new.gen = old.gen => new.spec = old.spec)) =>
                 SameAgent(old, new)
           /\ k \in Inputs => old = new
           /\ k \in Children =>
                 old = new \/ (~OwnedByAgent(old) /\ ~OwnedByAgent(new))
<1>1. CASE k = Agent
  BY <1>1, KindsApart DEF Wakes, AgentWakes, SameAgent
<1>2. CASE k \in Children
  BY <1>2, KindsApart DEF Wakes, ChildWakes
<1>3. CASE k \in Inputs
  BY <1>3, KindsApart DEF Wakes
<1> QED
  BY <1>1, <1>2, <1>3, KindsApart

\* A write keeps the promise that every event which matters is on its way.
LEMMA StoreLosesNone ==
    ASSUME TypeOK, Current, NoEventLost, NEW k \in Kinds, NEW o, Store(k, o), Successor(k, o)
    PROVE  NoEventLost'
<1> USE StoreEffect, KindsApart
<1>1. k \in due' \/ k \notin LaggyKinds \/ ~Wakes(k, api[k], o)
  OBVIOUS
<1>2. Agent \in due' \/ SameAgent(seen'[Agent], api'[Agent])
  <2>1. CASE k # Agent
    BY <2>1 DEF NoEventLost
  <2>2. CASE k = Agent /\ k \notin LaggyKinds
    BY <2>2 DEF SameAgent
  <2>3. CASE k = Agent /\ k \notin due /\ k \in LaggyKinds /\ ~Wakes(k, api[k], o)
    <3>1. SameAgent(seen[Agent], api[Agent]) /\ seen'[Agent] = seen[Agent]
      BY <2>3 DEF NoEventLost
    <3>2. SameAgent(api[Agent], o) /\ api'[Agent] = o
      BY <2>3, NotWaking DEF Successor
    <3> QED
      BY <3>1, <3>2 DEF SameAgent
  <2>4. k \in due => k \in due'
    OBVIOUS
  <2> QED
    BY <2>1, <2>2, <2>3, <2>4, <1>1
<1>3. ASSUME NEW i \in Inputs PROVE i \in due' \/ seen'[i] = api'[i]
  <2>1. CASE k # i
    BY <2>1 DEF NoEventLost
  <2>2. CASE k = i
    BY <2>2, <1>1, NotWaking DEF NoEventLost
  <2> QED
    BY <2>1, <2>2
<1>4. ASSUME NEW j \in Children
      PROVE  \/ j \in due'
             \/ seen'[j] = api'[j]
             \/ ~OwnedByAgent(seen'[j]) /\ ~OwnedByAgent(api'[j])
  <2>1. CASE k # j
    BY <2>1 DEF NoEventLost
  <2>2. CASE k = j
    BY <2>2, <1>1, NotWaking DEF NoEventLost
  <2> QED
    BY <2>1, <2>2
<1> QED
  BY <1>2, <1>3, <1>4 DEF NoEventLost

\* A write that queues nothing leaves the target and the work done as they are.
LEMMA StoreCalm ==
    ASSUME TypeOK, Current, NEW k \in Kinds, NEW o, Store(k, o), Successor(k, o)
    PROVE  Calm
<1> SUFFICES ASSUME ~queued' PROVE ~queued /\ TargetKept /\ \A j \in Children : ChildKept(j)
  BY DEF Calm
<1> USE StoreEffect, KindsApart
<1>1. k \in LaggyKinds \/ ~Wakes(k, seen[k], o) \/ ~Handled(k)
  OBVIOUS
<1>2. k \notin LaggyKinds => seen[k] = api[k]
  BY DEF Current
<1>3. SameAgent(seen[Agent], seen'[Agent])
  <2>1. CASE k # Agent \/ k \in LaggyKinds
    BY <2>1 DEF SameAgent
  <2>2. CASE k = Agent /\ k \notin LaggyKinds
    <3>1. ~Wakes(k, seen[k], o)
      BY <2>2, <1>1 DEF Handled
    <3> QED
      BY <2>2, <3>1, <1>2, NotWaking DEF Successor
  <2> QED
    BY <2>1, <2>2
<1>4. ASSUME seen[Agent] # Absent, NEW i \in Inputs, i \in Referenced(CachedSpec)
      PROVE  seen'[i] = seen[i]
  <2>1. CASE k # i \/ k \in LaggyKinds
    BY <2>1
  <2>2. CASE k = i /\ k \notin LaggyKinds
    BY <1>4, <2>2, <1>1, NotWaking DEF Handled, findReferencingAgents, CachedSpec
  <2> QED
    BY <2>1, <2>2
<1>5. TargetKept
  BY <1>3, <1>4, TargetSame
<1>6. ASSUME NEW j \in Children PROVE ChildKept(j)
  <2>1. CASE k # j
    BY <2>1 DEF ChildKept
  <2>2. CASE k = j
    <3>1. k \in due' \/ ~Wakes(k, api[k], o)
      BY <2>2, <1>1, <1>2 DEF Handled
    <3> QED
      BY <2>2, <3>1, NotWaking DEF ChildKept
  <2> QED
    BY <2>1, <2>2
<1> QED
  BY <1>5, <1>6

\* Handing an event over loses none, and if it queues nothing it was about an input
\* the agent does not refer to.
LEMMA DeliverCalm ==
    ASSUME TypeOK, Current, NoEventLost, NEW k \in Kinds, Deliver(k)
    PROVE  NoEventLost' /\ Calm
<1> USE KindsApart
<1>1. /\ api' = api /\ seen'[k] = api[k]
      /\ \A j \in Kinds : j # k => seen'[j] = seen[j]
      /\ due' = due \ {k} /\ queued' = (queued \/ (k \in due /\ Handled(k)))
  BY DEF Deliver, TypeOK, ClusterTypeOK
<1>2. NoEventLost'
  <2>1. Agent \in due' \/ SameAgent(seen'[Agent], api'[Agent])
    BY <1>1 DEF NoEventLost, SameAgent
  <2>2. \A i \in Inputs : i \in due' \/ seen'[i] = api'[i]
    BY <1>1 DEF NoEventLost
  <2>3. \A j \in Children :
          \/ j \in due'
          \/ seen'[j] = api'[j]
          \/ ~OwnedByAgent(seen'[j]) /\ ~OwnedByAgent(api'[j])
    BY <1>1 DEF NoEventLost
  <2> QED
    BY <2>1, <2>2, <2>3 DEF NoEventLost
<1>3. ASSUME ~queued' PROVE ~queued /\ TargetKept /\ \A j \in Children : ChildKept(j)
  <2>1. ~queued /\ (k \notin due \/ ~Handled(k))
    BY <1>1, <1>3
  <2>2. SameAgent(seen[Agent], seen'[Agent])
    <3>1. CASE k # Agent
      BY <3>1, <1>1 DEF SameAgent
    <3>2. CASE k = Agent
      BY <3>2, <1>1, <2>1 DEF NoEventLost, Handled
    <3> QED
      BY <3>1, <3>2
  <2>3. ASSUME seen[Agent] # Absent, NEW i \in Inputs, i \in Referenced(CachedSpec)
        PROVE  seen'[i] = seen[i]
    <3>1. CASE k # i
      BY <3>1, <1>1
    <3>2. CASE k = i
      BY <2>3, <3>2, <1>1, <2>1 DEF NoEventLost, Handled, findReferencingAgents, CachedSpec
    <3> QED
      BY <3>1, <3>2
  <2>4. TargetKept
    BY <2>2, <2>3, TargetSame
  <2>5. \A j \in Children : ChildKept(j)
    BY <1>1, <2>1 DEF ChildKept, Handled
  <2> QED
    BY <2>1, <2>4, <2>5
<1> QED
  BY <1>2, <1>3 DEF Calm

-----------------------------------------------------------------------------
(* The pass while others move.                                             *)

\* A calm step leaves what the caches call for as it is.
LEMMA ResolvesKept ==
    ASSUME Calm, ~queued'
    PROVE  /\ ~queued /\ (Resolves' <=> Resolves)
           /\ seen[Agent] # Absent => Missing' = Missing
<1>1. ~queued /\ TargetKept
  BY DEF Calm
<1>2. seen[Agent] # Absent => Missing' = Missing
  BY <1>1 DEF TargetKept, Missing
<1>3. seen[Agent] # Absent => CachedSpec'.valid = CachedSpec.valid
  BY <1>1 DEF TargetKept
<1> QED
  BY <1>1, <1>2, <1>3 DEF TargetKept, Resolves

\* An agent in the cache has a uid.
LEMMA CachedUid ==
    ASSUME TypeOK, seen[Agent] # Absent
    PROVE  seen[Agent] \in AgentObjects /\ seen[Agent].uid \in Nat \ {0}
<1>1. seen[Agent] \in AgentObjects
  BY KindsApart, SeenTyped, ObjectKinds DEF TypeOK
<1> QED
  BY <1>1 DEF AgentObjects

\* A calm step leaves the children as they should be.
LEMMA SettledStays ==
    ASSUME TypeOK, Calm, ~queued', seen[Agent] # Absent, NEW k \in Children, Settled(k)
    PROVE  Settled(k)'
<1>1. TargetKept /\ ChildKept(k)
  BY DEF Calm
<1>2. seen[Agent].uid \in Nat \ {0}
  BY CachedUid
<1>3. CASE k \in due'
  BY <1>3 DEF Settled
<1>4. CASE k \notin due'
  <2> DEFINE u == seen[Agent].uid
             s == CachedSpec
             r == CachedRefs
  <2>1. /\ Fits(k, u, s, r, api[k])
        /\ api[k] = api'[k] \/ (~OwnedByAgent(api[k]) /\ ~OwnedByAgent(api'[k]))
    BY <1>1, <1>4 DEF ChildKept, Settled
  <2>2. Fits(k, u, s, r, api'[k])
    BY <1>2, <2>1, FitsStays
  <2>3. seen'[Agent].uid = u /\ CachedSpec' = s /\ CachedRefs' = r
    BY <1>1 DEF TargetKept
  <2> HIDE DEF u, s, r
  <2> QED
    BY <2>2, <2>3 DEF Settled
<1> QED
  BY <1>3, <1>4

\* A calm step brings back no ConfigMap beside a ready StatefulSet.
LEMMA CleanedStays ==
    ASSUME TypeOK, Calm, ~queued', seen[Agent] # Absent, NEW id \in ConfigIds, Cleaned(id)
    PROVE  Cleaned(id)'
<1>1. TargetKept /\ ChildKept(id) /\ ChildKept("StatefulSet")
  BY DEF Calm, Children
<1>2. seen[Agent].uid \in Nat \ {0}
  BY CachedUid
<1>3. CASE id \in due' \/ "StatefulSet" \in due'
  BY <1>3 DEF Cleaned
<1>4. CASE id \notin due' /\ "StatefulSet" \notin due'
  <2> DEFINE u == seen[Agent].uid
             s == CachedSpec
             a == api["StatefulSet"]
             b == api'["StatefulSet"]
  <2>1. /\ Clean(id, u, s, api[id], a)
        /\ api[id] = api'[id] \/ (~OwnedByAgent(api[id]) /\ ~OwnedByAgent(api'[id]))
        /\ a = b \/ (~OwnedByAgent(a) /\ ~OwnedByAgent(b))
    BY <1>1, <1>4 DEF ChildKept, Cleaned
  <2> HIDE DEF a, b
  <2>2. Clean(id, u, s, api'[id], b)
    BY <1>2, <2>1, CleanStays
  <2>3. seen'[Agent].uid = u /\ CachedSpec' = s
    BY <1>1 DEF TargetKept
  <2> HIDE DEF u, s
  <2> QED
    BY <2>2, <2>3 DEF Cleaned, b
<1> QED
  BY <1>3, <1>4

\* A calm step of somebody else leaves the pass as it is.
LEMMA OthersKeepProgress ==
    ASSUME TypeOK, Progress, Calm, UNCHANGED <<pc, job>>
    PROVE  Progress'
<1> SUFFICES ASSUME ~queued' PROVE JobCurrent' /\ WorkKept'
  BY DEF Progress
<1>1. ~queued /\ TargetKept /\ JobCurrent /\ WorkKept
  BY DEF Calm, Progress
<1>2. Resolves' <=> Resolves
  BY ResolvesKept
<1>3. JobCurrent'
  <2>1. seen[Agent] # Absent => Missing' = Missing
    BY ResolvesKept
  <2> QED
    BY <1>1, <2>1 DEF JobCurrent, TargetKept
<1>4. CASE Excused
  BY <1>2, <1>3, <1>4 DEF Excused, WorkKept
<1>5. CASE ~Excused
  <2>1. seen[Agent] # Absent
    BY <1>1, <1>5 DEF JobCurrent, Excused, Resolves
  <2>2. ASSUME NEW k \in Children, pc' \in Done(k) PROVE Settled(k)'
    BY <1>1, <1>5, <2>1, <2>2, SettledStays DEF WorkKept
  <2>3. ASSUME NEW id \in ConfigIds, pc' \in Swept(id) PROVE Cleaned(id)'
    BY <1>1, <1>5, <2>1, <2>3, CleanedStays DEF WorkKept
  <2> QED
    BY <1>3, <2>2, <2>3 DEF WorkKept
<1> QED
  BY <1>4, <1>5

\* Every operation of users and the control plane is one write, and one of a new spec
\* comes with a new generation.
LEMMA OthersWrite ==
    ASSUME TypeOK, Users \/ ControlPlane
    PROVE  \E k \in Kinds : \E o : Store(k, o) /\ Successor(k, o)
<1> USE KindsApart
<1>1. ASSUME NEW k \in Children, NEW o, Store(k, o)
      PROVE  \E j \in Kinds : \E p : Store(j, p) /\ Successor(j, p)
  BY <1>1 DEF Successor
<1>2. CASE CreateAgent
  BY <1>2 DEF CreateAgent, Successor
<1>3. CASE UpdateAgent
  <2>1. PICK s : Store(Agent, [api[Agent] EXCEPT !.spec = s, !.gen = @ + 1])
    BY <1>3 DEF UpdateAgent
  <2>2. api[Agent] \in AgentObjects
    BY <1>3, SeenTyped, ObjectKinds DEF UpdateAgent, TypeOK
  <2>3. [api[Agent] EXCEPT !.spec = s, !.gen = @ + 1].gen # api[Agent].gen
    BY <2>2 DEF AgentObjects
  <2> QED
    BY <2>1, <2>3 DEF Successor
<1>4. CASE DeleteAgent
  BY <1>4 DEF DeleteAgent, Successor
<1>5. CASE ChangeInput
  BY <1>5 DEF ChangeInput, Successor
<1>6. CASE DeleteChild \/ ScaleStatefulSet \/ CreateForeign
  BY <1>1, <1>6, ClusterAssumption
  DEF DeleteChild, ScaleStatefulSet, CreateForeign, Children
<1>7. CASE ControlPlane
  BY <1>1, <1>7
  DEF ControlPlane, ObserveStatefulSet, AdjustPods, LosePod, BindClaim, LoseClaim,
      CollectGarbage, Children
<1> QED
  BY <1>2, <1>3, <1>4, <1>5, <1>6, <1>7 DEF Users

\* What others do loses no event and leaves the pass as it is.
LEMMA OthersConverge ==
    ASSUME TypeOK, Current, NoEventLost, Progress, Environment
    PROVE  NoEventLost' /\ Progress'
<1>1. NoEventLost' /\ Calm
  <2>1. CASE Users \/ ControlPlane
    BY <2>1, OthersWrite, StoreLosesNone, StoreCalm
  <2>2. CASE Delivery
    BY <2>2, DeliverCalm DEF Delivery
  <2> QED
    BY <2>1, <2>2 DEF Environment
<1>2. UNCHANGED <<pc, job>>
  BY DEF Environment
<1> QED
  BY <1>1, <1>2, OthersKeepProgress

\* A restart reads everything afresh and queues the agent if there is one.
LEMMA RestartConverges ==
    ASSUME TypeOK, Restart
    PROVE  NoEventLost' /\ Progress'
<1>1. NoEventLost'
  BY DEF Restart, NoEventLost, SameAgent
<1>2. ASSUME ~queued' PROVE JobCurrent' /\ WorkKept'
  <2>1. seen'[Agent] = Absent /\ pc' = "idle"
    BY <1>2 DEF Restart
  <2> QED
    BY <2>1 DEF JobCurrent, WorkKept, Excused, Resolves
<1> QED
  BY <1>1, <1>2 DEF Progress

\* At first there is no agent.
LEMMA ConvergenceInitial == Init => NoEventLost /\ Progress
<1> SUFFICES ASSUME Init PROVE NoEventLost /\ Progress
  OBVIOUS
<1>1. seen = api /\ pc = "idle"
  BY DEF Init, ClusterInit
<1>2. seen[Agent] = Absent
  BY KindsApart DEF Init, ClusterInit
<1>3. NoEventLost
  BY <1>1 DEF NoEventLost, SameAgent
<1>4. JobCurrent /\ WorkKept
  BY <1>1, <1>2 DEF JobCurrent, WorkKept, Excused, Resolves
<1> QED
  BY <1>3, <1>4 DEF Progress

-----------------------------------------------------------------------------
(* How the worker gets on.                                                 *)

JobKept == job'.uid = job.uid /\ job'.spec = job.spec /\ job'.refs = job.refs

\* A failed call leaves the agent of the job as it is.
LEMMA FailWithJob ==
    ASSUME job \in Jobs, NEW stage, NEW h, NEW reason, NEW message, NEW retry,
           FailWith(stage, h, reason, message, retry)
    PROVE  pc' = "patchStatus" /\ job'.retry = retry /\ JobKept
<1> DEFINE mark == [stage |-> stage, hash |-> h, reason |-> reason, message |-> message]
<1>1. job' = Marked(job, mark, retry) /\ pc' = "patchStatus"
  BY DEF FailWith
<1> HIDE DEF mark
<1> QED
  BY <1>1 DEF Marked, Jobs, JobKept

\* Every error that a call returns is returned by Reconcile.
LEMMA FailJob ==
    ASSUME job \in Jobs, NEW error, Fail(error)
    PROVE  pc' = "patchStatus" /\ job'.retry /\ JobKept
  BY FailWithJob DEF Fail

\* Going on leaves the agent of the job as it is.
LEMMA AdvanceJob ==
    ASSUME job \in Jobs, Advance
    PROVE  pc' = After(pc) /\ JobKept
  BY DEF Advance, Jobs, JobKept

\* A step that ends the pass early with a retry owes nothing.
LEMMA PassFails ==
    ASSUME Progress, Calm, pc \notin {"patchStatus", "idle"}, pc' = "patchStatus",
           job'.retry, JobKept
    PROVE  Progress'
<1> SUFFICES ASSUME ~queued' PROVE JobCurrent' /\ WorkKept'
  BY DEF Progress
<1>1. JobCurrent /\ TargetKept
  BY DEF Calm, Progress
<1>2. JobCurrent'
  BY <1>1 DEF JobCurrent, TargetKept, JobKept
<1>3. WorkKept'
  BY DEF WorkKept, Excused
<1> QED
  BY <1>2, <1>3

\* A step that goes on owes what it leaves behind it.
LEMMA PassMoves ==
    ASSUME TypeOK, Progress, Calm, JobKept,
           pc \notin {"resolveReferencedInputs", "patchStatus", "idle"},
           pc' \notin {"resolveReferencedInputs", "idle"},
           ~queued' => /\ \A k \in Children : pc' \in Done(k) => pc \in Done(k) \/ Settled(k)'
                       /\ \A id \in ConfigIds :
                             pc' \in Swept(id) => pc \in Swept(id) \/ Cleaned(id)'
    PROVE  Progress'
<1> SUFFICES ASSUME ~queued' PROVE JobCurrent' /\ WorkKept'
  BY DEF Progress
<1>1. JobCurrent /\ WorkKept /\ TargetKept
  BY DEF Calm, Progress
<1>2. seen[Agent] # Absent /\ ~Excused
  BY <1>1 DEF JobCurrent, Excused
<1>3. JobCurrent'
  <2>1. Missing' = Missing
    BY <1>2, ResolvesKept
  <2> QED
    BY <1>1, <1>2, <2>1 DEF JobCurrent, TargetKept, JobKept
<1>4. ASSUME NEW k \in Children, pc' \in Done(k) PROVE Settled(k)'
  BY <1>1, <1>2, <1>4, SettledStays DEF WorkKept
<1>5. ASSUME NEW id \in ConfigIds, pc' \in Swept(id) PROVE Cleaned(id)'
  BY <1>1, <1>2, <1>5, CleanedStays DEF WorkKept
<1>6. WorkKept'
  BY <1>4, <1>5 DEF WorkKept
<1> QED
  BY <1>3, <1>6

\* The steps that may bring the pass past a child are the child's own.
LEMMA DoneByItsOwn ==
    ASSUME NEW p \in Steps \ {"patchStatus"}, NEW k \in Children, After(p) \in Done(k)
    PROVE  \/ p \in Done(k)
           \/ p = k
           \/ k \in {"PersistentVolumeClaim"} \cup OptKinds /\ p = WriteStep(k)
  BY DEF After, Done, WriteStep, Steps, ChildSteps, StatusSteps, Children, ConfigIds, OptKinds,
         PastBudget, PastPolicy, PastService, PastStatefulSet, PastClaim, PastStaleGateway,
         PastStaleConfig, PastGateway, PastConfig

\* The same of the ConfigMaps that are to be gone.
LEMMA SweptByItsOwn ==
    ASSUME NEW p \in Steps \ {"patchStatus"}, NEW id \in ConfigIds, After(p) \in Swept(id)
    PROVE  p \in Swept(id) \/ p = Stale(id)
  BY DEF After, Swept, Stale, Steps, ChildSteps, StatusSteps, Children, ConfigIds, OptKinds,
         PastBudget, PastPolicy, PastService, PastStatefulSet, PastClaim, PastStaleGateway,
         PastStaleConfig

\* The steps that deal with child k.
Own(k) == IF k \in {"PersistentVolumeClaim"} \cup OptKinds THEN {k, WriteStep(k)} ELSE {k}

\* A call that goes on owes only the child it is about.
LEMMA PassAdvances ==
    ASSUME TypeOK, Progress, Calm, Advance, pc \in CallSteps \ {"resolveReferencedInputs"},
           ~queued' => /\ \A k \in Children : pc \in Own(k) => Settled(k)'
                       /\ \A id \in ConfigIds : pc = Stale(id) => Cleaned(id)'
    PROVE  Progress'
<1>1. job \in Jobs
  BY BusyWorker DEF TypeOK, CallSteps
<1>2. pc' = After(pc) /\ JobKept
  BY <1>1, AdvanceJob
<1>3. /\ pc \in Steps \ {"patchStatus"}
      /\ pc \notin {"resolveReferencedInputs", "patchStatus", "idle"}
      /\ After(pc) \notin {"resolveReferencedInputs", "idle"}
  BY DEF After, CallSteps, Steps, ChildSteps, StatusSteps, Children, ConfigIds, OptKinds
<1>4. ASSUME NEW k \in Children, pc' \in Done(k), ~queued' PROVE pc \in Done(k) \/ Settled(k)'
  BY <1>2, <1>3, <1>4, DoneByItsOwn DEF Own
<1>5. ASSUME NEW id \in ConfigIds, pc' \in Swept(id), ~queued'
      PROVE  pc \in Swept(id) \/ Cleaned(id)'
  BY <1>2, <1>3, <1>5, SweptByItsOwn
<1> QED
  BY <1>2, <1>3, <1>4, <1>5, PassMoves

\* Who a step is about.
LEMMA OwnSteps ==
    /\ \A id \in ConfigIds, k \in Children : id \in Own(k) => k = id
    /\ \A id, j \in ConfigIds : id # Stale(j) /\ (Stale(id) = Stale(j) => id = j)
    /\ \A id \in ConfigIds, k \in Children : Stale(id) \notin Own(k) /\ k # Stale(id)
    /\ \A j \in OptKinds, k \in Children :
          j \in Own(k) \/ WriteStep(j) \in Own(k) => k = j
    /\ \A k \in Children : "PersistentVolumeClaim" \in Own(k) => k = "PersistentVolumeClaim"
    /\ \A k \in Children :
          "write PersistentVolumeClaim" \in Own(k) => k = "PersistentVolumeClaim"
    /\ \A k \in Children : "StatefulSet" \in Own(k) => k = "StatefulSet"
    /\ \A j \in OptKinds, id \in ConfigIds : WriteStep(j) # Stale(id)
    /\ \A id \in ConfigIds : "write PersistentVolumeClaim" # Stale(id)
  BY DEF Own, WriteStep, Stale, ConfigIds, OptKinds, Children

\* What the pass makes is what the caches call for, as long as nobody is woken.
LEMMA MadeForTarget ==
    ASSUME JobCurrent, Calm, ~queued', NEW k \in Children,
           pc \notin {"resolveReferencedInputs", "patchStatus", "idle"},
           k \in due' \/ Fits(k, job.uid, job.spec, job.refs, api'[k])
    PROVE  Settled(k)'
<1>1. /\ seen[Agent] # Absent /\ TargetKept
      /\ job.uid = seen[Agent].uid /\ job.spec = CachedSpec /\ job.refs = CachedRefs
  BY DEF JobCurrent, Calm
<1>2. /\ job.uid = seen'[Agent].uid /\ job.spec = CachedSpec' /\ job.refs = CachedRefs'
  BY <1>1 DEF TargetKept
<1> QED
  BY <1>2 DEF Settled

\* How CreateOrUpdate ends: with an error, with nothing to do, or with a write.
LEMMA CreateOrUpdateOutcome ==
    ASSUME NEW k \in Children, NEW spec, CreateOrUpdate(k, spec)
    PROVE  \/ (\E error : Fail(error)) /\ (Local \/ \E error, o : Call(k, error, o))
           \/ Advance /\ Local /\ Wanted(k, spec) = seen[k]
           \/ /\ Advance
              /\ \E port \in NodePorts :
                    /\ Store(k, Admitted(k, seen[k], Wanted(k, spec), port))
                    /\ Call(k, "ok", Admitted(k, seen[k], Wanted(k, spec), port))
<1> DEFINE new     == Wanted(k, spec)
           refusal == CASE seen[k] = Absent /\ job.first # Absent -> "Invalid"
                        [] seen[k] = Absent /\ job.first = Absent /\ api[k] # Absent ->
                              "AlreadyExists"
                        [] seen[k] # Absent /\ api[k] = Absent -> "NotFound"
                        [] seen[k] # Absent /\ api[k] # Absent /\ api[k] # seen[k] -> "Conflict"
                        [] seen[k] # Absent /\ api[k] = seen[k] /\ Refuses(k, api[k], new) ->
                              "Invalid"
                        [] OTHER -> "ok"
<1>1. \/ Fail("AlreadyOwned") /\ Local
      \/ new = seen[k] /\ Advance /\ Local
      \/ \E port \in NodePorts : Call(k, refusal, Admitted(k, seen[k], new, port))
  BY DEF CreateOrUpdate
<1> HIDE DEF new, refusal
<1>2. ASSUME NEW port \in NodePorts, Call(k, refusal, Admitted(k, seen[k], new, port))
      PROVE  \/ \E error : Fail(error)
             \/ Advance /\ refusal = "ok" /\ Store(k, Admitted(k, seen[k], new, port))
  BY <1>2 DEF Call
<1> QED
  BY <1>1, <1>2 DEF new

\* A step that writes nothing and takes nothing from the queue is calm.
LEMMA UntouchedCalm ==
    ASSUME NoEventLost, UNCHANGED <<api, seen, due>>, queued => queued'
    PROVE  NoEventLost' /\ Calm
<1>1. NoEventLost'
  BY DEF NoEventLost
<1>2. TargetKept
  BY TargetSame DEF SameAgent
<1>3. \A k \in Children : ChildKept(k)
  BY DEF ChildKept
<1> QED
  BY <1>1, <1>2, <1>3 DEF Calm

\* A call is calm, whatever the answer.
LEMMA CallCalm ==
    ASSUME TypeOK, Current, NoEventLost, NEW k \in Children, NEW error, NEW o,
           Call(k, error, o)
    PROVE  NoEventLost' /\ Calm
<1>1. k \in Kinds /\ Successor(k, o)
  BY KindsApart DEF Successor
<1>2. Store(k, o) \/ UNCHANGED <<api, seen, queued, due>>
  BY DEF Call
<1> QED
  BY <1>1, <1>2, StoreLosesNone, StoreCalm, UntouchedCalm

\* So is CreateOrUpdate.
LEMMA CreateOrUpdateCalm ==
    ASSUME TypeOK, Current, NoEventLost, NEW k \in Children, NEW spec,
           CreateOrUpdate(k, spec)
    PROVE  NoEventLost' /\ Calm
<1>1. Local \/ \E error, o : Call(k, error, o)
  BY CreateOrUpdateOutcome
<1> QED
  BY <1>1, CallCalm, UntouchedCalm DEF Local, cluster

\* CreateOrUpdate of what fits leaves a child that fits, or fails and is retried, or
\* somebody is told.
LEMMA CreateOrUpdateConverges ==
    ASSUME TypeOK, Current, NoEventLost, Progress,
           NEW k \in Children, pc \in Own(k), pc \in CallSteps \ {"resolveReferencedInputs"},
           \A id \in ConfigIds : pc # Stale(id),
           \A j \in Children : pc \in Own(j) => j = k,
           NEW spec \in ChildSpec(k), CreateOrUpdate(k, spec),
           Fits(k, job.uid, job.spec, job.refs, Wanted(k, spec)),
           \A port \in NodePorts :
              Fits(k, job.uid, job.spec, job.refs, Admitted(k, seen[k], Wanted(k, spec), port))
    PROVE  NoEventLost' /\ Progress'
<1>1. NoEventLost' /\ Calm
  BY CreateOrUpdateCalm
<1>2. job \in Jobs
  BY BusyWorker DEF TypeOK, CallSteps
<1>3. pc \notin {"resolveReferencedInputs", "patchStatus", "idle"}
  BY DEF CallSteps, Steps, ChildSteps, StatusSteps, Children, ConfigIds, OptKinds
<1>4. CASE \E error : Fail(error)
  BY <1>1, <1>2, <1>3, <1>4, FailJob, PassFails
<1>5. CASE Advance
  <2>1. ASSUME ~queued' PROVE k \in due' \/ Fits(k, job.uid, job.spec, job.refs, api'[k])
    <3>1. CASE Local /\ Wanted(k, spec) = seen[k]
      <4>1. Wanted(k, spec) \in ChildObjects(k)
        BY <1>2, WantedTyped DEF TypeOK
      <4>2. seen[k].owner = job.uid /\ job.uid \in Nat \ {0}
        <5>1. CASE seen[k] = Absent
          BY <3>1, <4>1, <5>1, ObjectsAssumption
        <5>2. CASE seen[k] # Absent
          BY <1>2, <3>1, <4>1, <5>2 DEF Wanted, ChildObjects, Jobs
        <5> QED
          BY <5>1, <5>2
      <4>3. OwnedByAgent(seen[k])
        BY <3>1, <4>1, <4>2, ObjectsAssumption DEF OwnedByAgent
      <4>4. k \in due \/ api[k] = seen[k]
        BY <4>3 DEF NoEventLost
      <4> QED
        BY <3>1, <4>4 DEF Local, cluster
    <3>2. ASSUME NEW port \in NodePorts,
                 Store(k, Admitted(k, seen[k], Wanted(k, spec), port))
          PROVE  Fits(k, job.uid, job.spec, job.refs, api'[k])
      BY <3>2, StoreEffect, KindsApart
    <3>3. CASE \E error : Fail(error)
      BY <1>2, <1>5, <3>3, FailJob, AdvanceTyped DEF PreparedSteps, CallSteps
    <3> QED
      BY <1>5, <3>1, <3>2, <3>3, CreateOrUpdateOutcome
  <2>2. ASSUME ~queued' PROVE Settled(k)'
    <3>1. JobCurrent
      BY <1>1, <2>2 DEF Calm, Progress
    <3> QED
      BY <1>1, <1>3, <2>1, <2>2, <3>1, MadeForTarget
  <2>3. ~queued' => \A j \in Children : pc \in Own(j) => Settled(j)'
    BY <2>2
  <2>4. Progress'
    BY <1>1, <1>5, <2>3, PassAdvances
  <2> QED
    BY <1>1, <2>4
<1> QED
  BY <1>4, <1>5, CreateOrUpdateOutcome

-----------------------------------------------------------------------------
(* What each call makes fits.                                              *)

\* What CreateOrUpdate sends, and what the API server makes of it.
LEMMA WantedIs ==
    ASSUME TypeOK, job \in Jobs, NEW k \in Children, NEW spec \in ChildSpec(k)
    PROVE  /\ HeldBy(Wanted(k, spec), job.uid) /\ Wanted(k, spec).spec = spec
           /\ Wanted(k, spec) \in ChildObjects(k)
<1>1. Wanted(k, spec) \in ChildObjects(k)
  BY WantedTyped DEF TypeOK
<1>2. Wanted(k, spec).spec = spec /\ Wanted(k, spec).owner = job.uid
  <2>1. CASE seen[k] = Absent
    BY <2>1 DEF Wanted
  <2>2. CASE seen[k] # Absent
    <3>1. seen[k] \in ChildObjects(k)
      BY <2>2, KindsApart, SeenTyped, ObjectKinds DEF TypeOK
    <3> QED
      BY <2>2, <3>1 DEF Wanted, ChildObjects
  <2> QED
    BY <2>1, <2>2
<1> QED
  BY <1>1, <1>2, ObjectsAssumption DEF HeldBy

\* What is stored is the agent's, with the spec that was sent but for defaults.
LEMMA AdmittedIs ==
    ASSUME TypeOK, job \in Jobs, NEW k \in Children, NEW spec \in ChildSpec(k),
           NEW port \in NodePorts, NEW o,
           o = Admitted(k, seen[k], Wanted(k, spec), port)
    PROVE  /\ HeldBy(o, job.uid)
           /\ k \notin {"PersistentVolumeClaim", "Service"} => o.spec = spec
<1> DEFINE w == Wanted(k, spec)
<1>0. o = Admitted(k, seen[k], w, port)
  OBVIOUS
<1>1. w \in ChildObjects(k) /\ w.spec = spec
  BY WantedIs
<1>2. port \in Nat
  BY ResourcesAssumption
<1>3. o.owner = job.uid
  BY WantedOwner
<1>4. o \in ChildObjects(k)
  BY <1>0, <1>1, <1>2, AdmittedTyped
<1> HIDE DEF w
<1>5. HeldBy(o, job.uid)
  BY <1>3, <1>4, ObjectsAssumption DEF HeldBy
<1>6. k = "StatefulSet" => o.spec = spec
  BY <1>0, <1>1 DEF Admitted, ChildObjects
<1>7. k \notin {"PersistentVolumeClaim", "StatefulSet", "Service"} => o.spec = spec
  BY <1>0, <1>1 DEF Admitted
<1> QED
  BY <1>5, <1>6, <1>7

\* A claim that leaves the class open is given one.
LEMMA AdmittedClaim ==
    ASSUME TypeOK, job \in Jobs, NEW spec \in ChildSpec("PersistentVolumeClaim"),
           NEW port \in NodePorts, NEW o,
           o = Admitted("PersistentVolumeClaim", seen["PersistentVolumeClaim"],
                        Wanted("PersistentVolumeClaim", spec), port)
    PROVE  /\ o.spec.size = spec.size /\ o.spec.modes = spec.modes
           /\ spec.class # None => o.spec.class = spec.class
<1>1. PICK w : w = Wanted("PersistentVolumeClaim", spec)
  OBVIOUS
<1>2. w \in ChildObjects("PersistentVolumeClaim") /\ w.spec = spec
  BY <1>1, WantedIs DEF Children
<1> QED
  BY <1>1, <1>2 DEF Admitted, ChildObjects, ChildSpec, ConfigIds

\* A Service is given a node port.
LEMMA AdmittedService ==
    ASSUME TypeOK, job \in Jobs, NEW spec \in ChildSpec("Service"),
           NEW port \in NodePorts, NEW o,
           o = Admitted("Service", seen["Service"], Wanted("Service", spec), port)
    PROVE  [o.spec EXCEPT !.nodePort = 0] = [spec EXCEPT !.nodePort = 0]
<1>1. PICK w : w = Wanted("Service", spec)
  OBVIOUS
<1>2. w \in ChildObjects("Service") /\ w.spec = spec
  BY <1>1, WantedIs DEF Children, OptKinds
<1> QED
  BY <1>1, <1>2 DEF Admitted, ChildObjects, ChildSpec, ConfigIds

\* The hypotheses of a step of the pass.
Going == TypeOK /\ Current /\ NoEventLost /\ Progress

\* A call that is skipped owes a child that fits already, or of whose change somebody is
\* told.
LEMMA SkipConverges ==
    ASSUME Going, pc \in CallSteps \ {"resolveReferencedInputs"}, Skip,
           \A id \in ConfigIds : pc # Stale(id),
           \A k \in Children : pc \in Own(k) =>
              k \in due \/ Fits(k, job.uid, job.spec, job.refs, api[k])
    PROVE  NoEventLost' /\ Progress'
<1>1. NoEventLost' /\ Calm
  BY UntouchedCalm DEF Going, Skip, Local, cluster
<1>2. pc \notin {"resolveReferencedInputs", "patchStatus", "idle"}
  BY DEF CallSteps, Steps, ChildSteps, StatusSteps, Children, ConfigIds, OptKinds
<1>3. ASSUME ~queued', NEW k \in Children, pc \in Own(k) PROVE Settled(k)'
  <2>1. JobCurrent
    BY <1>1, <1>3 DEF Calm, Going, Progress
  <2>2. k \in due' \/ Fits(k, job.uid, job.spec, job.refs, api'[k])
    BY <1>3 DEF Skip, Local, cluster
  <2> QED
    BY <1>1, <1>2, <1>3, <2>1, <2>2, MadeForTarget
<1>4. Progress'
  BY <1>1, <1>3, PassAdvances DEF Going, Skip
<1> QED
  BY <1>1, <1>4

\* What the cache shows not to be this agent's is not, or somebody is told.
LEMMA NotMine ==
    ASSUME NoEventLost, job \in Jobs, NEW k \in Children, ~ControlledByJob(k)
    PROVE  k \in due \/ ~HeldBy(api[k], job.uid)
  BY DEF NoEventLost, ControlledByJob, HeldBy, OwnedByAgent, Jobs

\* A delete fails and is retried, or leaves nothing behind.
LEMMA DeleteOutcome ==
    ASSUME NEW k \in Children, NEW ignore, Delete(k, ignore)
    PROVE  (\E error : Fail(error)) \/ (Advance /\ Store(k, Absent))
  BY DEF Delete, Call

\* A ConfigMap of the agent for a file that is inline.
LEMMA InlineConfigMapConverges ==
    ASSUME Going, NEW id \in ConfigIds, reconcileInlineConfigMap(id)
    PROVE  NoEventLost' /\ Progress'
<1>1. /\ pc = id /\ id \in Children /\ pc \in CallSteps \ {"resolveReferencedInputs"}
      /\ pc \in Own(id)
  BY DEF reconcileInlineConfigMap, CallSteps, Steps, ChildSteps, StatusSteps, Children,
         ConfigIds, Own
<1>2. job \in Jobs
  BY <1>1, BusyWorker DEF Going, TypeOK, CallSteps
<1>3. (\A k \in Children : pc \in Own(k) => k = id) /\ \A j \in ConfigIds : pc # Stale(j)
  BY <1>1, OwnSteps
<1>4. CASE id \in Generated(job.spec) /\ CreateOrUpdate(id, job.spec.src[id])
  <2> DEFINE s == job.spec.src[id]
  <2>1. s \in ChildSpec(id)
    BY <1>4 DEF Generated, ChildSpec, ConfigIds
  <2>2. Fits(id, job.uid, job.spec, job.refs, Wanted(id, s))
    BY <1>1, <1>2, <2>1, WantedIs DEF Going, Fits, ConfigIds, OptKinds
  <2>3. ASSUME NEW port \in NodePorts
        PROVE  Fits(id, job.uid, job.spec, job.refs,
                    Admitted(id, seen[id], Wanted(id, s), port))
    <3>1. PICK o : o = Admitted(id, seen[id], Wanted(id, s), port)
      OBVIOUS
    <3>2. HeldBy(o, job.uid) /\ (id \notin {"PersistentVolumeClaim", "Service"} => o.spec = s)
      BY <1>1, <1>2, <2>1, <3>1, AdmittedIs DEF Going
    <3> QED
      BY <3>1, <3>2 DEF Fits, ConfigIds, OptKinds
  <2> HIDE DEF s
  <2> QED
    BY <1>1, <1>3, <1>4, <2>1, <2>2, <2>3, CreateOrUpdateConverges DEF Going, s
<1>5. CASE id \notin Generated(job.spec) /\ Skip
  <2>1. Fits(id, job.uid, job.spec, job.refs, api[id])
    BY <1>5 DEF Fits, ConfigIds, OptKinds
  <2> QED
    BY <1>1, <1>3, <1>5, <2>1, SkipConverges
<1> QED
  BY <1>4, <1>5 DEF reconcileInlineConfigMap

\* The gate lets the pass by only when no ready StatefulSet of an agent is there.
LEMMA CleanupConverges ==
    ASSUME Going, cleanupStaleGeneratedConfigMaps
    PROVE  NoEventLost' /\ Progress'
<1> DEFINE sts == "StatefulSet"
<1>1. /\ pc = "cleanupStaleGeneratedConfigMaps" /\ JobKept
      /\ UNCHANGED <<api, seen, queued, due>>
      /\ \/ pc' = "stale config"
         \/ pc' = "PersistentVolumeClaim" /\ ~(seen[sts] # Absent /\ statefulSetReady(seen[sts]))
  BY DEF cleanupStaleGeneratedConfigMaps, After, Local, cluster, JobKept, ConfigIds
<1>2. NoEventLost' /\ Calm
  BY <1>1, UntouchedCalm DEF Going
<1>3. ASSUME NEW k \in Children, pc' \in Done(k) PROVE pc \in Done(k)
  BY <1>1, <1>3
  DEF Done, Children, ConfigIds, OptKinds, StatusSteps, PastBudget, PastPolicy, PastService,
      PastStatefulSet, PastClaim, PastStaleGateway, PastStaleConfig, PastGateway, PastConfig
<1>4. ASSUME NEW id \in ConfigIds, pc' \in Swept(id) PROVE Cleaned(id)'
  <2>1. pc' # "stale config"
    BY <1>4
    DEF Swept, StatusSteps, PastBudget, PastPolicy, PastService,
        PastStatefulSet, PastClaim, PastStaleGateway, PastStaleConfig
  <2>2. sts \in due \/ ~(OwnedByAgent(api[sts]) /\ statefulSetReady(api[sts]))
    BY <1>1, <2>1 DEF Going, NoEventLost, OwnedByAgent, Children
  <2> QED
    BY <1>1, <2>2 DEF Cleaned, Clean
<1>5. pc' \notin {"resolveReferencedInputs", "idle"}
  BY <1>1
<1>6. pc \notin {"resolveReferencedInputs", "patchStatus", "idle"}
  BY <1>1
<1> QED
  BY <1>1, <1>2, <1>3, <1>4, <1>5, <1>6, PassMoves DEF Going

\* A ConfigMap of a file that is no longer inline goes, if it is this agent's.
LEMMA StaleConverges ==
    ASSUME Going, NEW id \in ConfigIds, deleteStaleConfigMap(id)
    PROVE  NoEventLost' /\ Progress'
<1>1. /\ pc = Stale(id) /\ pc \in CallSteps \ {"resolveReferencedInputs"} /\ id \in Children
  BY DEF deleteStaleConfigMap, Stale, CallSteps, Steps, ChildSteps, StatusSteps, Children,
         ConfigIds
<1>2. job \in Jobs
  BY <1>1, BusyWorker DEF Going, TypeOK, CallSteps
<1>3. (\A k \in Children : pc \notin Own(k)) /\ \A j \in ConfigIds : pc = Stale(j) => j = id
  BY <1>1, OwnSteps
<1>4. pc \notin {"resolveReferencedInputs", "patchStatus", "idle"}
  BY <1>1 DEF Stale
<1>5. ASSUME Calm, Advance,
             id \in due' \/ id \in Generated(job.spec) \/ ~HeldBy(api'[id], job.uid)
      PROVE  Progress'
  <2>1. ASSUME ~queued' PROVE Cleaned(id)'
    <3>1. JobCurrent /\ TargetKept
      BY <1>5, <2>1 DEF Calm, Going, Progress
    <3>2. job.uid = seen'[Agent].uid /\ job.spec = CachedSpec'
      BY <1>4, <3>1 DEF JobCurrent, TargetKept
    <3> QED
      BY <1>5, <3>2 DEF Cleaned, Clean
  <2> QED
    BY <1>1, <1>3, <1>5, <2>1, PassAdvances DEF Going
<1>6. CASE id \notin Generated(job.spec) /\ Delete(id, TRUE)
  <2>1. NoEventLost' /\ Calm
    BY <1>1, <1>6, CallCalm DEF Going, Delete
  <2>2. CASE \E error : Fail(error)
    BY <1>2, <1>4, <2>1, <2>2, FailJob, PassFails DEF Going
  <2>3. CASE Advance /\ Store(id, Absent)
    <3>1. api'[id] = Absent
      BY <1>1, <2>3, StoreEffect, KindsApart DEF Going
    <3> QED
      BY <1>5, <2>1, <2>3, <3>1 DEF HeldBy
  <2> QED
    BY <1>1, <1>6, <2>2, <2>3, DeleteOutcome
<1>7. CASE ~(id \notin Generated(job.spec) /\ ControlledByJob(id)) /\ Skip
  <2>1. NoEventLost' /\ Calm
    BY <1>7, UntouchedCalm DEF Going, Skip, Local, cluster
  <2>2. id \in due \/ id \in Generated(job.spec) \/ ~HeldBy(api[id], job.uid)
    BY <1>1, <1>2, <1>7, NotMine DEF Going
  <2> QED
    BY <1>5, <1>7, <2>1, <2>2 DEF Skip, Local, cluster
<1> QED
  BY <1>6, <1>7 DEF deleteStaleConfigMap

\* The first read of the claim.
LEMMA ClaimReadConverges ==
    ASSUME Going, reconcilePersistentVolumeClaim
    PROVE  NoEventLost' /\ Progress'
<1> DEFINE k == "PersistentVolumeClaim"
<1>1. pc = k /\ pc \in CallSteps \ {"resolveReferencedInputs"} /\ k \in Children
  BY DEF reconcilePersistentVolumeClaim, CallSteps, Steps, ChildSteps, StatusSteps, Children,
         ConfigIds
<1>2. job \in Jobs
  BY <1>1, BusyWorker DEF Going, TypeOK, CallSteps
<1>3. (\A j \in Children : pc \in Own(j) => j = k) /\ \A id \in ConfigIds : pc # Stale(id)
  BY <1>1, OwnSteps
<1>4. CASE ~job.spec.persistence /\ Skip
  <2>1. Fits(k, job.uid, job.spec, job.refs, api[k])
    BY <1>4 DEF Fits, ConfigIds, OptKinds
  <2> QED
    BY <1>1, <1>3, <1>4, <2>1, SkipConverges
<1>5. CASE Fail("NotAQuantity") /\ Local
  <2>1. NoEventLost' /\ Calm
    BY <1>5, UntouchedCalm DEF Going, Local, cluster
  <2> QED
    BY <1>1, <1>2, <1>5, <2>1, FailJob, PassFails DEF Going
<1>6. CASE job' = [job EXCEPT !.first = seen[k]] /\ pc' = WriteStep(pc) /\ Local
  <2>1. NoEventLost' /\ Calm
    BY <1>6, UntouchedCalm DEF Going, Local, cluster
  <2>2. pc' = "write PersistentVolumeClaim" /\ JobKept
    BY <1>1, <1>2, <1>6 DEF WriteStep, JobKept, Jobs
  <2>3. ASSUME NEW j \in Children, pc' \in Done(j) PROVE pc \in Done(j)
    BY <1>1, <2>2, <2>3
    DEF Done, Children, ConfigIds, OptKinds, StatusSteps, PastBudget, PastPolicy, PastService,
        PastStatefulSet, PastClaim, PastStaleGateway, PastStaleConfig, PastGateway, PastConfig
  <2>4. ASSUME NEW id \in ConfigIds, pc' \in Swept(id) PROVE pc \in Swept(id)
    BY <1>1, <2>2, <2>4
    DEF Swept, StatusSteps, PastBudget, PastPolicy, PastService,
        PastStatefulSet, PastClaim, PastStaleGateway, PastStaleConfig
  <2> QED
    BY <1>1, <2>1, <2>2, <2>3, <2>4, PassMoves DEF Going
<1> QED
  BY <1>4, <1>5, <1>6 DEF reconcilePersistentVolumeClaim

\* A claim with the size of the spec, and without drift in what the spec asks for, fits.
LEMMA ClaimFits ==
    ASSUME NEW s, NEW u, NEW refs, NEW o, NEW modes, NEW class,
           HeldBy(o, u), o.spec.size = s.size, o.spec.modes = modes,
           class # None => o.spec.class = class,
           modes = persistenceAccessModes(s), s.class # None => class = s.class
    PROVE  Fits("PersistentVolumeClaim", u, s, refs, o)
<1>1. persistentVolumeClaimImmutableFieldDrift(s, o.spec) = {}
  BY DEF persistentVolumeClaimImmutableFieldDrift, buildPersistentVolumeClaim, ImmutableFields
<1> QED
  BY <1>1 DEF Fits, ConfigIds, OptKinds

\* Such a claim is what the second step sends, and what is stored.
LEMMA ClaimMade ==
    ASSUME TypeOK, job \in Jobs, NEW spec \in ChildSpec("PersistentVolumeClaim"),
           spec.size = job.spec.size, spec.modes = persistenceAccessModes(job.spec),
           job.spec.class # None => spec.class = job.spec.class
    PROVE  LET k == "PersistentVolumeClaim"
           IN  /\ Fits(k, job.uid, job.spec, job.refs, Wanted(k, spec))
               /\ \A port \in NodePorts :
                     Fits(k, job.uid, job.spec, job.refs,
                          Admitted(k, seen[k], Wanted(k, spec), port))
<1> DEFINE k == "PersistentVolumeClaim"
<1>1. k \in Children
  BY DEF Children
<1>2. Fits(k, job.uid, job.spec, job.refs, Wanted(k, spec))
  <2>1. PICK o : o = Wanted(k, spec)
    OBVIOUS
  <2>2. HeldBy(o, job.uid) /\ o.spec = spec
    BY <1>1, <2>1, WantedIs
  <2> QED
    BY <2>1, <2>2, ClaimFits
<1>3. ASSUME NEW port \in NodePorts
      PROVE  Fits(k, job.uid, job.spec, job.refs, Admitted(k, seen[k], Wanted(k, spec), port))
  <2>1. PICK o : o = Admitted(k, seen[k], Wanted(k, spec), port)
    OBVIOUS
  <2>2. HeldBy(o, job.uid)
    BY <1>1, <2>1, AdmittedIs
  <2>3. /\ o.spec.size = spec.size /\ o.spec.modes = spec.modes
        /\ spec.class # None => o.spec.class = spec.class
    BY <2>1, AdmittedClaim
  <2> QED
    BY <2>1, <2>2, <2>3, ClaimFits
<1> QED
  BY <1>2, <1>3

\* The second read of the claim and what follows.
LEMMA ClaimWriteConverges ==
    ASSUME Going, writePersistentVolumeClaim
    PROVE  NoEventLost' /\ Progress'
<1> DEFINE k       == "PersistentVolumeClaim"
           exists  == job.first # Absent
           held    == Held(k)
           drift   == persistentVolumeClaimImmutableFieldDrift(job.spec, held.spec)
           desired == buildPersistentVolumeClaim(job.spec)
<1>1. /\ pc = "write PersistentVolumeClaim" /\ k \in Children /\ pc \in Own(k)
      /\ pc \in CallSteps \ {"resolveReferencedInputs"}
  BY DEF writePersistentVolumeClaim, CallSteps, Steps, ChildSteps, StatusSteps, Children,
         ConfigIds, Own, WriteStep
<1>2. job \in Jobs /\ job.spec \in AgentSpec
  BY <1>1, BusyWorker DEF Going, TypeOK, CallSteps, Jobs
<1>3. (\A j \in Children : pc \in Own(j) => j = k) /\ \A id \in ConfigIds : pc # Stale(id)
  BY <1>1, OwnSteps
<1>4. ASSUME NEW spec \in ChildSpec(k), CreateOrUpdate(k, spec),
             spec.size = job.spec.size, spec.modes = persistenceAccessModes(job.spec),
             job.spec.class # None => spec.class = job.spec.class
      PROVE  NoEventLost' /\ Progress'
  BY <1>1, <1>2, <1>3, <1>4, ClaimMade, CreateOrUpdateConverges DEF Going
<1>5. CASE CreateOrUpdate(k, desired)
  <2>1. desired \in ChildSpec(k)
    BY <1>2, ClaimTyped
  <2>2. /\ desired.size = job.spec.size /\ desired.modes = persistenceAccessModes(job.spec)
        /\ desired.class = job.spec.class
    BY DEF buildPersistentVolumeClaim
  <2> HIDE DEF desired
  <2> QED
    BY <1>4, <1>5, <2>1, <2>2
<1>6. CASE FailWith("persistence", hash, "PersistentVolumeClaimSpecDrift",
                    <<"fields", drift>>, TRUE) /\ Local
  <2>1. NoEventLost' /\ Calm
    BY <1>6, UntouchedCalm DEF Going, Local, cluster
  <2>2. pc' = "patchStatus" /\ job'.retry = TRUE /\ JobKept
    BY <1>2, <1>6, FailWithJob
  <2> QED
    BY <1>1, <2>1, <2>2, PassFails DEF Going
<1>7. CASE exists /\ drift = {} /\ CreateOrUpdate(k, [held.spec EXCEPT !.size = desired.size])
  <2>1. held \in ChildObjects(k)
    <3>1. CASE seen[k] # Absent
      BY <1>1, <3>1, KindsApart, SeenTyped, ObjectKinds DEF Going, TypeOK, Held
    <3>2. CASE seen[k] = Absent
      BY <1>1, <1>7, <3>2, ObjectKinds DEF Going, TypeOK, WorkerTypeOK, Held
    <3> QED
      BY <3>1, <3>2
  <2>2. held.spec \in [modes : SUBSET Modes, class : Classes \cup {None}, size : Nat]
    BY <2>1 DEF ChildObjects, ChildSpec, ConfigIds
  <2>3. /\ held.spec.modes = persistenceAccessModes(job.spec)
        /\ job.spec.class # None => held.spec.class = job.spec.class
    BY <1>7
    DEF persistentVolumeClaimImmutableFieldDrift, buildPersistentVolumeClaim, ImmutableFields
  <2>4. desired.size = job.spec.size /\ job.spec.size \in Nat
    BY <1>2 DEF buildPersistentVolumeClaim, AgentSpec
  <2> HIDE DEF held, desired
  <2>5. PICK spec : spec = [held.spec EXCEPT !.size = desired.size]
    OBVIOUS
  <2>6. /\ spec \in ChildSpec(k) /\ spec.size = job.spec.size
        /\ spec.modes = held.spec.modes /\ spec.class = held.spec.class
    BY <2>2, <2>4, <2>5 DEF ChildSpec, ConfigIds
  <2> QED
    BY <1>4, <1>7, <2>3, <2>5, <2>6
<1> QED
  BY <1>5, <1>6, <1>7 DEF writePersistentVolumeClaim

\* The StatefulSet.
LEMMA WorkloadConverges ==
    ASSUME Going, reconcileStatefulSet
    PROVE  NoEventLost' /\ Progress'
<1> DEFINE k == "StatefulSet"
           s == buildStatefulSet(job.spec, hash)
<1>1. /\ pc = k /\ k \in Children /\ pc \in Own(k)
      /\ pc \in CallSteps \ {"resolveReferencedInputs"}
  BY DEF reconcileStatefulSet, CallSteps, Steps, ChildSteps, StatusSteps, Children,
         ConfigIds, OptKinds, Own
<1>2. job \in Jobs /\ job.spec \in AgentSpec
  BY <1>1, BusyWorker DEF Going, TypeOK, CallSteps, Jobs
<1>3. (\A j \in Children : pc \in Own(j) => j = k) /\ \A id \in ConfigIds : pc # Stale(id)
  BY <1>1, OwnSteps
<1>4. s \in ChildSpec(k)
  BY <1>2, JobHashTyped, StatefulSetTyped
<1>5. s = buildStatefulSet(job.spec, configHash(job.spec, job.refs))
  BY DEF hash
<1>6. CreateOrUpdate(k, s)
  BY DEF reconcileStatefulSet
<1> HIDE DEF s
<1>7. ASSUME NEW o, HeldBy(o, job.uid), o.spec = s
      PROVE  Fits(k, job.uid, job.spec, job.refs, o)
  BY <1>5, <1>7 DEF Fits, ConfigIds, OptKinds
<1>8. Fits(k, job.uid, job.spec, job.refs, Wanted(k, s))
  BY <1>1, <1>2, <1>4, <1>7, WantedIs DEF Going
<1>9. ASSUME NEW port \in NodePorts
      PROVE  Fits(k, job.uid, job.spec, job.refs, Admitted(k, seen[k], Wanted(k, s), port))
  <2>1. PICK o : o = Admitted(k, seen[k], Wanted(k, s), port)
    OBVIOUS
  <2>2. HeldBy(o, job.uid) /\ (k \notin {"PersistentVolumeClaim", "Service"} => o.spec = s)
    BY <1>1, <1>2, <1>4, <2>1, AdmittedIs DEF Going
  <2> QED
    BY <1>7, <2>1, <2>2
<1> QED
  BY <1>1, <1>3, <1>4, <1>6, <1>8, <1>9, CreateOrUpdateConverges DEF Going

\* An optional child is left alone, deleted, refused, or about to be written.
LEMMA OptionalCheckConverges ==
    ASSUME Going, NEW k \in OptKinds, checkOptional(k)
    PROVE  NoEventLost' /\ Progress'
<1>1. /\ pc = k /\ k \in Children /\ pc \in Own(k)
      /\ pc \in CallSteps \ {"resolveReferencedInputs"}
  BY DEF checkOptional, CallSteps, Steps, ChildSteps, StatusSteps, Children, ConfigIds,
         OptKinds, Own
<1>2. job \in Jobs
  BY <1>1, BusyWorker DEF Going, TypeOK, CallSteps
<1>3. (\A j \in Children : pc \in Own(j) => j = k) /\ \A id \in ConfigIds : pc # Stale(id)
  BY <1>1, OwnSteps
<1>4. pc \notin {"resolveReferencedInputs", "patchStatus", "idle"}
  BY <1>1 DEF OptKinds
<1>5. ASSUME NEW o, ~Enabled(k, job.spec), ~HeldBy(o, job.uid)
      PROVE  Fits(k, job.uid, job.spec, job.refs, o)
  BY <1>5 DEF Fits, ConfigIds, OptKinds
<1>6. CASE ~Enabled(k, job.spec) /\ ~ControlledByJob(k) /\ Skip
  <2>1. k \in due \/ Fits(k, job.uid, job.spec, job.refs, api[k])
    BY <1>1, <1>2, <1>5, <1>6, NotMine DEF Going
  <2> QED
    BY <1>1, <1>3, <1>6, <2>1, SkipConverges
<1>7. CASE ~Enabled(k, job.spec) /\ Delete(k, FALSE)
  <2>1. NoEventLost' /\ Calm
    BY <1>1, <1>7, CallCalm DEF Going, Delete
  <2>2. CASE \E error : Fail(error)
    BY <1>2, <1>4, <2>1, <2>2, FailJob, PassFails DEF Going
  <2>3. CASE Advance /\ Store(k, Absent)
    <3>1. Fits(k, job.uid, job.spec, job.refs, api'[k])
      BY <1>1, <1>5, <1>7, <2>3, StoreEffect, KindsApart DEF Going, HeldBy
    <3>2. ASSUME ~queued' PROVE Settled(k)'
      <4>1. JobCurrent
        BY <2>1, <3>2 DEF Calm, Going, Progress
      <4> QED
        BY <1>1, <1>4, <2>1, <3>1, <3>2, <4>1, MadeForTarget
    <3> QED
      BY <1>1, <1>3, <2>1, <2>3, <3>2, PassAdvances DEF Going
  <2> QED
    BY <1>1, <1>7, <2>2, <2>3, DeleteOutcome
<1>8. CASE Fail("NotOwned") /\ Local
  <2>1. NoEventLost' /\ Calm
    BY <1>8, UntouchedCalm DEF Going, Local, cluster
  <2> QED
    BY <1>2, <1>4, <1>8, <2>1, FailJob, PassFails DEF Going
<1>9. CASE job' = [job EXCEPT !.first = seen[k]] /\ pc' = WriteStep(k) /\ Local
  <2>1. NoEventLost' /\ Calm
    BY <1>9, UntouchedCalm DEF Going, Local, cluster
  <2>2. JobKept
    BY <1>2, <1>9 DEF JobKept, Jobs
  <2>3. ASSUME NEW j \in Children, pc' \in Done(j) PROVE pc \in Done(j)
    BY <1>1, <1>9, <2>3
    DEF WriteStep, Done, Children, ConfigIds, OptKinds, StatusSteps, PastBudget, PastPolicy,
        PastService, PastStatefulSet, PastClaim, PastStaleGateway, PastStaleConfig,
        PastGateway, PastConfig
  <2>4. ASSUME NEW id \in ConfigIds, pc' \in Swept(id) PROVE pc \in Swept(id)
    BY <1>1, <1>9, <2>4
    DEF WriteStep, OptKinds, Swept, StatusSteps, PastBudget, PastPolicy, PastService,
        PastStatefulSet, PastClaim, PastStaleGateway, PastStaleConfig
  <2>5. pc' \notin {"resolveReferencedInputs", "idle"}
    BY <1>9 DEF WriteStep, OptKinds
  <2> QED
    BY <1>4, <2>1, <2>2, <2>3, <2>4, <2>5, PassMoves DEF Going
<1> QED
  BY <1>6, <1>7, <1>8, <1>9 DEF checkOptional

\* An optional child is written only when the spec asks for it.
WritesEnabled == \A k \in OptKinds : pc = WriteStep(k) => Enabled(k, job.spec)

\* serviceSpec is the desired spec but for the node port.
LEMMA ServiceSpecIs ==
    ASSUME TypeOK, job \in Jobs, job.spec.service # None
    PROVE  /\ serviceSpec \in ChildSpec("Service")
           /\ [serviceSpec EXCEPT !.nodePort = 0] = buildService(job.spec)
<1>1. PICK d : d = buildService(job.spec)
  OBVIOUS
<1>2. d \in ChildSpec("Service") /\ d.nodePort = 0
  BY <1>1, ServiceTyped DEF buildService, Jobs
<1>3. seen["Service"] # Absent => seen["Service"].spec.nodePort \in Nat
  BY SeenTyped, ObjectKinds, KindsApart
  DEF TypeOK, Children, OptKinds, ChildObjects, ChildSpec, ConfigIds
<1> QED
  BY <1>1, <1>2, <1>3 DEF serviceSpec, ChildSpec, ConfigIds

\* An optional child that the spec asks for.
LEMMA OptionalWriteConverges ==
    ASSUME Going, WritesEnabled, NEW k \in OptKinds, writeOptional(k)
    PROVE  NoEventLost' /\ Progress'
<1> DEFINE s == IF k = "Service" THEN serviceSpec ELSE Desired(k, job.spec, job.refs)
<1>1. /\ pc = WriteStep(k) /\ k \in Children /\ pc \in Own(k)
      /\ pc \in CallSteps \ {"resolveReferencedInputs"}
  BY DEF writeOptional, WriteStep, CallSteps, Steps, ChildSteps, StatusSteps, Children,
         ConfigIds, OptKinds, Own
<1>2. job \in Jobs /\ job.spec \in AgentSpec
  BY <1>1, BusyWorker DEF Going, TypeOK, CallSteps, Jobs
<1>3. (\A j \in Children : pc \in Own(j) => j = k) /\ \A id \in ConfigIds : pc # Stale(id)
  BY <1>1, OwnSteps
<1>4. Enabled(k, job.spec)
  BY <1>1 DEF WritesEnabled
<1>5. k = "Service" => job.spec.service # None
  BY <1>4 DEF Enabled
<1>6. s \in ChildSpec(k)
  <2>1. CASE k = "Service"
    BY <1>2, <1>5, <2>1, ServiceSpecIs DEF Going
  <2>2. CASE k = "NetworkPolicy"
    BY <2>2 DEF Desired, ConfigIds, ChildSpec, buildNetworkPolicy
  <2>3. CASE k = "PodDisruptionBudget"
    BY <2>3 DEF Desired, ConfigIds, ChildSpec, buildPodDisruptionBudget
  <2> QED
    BY <2>1, <2>2, <2>3 DEF OptKinds
<1>7. CreateOrUpdate(k, s)
  BY DEF writeOptional
<1>8. CASE k = "Service"
  <2>1. s = serviceSpec
    BY <1>8
  <2> HIDE DEF s
  <2>2. [s EXCEPT !.nodePort = 0] = buildService(job.spec)
    BY <1>2, <1>5, <1>8, <2>1, ServiceSpecIs DEF Going
  <2>3. ASSUME NEW o, HeldBy(o, job.uid),
               [o.spec EXCEPT !.nodePort = 0] = buildService(job.spec)
        PROVE  Fits(k, job.uid, job.spec, job.refs, o)
    BY <1>4, <1>8, <2>3 DEF Fits, ConfigIds, OptKinds
  <2>4. Fits(k, job.uid, job.spec, job.refs, Wanted(k, s))
    <3>1. PICK o : o = Wanted(k, s)
      OBVIOUS
    <3>2. HeldBy(o, job.uid) /\ o.spec = s
      BY <1>1, <1>2, <1>6, <3>1, WantedIs DEF Going
    <3> QED
      BY <2>2, <2>3, <3>1, <3>2
  <2>5. ASSUME NEW port \in NodePorts
        PROVE  Fits(k, job.uid, job.spec, job.refs, Admitted(k, seen[k], Wanted(k, s), port))
    <3>1. PICK o : o = Admitted(k, seen[k], Wanted(k, s), port)
      OBVIOUS
    <3>2. HeldBy(o, job.uid)
      BY <1>1, <1>2, <1>6, <3>1, AdmittedIs DEF Going
    <3>3. [o.spec EXCEPT !.nodePort = 0] = [s EXCEPT !.nodePort = 0]
      BY <1>2, <1>6, <1>8, <3>1, AdmittedService DEF Going
    <3> QED
      BY <2>2, <2>3, <3>1, <3>2, <3>3
  <2> QED
    BY <1>1, <1>3, <1>6, <1>7, <2>4, <2>5, CreateOrUpdateConverges DEF Going
<1>9. CASE k # "Service"
  <2>1. s = Desired(k, job.spec, job.refs)
    BY <1>9
  <2> HIDE DEF s
  <2>2. ASSUME NEW o, HeldBy(o, job.uid), o.spec = s
        PROVE  Fits(k, job.uid, job.spec, job.refs, o)
    BY <1>4, <1>9, <2>1, <2>2 DEF Fits, ConfigIds, OptKinds
  <2>3. Fits(k, job.uid, job.spec, job.refs, Wanted(k, s))
    BY <1>1, <1>2, <1>6, <2>2, WantedIs DEF Going
  <2>4. ASSUME NEW port \in NodePorts
        PROVE  Fits(k, job.uid, job.spec, job.refs, Admitted(k, seen[k], Wanted(k, s), port))
    <3>1. PICK o : o = Admitted(k, seen[k], Wanted(k, s), port)
      OBVIOUS
    <3>2. HeldBy(o, job.uid) /\ (k \notin {"PersistentVolumeClaim", "Service"} => o.spec = s)
      BY <1>1, <1>2, <1>6, <3>1, AdmittedIs DEF Going
    <3>3. k # "PersistentVolumeClaim"
      BY DEF OptKinds
    <3> QED
      BY <1>9, <2>2, <3>1, <3>2, <3>3
  <2> QED
    BY <1>1, <1>3, <1>6, <1>7, <2>3, <2>4, CreateOrUpdateConverges DEF Going
<1> QED
  BY <1>8, <1>9

-----------------------------------------------------------------------------
(* The ends of a pass.                                                     *)

\* A pass begins with the agent as the cache shows it.
LEMMA ReconcileConverges ==
    ASSUME Going, Reconcile
    PROVE  NoEventLost' /\ Progress'
<1>1. UNCHANGED <<api, seen, due>>
  BY DEF Reconcile
<1>2. NoEventLost'
  BY <1>1 DEF Going, NoEventLost
<1>3. ASSUME ~queued' PROVE JobCurrent' /\ WorkKept'
  <2> DEFINE agent == seen[Agent]
             fresh == [ uid |-> agent.uid, gen |-> agent.gen, spec |-> agent.spec,
                        refs |-> [i \in Inputs |-> Absent], first |-> Absent,
                        mark |-> None, retry |-> FALSE ]
             mark  == [stage |-> "config", hash |-> None, reason |-> "InvalidConfig",
                       message |-> <<>>]
  <2>1. \/ agent = Absent /\ pc' = "idle"
        \/ agent # Absent /\ ~agent.spec.valid /\ job' = Marked(fresh, mark, FALSE)
              /\ pc' = "patchStatus"
        \/ agent # Absent /\ agent.spec.valid /\ job' = fresh
              /\ pc' = "resolveReferencedInputs"
    BY <1>3 DEF Reconcile
  <2>2. CASE agent = Absent /\ pc' = "idle"
    BY <1>1, <2>2 DEF JobCurrent, WorkKept, Excused, Resolves
  <2>3. CASE agent # Absent /\ ~agent.spec.valid /\ job' = Marked(fresh, mark, FALSE)
                /\ pc' = "patchStatus"
    <3>1. job'.uid = agent.uid /\ job'.spec = agent.spec
      BY <2>3 DEF Marked
    <3> QED
      BY <1>1, <2>3, <3>1 DEF JobCurrent, WorkKept, Excused, Resolves, CachedSpec
  <2>4. CASE agent # Absent /\ agent.spec.valid /\ job' = fresh
                /\ pc' = "resolveReferencedInputs"
    <3>1. JobCurrent'
      BY <1>1, <2>4 DEF JobCurrent, CachedSpec
    <3>2. /\ \A k \in Children : pc' \notin Done(k)
          /\ \A id \in ConfigIds : pc' \notin Swept(id)
      BY <2>4
      DEF Done, Swept, Children, ConfigIds, OptKinds, StatusSteps, PastBudget, PastPolicy,
          PastService, PastStatefulSet, PastClaim, PastStaleGateway, PastStaleConfig,
          PastGateway, PastConfig
    <3> QED
      BY <3>1, <3>2 DEF WorkKept
  <2> QED
    BY <2>1, <2>2, <2>3, <2>4
<1> QED
  BY <1>2, <1>3 DEF Progress

\* The inputs of the pass are the ones the cache shows.
LEMMA ResolveConverges ==
    ASSUME Going, resolveReferencedInputs
    PROVE  NoEventLost' /\ Progress'
<1> DEFINE refs    == Snapshot(job.spec, seen)
           missing == missingReferences(job.spec, refs)
<1>1. pc = "resolveReferencedInputs" /\ UNCHANGED <<api, seen, queued, due>>
  BY DEF resolveReferencedInputs, Local, cluster
<1>2. NoEventLost' /\ Calm
  BY <1>1, UntouchedCalm DEF Going
<1>3. job \in Jobs
  BY <1>1, BusyWorker DEF Going, TypeOK, Steps
<1>4. ASSUME ~queued' PROVE JobCurrent' /\ WorkKept'
  <2>1. /\ seen[Agent] # Absent /\ job.uid = seen[Agent].uid /\ job.spec = CachedSpec
        /\ CachedSpec.valid
    BY <1>1, <1>4 DEF Going, Progress, JobCurrent
  <2>2. refs = CachedRefs /\ missing = Missing
    BY <2>1 DEF CachedRefs, Missing
  <2>3. CachedSpec' = CachedSpec /\ CachedRefs' = CachedRefs /\ Missing' = Missing
    BY <1>1 DEF CachedSpec, CachedRefs, Missing
  <2>4. CASE missing = {} /\ job' = [job EXCEPT !.refs = refs] /\ pc' = After(pc)
    <3>1. pc' = "config"
      BY <1>1, <2>4 DEF After
    <3>2. job'.uid = job.uid /\ job'.spec = job.spec /\ job'.refs = refs
      BY <1>3, <2>4 DEF Jobs
    <3>3. JobCurrent'
      BY <1>1, <2>1, <2>2, <2>3, <2>4, <3>1, <3>2 DEF JobCurrent
    <3>4. /\ \A k \in Children : pc' \notin Done(k)
          /\ \A id \in ConfigIds : pc' \notin Swept(id)
      BY <3>1
      DEF Done, Swept, Children, ConfigIds, OptKinds, StatusSteps, PastBudget, PastPolicy,
          PastService, PastStatefulSet, PastClaim, PastStaleGateway, PastStaleConfig,
          PastGateway, PastConfig
    <3> QED
      BY <3>3, <3>4 DEF WorkKept
  <2>5. CASE missing # {} /\ FailWith("config", None, "MissingReferencedInput",
                                      <<"missing", missing>>, FALSE)
    <3>1. pc' = "patchStatus" /\ JobKept
      BY <1>3, <2>5, FailWithJob
    <3>2. JobCurrent'
      BY <1>1, <2>1, <2>3, <3>1 DEF JobCurrent, JobKept
    <3>3. ~Resolves'
      BY <2>2, <2>3, <2>5 DEF Resolves
    <3> QED
      BY <3>1, <3>2, <3>3 DEF WorkKept, Excused
  <2> QED
    BY <2>4, <2>5 DEF resolveReferencedInputs
<1> QED
  BY <1>2, <1>4 DEF Progress

\* The two reads of the status view.
LEMMA ViewConverges ==
    ASSUME Going, readClaim \/ readStatefulSet
    PROVE  NoEventLost' /\ Progress'
<1>1. /\ UNCHANGED <<api, seen, queued, due>>
      /\ \/ pc = "readStatusView" /\ pc' = "readStatusView StatefulSet"
         \/ pc = "readStatusView StatefulSet" /\ pc' = "patchStatus"
  BY DEF readClaim, readStatefulSet, Local, cluster, After, ConfigIds
<1>2. NoEventLost' /\ Calm
  BY <1>1, UntouchedCalm DEF Going
<1>3. job \in Jobs
  BY <1>1, BusyWorker DEF Going, TypeOK, Steps, StatusSteps
<1>4. JobKept
  <2>1. CASE readClaim
    BY <1>3, <2>1 DEF readClaim, Jobs, JobKept
  <2>2. CASE readStatefulSet
    <3>1. \E mark : job' = Marked(job, mark, FALSE)
      BY <2>2 DEF readStatefulSet
    <3> QED
      BY <1>3, <3>1 DEF Marked, Jobs, JobKept
  <2> QED
    BY <2>1, <2>2
<1>5. \A k \in Children : pc \in Done(k)
  BY <1>1
  DEF Done, Children, ConfigIds, OptKinds, StatusSteps, PastBudget, PastPolicy, PastService,
      PastStatefulSet, PastClaim, PastStaleGateway, PastStaleConfig, PastGateway, PastConfig
<1>6. \A id \in ConfigIds : pc \in Swept(id)
  BY <1>1
  DEF Swept, StatusSteps, PastBudget, PastPolicy, PastService, PastStatefulSet, PastClaim,
      PastStaleGateway, PastStaleConfig
<1>7. /\ pc \notin {"resolveReferencedInputs", "patchStatus", "idle"}
      /\ pc' \notin {"resolveReferencedInputs", "idle"}
  BY <1>1
<1> QED
  BY <1>2, <1>4, <1>5, <1>6, <1>7, PassMoves DEF Going

\* The patch writes a status to the stored agent, if there is one, or nothing.
LEMMA PatchWrites ==
    ASSUME TypeOK, patchStatus
    PROVE  \/ UNCHANGED <<api, seen>>
           \/ /\ api[Agent] # Absent
              /\ \E st \in AgentStatus :
                    /\ api' = [api EXCEPT ![Agent] = [api[Agent] EXCEPT !.status = st]]
                    /\ seen' = SeenAfter(Agent, [api[Agent] EXCEPT !.status = st])
<1> DEFINE latest == seen[Agent]
           base   == latest.status
           after  == mutate(stamped(latest))
           merged == mergePatch(base, after, api[Agent].status)
<1>1. job \in Jobs /\ job.mark \in Marks
  BY BusyWorker DEF TypeOK, WorkerTypeOK, patchStatus, Steps, StatusSteps
<1>2. latest \in AgentObjects \cup {Absent} /\ api[Agent] \in AgentObjects \cup {Absent}
  BY KindsApart, SeenTyped, ObjectKinds DEF TypeOK
<1>3. ASSUME latest # Absent, api[Agent] # Absent
      PROVE  merged \in AgentStatus
  <2>1. base \in AgentStatus /\ latest.gen \in Nat /\ api[Agent].status \in AgentStatus
    BY <1>2, <1>3 DEF AgentObjects
  <2>2. stamped(latest) \in AgentStatus
    BY <2>1 DEF stamped, AgentStatus
  <2> QED
    BY <1>1, <2>1, <2>2, MutateTyped, MergeTyped
<1>4. \/ UNCHANGED <<api, seen>>
      \/ /\ latest # Absent /\ api[Agent] # Absent
         /\ api' = [api EXCEPT ![Agent] = [api[Agent] EXCEPT !.status = merged]]
         /\ seen' = SeenAfter(Agent, [api[Agent] EXCEPT !.status = merged])
  BY DEF patchStatus
<1> HIDE DEF merged, latest
<1> QED
  BY <1>3, <1>4

\* The patch changes nothing of the agent but its status.
LEMMA PatchCalm ==
    ASSUME TypeOK, Current, NoEventLost, patchStatus
    PROVE  NoEventLost' /\ Calm
<1> USE KindsApart
<1>1. /\ pc = "patchStatus" /\ due' = due /\ (queued => queued')
      /\ \/ UNCHANGED <<api, seen>>
         \/ /\ api[Agent] # Absent
            /\ \E st \in AgentStatus :
                  /\ api' = [api EXCEPT ![Agent] = [api[Agent] EXCEPT !.status = st]]
                  /\ seen' = SeenAfter(Agent, [api[Agent] EXCEPT !.status = st])
  BY PatchWrites DEF patchStatus, Finish
<1>2. CASE UNCHANGED <<api, seen>>
  BY <1>1, <1>2, UntouchedCalm
<1>3. CASE /\ api[Agent] # Absent
           /\ \E st \in AgentStatus :
                 /\ api' = [api EXCEPT ![Agent] = [api[Agent] EXCEPT !.status = st]]
                 /\ seen' = SeenAfter(Agent, [api[Agent] EXCEPT !.status = st])
  <2>1. PICK o : /\ \E st \in AgentStatus : o = [api[Agent] EXCEPT !.status = st]
                 /\ api' = [api EXCEPT ![Agent] = o] /\ seen' = SeenAfter(Agent, o)
    BY <1>3
  <2>2. api[Agent] \in AgentObjects
    BY <1>3, SeenTyped, ObjectKinds DEF TypeOK
  <2>3. o # Absent /\ o.uid = api[Agent].uid /\ o.gen = api[Agent].gen /\ o.spec = api[Agent].spec
    <3>1. o \in AgentObjects
      BY <2>1, <2>2 DEF AgentObjects
    <3>2. o.uid = api[Agent].uid /\ o.gen = api[Agent].gen /\ o.spec = api[Agent].spec
      BY <2>1, <2>2 DEF AgentObjects
    <3> QED
      BY <3>1, <3>2, ObjectsAssumption
  <2>4. SameAgent(api[Agent], o)
    BY <1>3, <2>3 DEF SameAgent
  <2>5. DOMAIN api = Kinds /\ DOMAIN seen = Kinds
    BY DEF TypeOK, ClusterTypeOK
  <2>6. /\ api'[Agent] = o
        /\ \A j \in Kinds : j # Agent => api'[j] = api[j] /\ seen'[j] = seen[j]
        /\ Agent \in LaggyKinds => seen'[Agent] = seen[Agent]
        /\ Agent \notin LaggyKinds => seen'[Agent] = o /\ seen[Agent] = api[Agent]
    BY <2>1, <2>5 DEF SeenAfter, Current
  <2>7. SameAgent(seen[Agent], seen'[Agent])
    BY <2>4, <2>6 DEF SameAgent
  <2>8. NoEventLost'
    <3>1. Agent \in due' \/ SameAgent(seen'[Agent], api'[Agent])
      BY <1>1, <2>4, <2>6 DEF NoEventLost, SameAgent
    <3>2. \A i \in Inputs : i \in due' \/ seen'[i] = api'[i]
      BY <1>1, <2>6 DEF NoEventLost
    <3>3. \A k \in Children :
            \/ k \in due'
            \/ seen'[k] = api'[k]
            \/ ~OwnedByAgent(seen'[k]) /\ ~OwnedByAgent(api'[k])
      BY <1>1, <2>6 DEF NoEventLost
    <3> QED
      BY <3>1, <3>2, <3>3 DEF NoEventLost
  <2>9. TargetKept
    BY <2>6, <2>7, TargetSame
  <2>10. \A k \in Children : ChildKept(k)
    BY <1>1, <2>6 DEF ChildKept
  <2> QED
    BY <1>1, <2>8, <2>9, <2>10 DEF Calm
<1> QED
  BY <1>1, <1>2, <1>3

\* The pass ends: it is queued again, or excused, or all its work stands.
LEMMA PatchConverges ==
    ASSUME Going, patchStatus
    PROVE  NoEventLost' /\ Progress'
<1>1. NoEventLost' /\ Calm
  BY PatchCalm DEF Going
<1>2. pc = "patchStatus" /\ pc' = "idle" /\ (job.retry => queued')
  BY DEF patchStatus, Finish
<1>3. ASSUME ~queued' PROVE JobCurrent' /\ WorkKept'
  <2>1. ~queued /\ TargetKept /\ JobCurrent /\ WorkKept /\ ~job.retry
    BY <1>1, <1>2, <1>3 DEF Calm, Going, Progress
  <2>2. Resolves' <=> Resolves
    BY <1>1, <1>3, ResolvesKept
  <2>3. JobCurrent'
    BY <1>2 DEF JobCurrent
  <2>4. CASE ~Resolves
    BY <1>2, <2>2, <2>3, <2>4 DEF WorkKept, Excused
  <2>5. CASE Resolves
    <3>1. ~Excused /\ seen[Agent] # Absent
      BY <1>2, <2>1, <2>5 DEF Excused, Resolves
    <3>2. \A k \in Children : pc \in Done(k)
      BY <1>2
      DEF Done, Children, ConfigIds, OptKinds, StatusSteps, PastBudget, PastPolicy,
          PastService, PastStatefulSet, PastClaim, PastStaleGateway, PastStaleConfig,
          PastGateway, PastConfig
    <3>3. \A id \in ConfigIds : pc \in Swept(id)
      BY <1>2
      DEF Swept, StatusSteps, PastBudget, PastPolicy, PastService, PastStatefulSet,
          PastClaim, PastStaleGateway, PastStaleConfig
    <3>4. ASSUME NEW k \in Children PROVE Settled(k)'
      BY <1>1, <1>3, <2>1, <3>1, <3>2, SettledStays DEF Going, WorkKept
    <3>5. ASSUME NEW id \in ConfigIds PROVE Cleaned(id)'
      BY <1>1, <1>3, <2>1, <3>1, <3>3, CleanedStays DEF Going, WorkKept
    <3> QED
      BY <2>3, <3>4, <3>5 DEF WorkKept
  <2> QED
    BY <2>4, <2>5
<1> QED
  BY <1>1, <1>3 DEF Progress

\* A failed read of the status view, and a call that fails before it has any effect.
LEMMA FailuresConverge ==
    ASSUME Going, failedStatusView \/ FailedCall
    PROVE  NoEventLost' /\ Progress'
<1>1. CASE failedStatusView
  <2>1. queued' /\ UNCHANGED <<api, seen, due>>
    BY <1>1 DEF failedStatusView, Finish
  <2> QED
    BY <2>1, UntouchedCalm DEF Going, Progress
<1>2. CASE FailedCall
  <2>1. NoEventLost' /\ Calm
    BY <1>2, UntouchedCalm DEF FailedCall, Going
  <2>2. job \in Jobs /\ pc \notin {"patchStatus", "idle"}
    BY <1>2, BusyWorker
    DEF FailedCall, Going, TypeOK, Steps, StatusSteps, ChildSteps, Children, ConfigIds, OptKinds
  <2> QED
    BY <1>2, <2>1, <2>2, FailJob, PassFails DEF FailedCall, Going
<1> QED
  BY <1>1, <1>2

\* Every step of the worker.
LEMMA WorkerConverges ==
    ASSUME Going, WritesEnabled, Worker
    PROVE  NoEventLost' /\ Progress'
<1>1. CASE \E id \in ConfigIds : reconcileInlineConfigMap(id) \/ deleteStaleConfigMap(id)
  BY <1>1, InlineConfigMapConverges, StaleConverges
<1>2. CASE \E k \in OptKinds : checkOptional(k) \/ writeOptional(k)
  BY <1>2, OptionalCheckConverges, OptionalWriteConverges
<1> QED
  BY <1>1, <1>2, ReconcileConverges, ResolveConverges, CleanupConverges, ClaimReadConverges,
     ClaimWriteConverges, WorkloadConverges, ViewConverges, PatchConverges, FailuresConverge
  DEF Worker

\* No call is followed by the writing of an optional child but the check of that child.
LEMMA AdvanceNotToWrite ==
    ASSUME pc \in CallSteps, NEW k \in OptKinds
    PROVE  After(pc) # WriteStep(k)
  BY DEF After, WriteStep, CallSteps, Steps, ChildSteps, StatusSteps, Children, ConfigIds,
         OptKinds

\* Whoever writes an optional child has found that the spec asks for it.
LEMMA WritesStayEnabled == TypeOK /\ WritesEnabled /\ [Next]_vars => WritesEnabled'
<1> SUFFICES ASSUME TypeOK, WritesEnabled, [Next]_vars PROVE WritesEnabled'
  OBVIOUS
<1>1. CASE UNCHANGED <<pc, job>>
  BY <1>1 DEF WritesEnabled
<1>2. CASE pc' \in {"idle", "patchStatus", "resolveReferencedInputs", "config",
                    "stale config", "PersistentVolumeClaim", "write PersistentVolumeClaim",
                    "readStatusView StatefulSet"}
  BY <1>2 DEF WritesEnabled, WriteStep, OptKinds
<1>3. CASE pc \in CallSteps /\ Advance
  BY <1>3, AdvanceNotToWrite DEF Advance, WritesEnabled
<1>4. CASE \E stage, h, reason, message, retry : FailWith(stage, h, reason, message, retry)
  BY <1>2, <1>4 DEF FailWith
<1>5. ASSUME pc \in CallSteps,
             \/ \E k, spec : CreateOrUpdate(k, spec)
             \/ \E k, ignore : Delete(k, ignore)
             \/ Skip
             \/ \E error : Fail(error)
      PROVE  WritesEnabled'
  BY <1>3, <1>4, <1>5, CreateOrUpdateEnds, DeleteEnds DEF Skip, Fail
<1>6. CASE Worker
  <2>1. ASSUME NEW id \in ConfigIds, reconcileInlineConfigMap(id) \/ deleteStaleConfigMap(id)
        PROVE  WritesEnabled'
    <3>1. pc \in CallSteps
      BY <2>1
      DEF reconcileInlineConfigMap, deleteStaleConfigMap, Stale, CallSteps, Steps, ChildSteps,
          StatusSteps, Children, ConfigIds
    <3> QED
      BY <1>5, <2>1, <3>1 DEF reconcileInlineConfigMap, deleteStaleConfigMap
  <2>2. ASSUME NEW k \in OptKinds, checkOptional(k)
        PROVE  WritesEnabled'
    <3>1. pc \in CallSteps /\ pc \in Steps
      BY <2>2
      DEF checkOptional, CallSteps, Steps, ChildSteps, StatusSteps, Children, ConfigIds, OptKinds
    <3>2. CASE Enabled(k, job.spec) /\ job' = [job EXCEPT !.first = seen[k]]
                 /\ pc' = WriteStep(k)
      <4>1. job'.spec = job.spec
        BY <3>1, <3>2, BusyWorker DEF TypeOK, Jobs
      <4>2. \A j \in OptKinds : WriteStep(j) = WriteStep(k) => j = k
        BY DEF WriteStep, OptKinds
      <4> QED
        BY <3>2, <4>1, <4>2 DEF WritesEnabled
    <3> QED
      BY <1>5, <2>2, <3>1, <3>2 DEF checkOptional
  <2>3. ASSUME NEW k \in OptKinds, writeOptional(k)
        PROVE  WritesEnabled'
    <3>1. pc \in CallSteps
      BY <2>3
      DEF writeOptional, WriteStep, CallSteps, Steps, ChildSteps, StatusSteps, Children,
          ConfigIds, OptKinds
    <3> QED
      BY <1>5, <2>3, <3>1 DEF writeOptional
  <2>4. CASE reconcileStatefulSet \/ writePersistentVolumeClaim
    <3>1. pc \in CallSteps
      BY <2>4
      DEF reconcileStatefulSet, writePersistentVolumeClaim, CallSteps, Steps, ChildSteps,
          StatusSteps, Children, ConfigIds
    <3> QED
      BY <1>4, <1>5, <2>4, <3>1 DEF reconcileStatefulSet, writePersistentVolumeClaim
  <2>5. CASE reconcilePersistentVolumeClaim
    <3>1. pc = "PersistentVolumeClaim" /\ pc \in CallSteps
      BY <2>5
      DEF reconcilePersistentVolumeClaim, CallSteps, Steps, ChildSteps, StatusSteps, Children,
          ConfigIds
    <3>2. pc' = WriteStep(pc) => pc' = "write PersistentVolumeClaim"
      BY <3>1 DEF WriteStep
    <3> QED
      BY <1>2, <1>5, <2>5, <3>1, <3>2 DEF reconcilePersistentVolumeClaim
  <2>6. CASE resolveReferencedInputs \/ cleanupStaleGeneratedConfigMaps \/ readClaim
                \/ readStatefulSet
    <3>1. \/ pc' \in {"config", "stale config", "PersistentVolumeClaim",
                      "readStatusView StatefulSet", "patchStatus"}
          \/ \E stage, h, reason, message, retry : FailWith(stage, h, reason, message, retry)
      BY <2>6
      DEF resolveReferencedInputs, cleanupStaleGeneratedConfigMaps, readClaim, readStatefulSet,
          After, ConfigIds
    <3> QED
      BY <1>2, <1>4, <3>1
  <2>7. CASE Reconcile \/ failedStatusView \/ patchStatus
    BY <1>1, <1>2, <2>7 DEF Reconcile, failedStatusView, patchStatus, Finish
  <2>8. CASE FailedCall
    BY <1>4, <2>8 DEF FailedCall, Fail
  <2> QED
    BY <1>6, <2>1, <2>2, <2>3, <2>4, <2>5, <2>6, <2>7, <2>8 DEF Worker
<1>7. CASE Restart
  BY <1>2, <1>7 DEF Restart
<1> QED
  BY <1>1, <1>6, <1>7 DEF Next, Environment, vars

-----------------------------------------------------------------------------
(* The theorem.                                                            *)

\* What is inductive.
ConvergenceInv == Going /\ WritesEnabled

\* The invariant holds from the start.
LEMMA ConvergenceStarts == Init => ConvergenceInv
<1>1. Init => WritesEnabled
  BY DEF Init, WritesEnabled, WriteStep, OptKinds
<1>2. Init => Current
  BY DEF Init, ClusterInit, Current
<1> QED
  BY <1>1, <1>2, InitTyped, ConvergenceInitial DEF ConvergenceInv, Going

\* Every step keeps it.
LEMMA ConvergenceInductive == ConvergenceInv /\ [Next]_vars => ConvergenceInv'
<1> SUFFICES ASSUME ConvergenceInv, [Next]_vars PROVE ConvergenceInv'
  OBVIOUS
<1>1. TypeOK /\ Current /\ NoEventLost /\ Progress /\ WritesEnabled
  BY DEF ConvergenceInv, Going
<1>2. NoEventLost' /\ Progress'
  <2>1. CASE Worker
    BY <2>1, WorkerConverges DEF ConvergenceInv
  <2>2. CASE Environment
    BY <1>1, <2>2, OthersConverge
  <2>3. CASE Restart
    BY <1>1, <2>3, RestartConverges
  <2>4. CASE UNCHANGED vars
    <3>1. UNCHANGED <<api, seen, due, queued, pc, job>>
      BY <2>4 DEF vars
    <3> QED
      BY <1>1, <3>1, UntouchedCalm, OthersKeepProgress
  <2> QED
    BY <2>1, <2>2, <2>3, <2>4 DEF Next
<1> QED
  BY <1>1, <1>2, StepTyped, CurrentInductive, WritesStayEnabled DEF ConvergenceInv, Going

\* While the operator sleeps, what fits the caches is what the agent wants.
LEMMA ConvergedWhenQuiet == ConvergenceInv => ChildrenConverged
<1> SUFFICES ASSUME ConvergenceInv, Quiet, api[Agent] # Absent, Reconcilable
             PROVE  /\ \A id \in Generated(CurrentSpec) :
                          Mine(id) /\ api[id].spec = CurrentSpec.src[id]
                    /\ CurrentSpec.persistence => ClaimConverged
                    /\ Mine("StatefulSet")
                    /\ api["StatefulSet"].spec =
                          Desired("StatefulSet", CurrentSpec, CurrentRefs)
                    /\ \A k \in OptKinds : OptionalConverged(k)
                    /\ statefulSetReady(api["StatefulSet"]) =>
                          \A id \in ConfigIds \ Generated(CurrentSpec) : ~Mine(id)
  BY DEF ChildrenConverged
<1>1. pc = "idle" /\ ~queued /\ due = {} /\ seen = api
  BY DEF Quiet
<1>2. CachedSpec = CurrentSpec /\ CachedRefs = CurrentRefs
  BY <1>1 DEF CachedSpec, CurrentSpec, CachedRefs, CurrentRefs
<1>3. Resolves
  BY <1>1, <1>2 DEF Resolves, Missing, Reconcilable
<1>4. WorkKept /\ ~Excused
  BY <1>1, <1>3 DEF ConvergenceInv, Going, Progress, Excused
<1>5. /\ \A k \in Children : pc \in Done(k)
      /\ \A id \in ConfigIds : pc \in Swept(id)
  BY <1>1
  DEF Done, Swept, Children, ConfigIds, OptKinds, StatusSteps, PastBudget, PastPolicy,
      PastService, PastStatefulSet, PastClaim, PastStaleGateway, PastStaleConfig,
      PastGateway, PastConfig
<1>6. \A k \in Children : Fits(k, api[Agent].uid, CurrentSpec, CurrentRefs, api[k])
  BY <1>1, <1>2, <1>4, <1>5 DEF WorkKept, Settled
<1>7. \A k : Mine(k) <=> HeldBy(api[k], api[Agent].uid)
  BY DEF Mine, HeldBy
<1>8. ASSUME NEW id \in Generated(CurrentSpec)
      PROVE  Mine(id) /\ api[id].spec = CurrentSpec.src[id]
  <2>1. id \in ConfigIds /\ id \in Children
    BY <1>8 DEF Generated, Children
  <2> QED
    BY <1>6, <1>7, <1>8, <2>1 DEF Fits, ConfigIds, OptKinds
<1>9. CurrentSpec.persistence => ClaimConverged
  <2>1. "PersistentVolumeClaim" \in Children
    BY DEF Children
  <2> QED
    BY <1>6, <1>7, <2>1 DEF ClaimConverged, Fits, ConfigIds, OptKinds
<1>10. /\ Mine("StatefulSet")
       /\ api["StatefulSet"].spec = Desired("StatefulSet", CurrentSpec, CurrentRefs)
  <2>1. "StatefulSet" \in Children
    BY DEF Children
  <2> QED
    BY <1>6, <1>7, <2>1 DEF Fits, Desired, ConfigIds, OptKinds
<1>11. ASSUME NEW k \in OptKinds PROVE OptionalConverged(k)
  <2>1. k \in Children
    BY DEF Children
  <2>2. Fits(k, api[Agent].uid, CurrentSpec, CurrentRefs, api[k])
    BY <1>6, <2>1
  <2> QED
    BY <1>7, <2>2 DEF OptionalConverged, Fits, ConfigIds, OptKinds
<1>12. ASSUME statefulSetReady(api["StatefulSet"]), NEW id \in ConfigIds \ Generated(CurrentSpec)
       PROVE  ~Mine(id)
  <2>1. Clean(id, api[Agent].uid, CurrentSpec, api[id], api["StatefulSet"])
    BY <1>1, <1>2, <1>4, <1>5, <1>12 DEF WorkKept, Cleaned
  <2>2. OwnedByAgent(api["StatefulSet"])
    <3>1. api[Agent].uid \in Nat \ {0}
      BY <1>1, CachedUid DEF ConvergenceInv, Going
    <3> QED
      BY <1>10, <3>1 DEF Mine, OwnedByAgent
  <2> QED
    BY <1>7, <1>12, <2>1, <2>2 DEF Clean
<1> QED
  BY <1>8, <1>9, <1>10, <1>11, <1>12

\* Whatever caches lag, whatever fails and whenever the manager restarts: while the
\* operator sleeps and the agent's configuration resolves, every child is what the agent
\* wants (Reconcile, SetupWithManager).
THEOREM ChildrenConverge == Spec => []ChildrenConverged
<1>1. ConvergenceInv => ChildrenConverged
  BY ConvergedWhenQuiet
<1> QED
  BY <1>1, ConvergenceStarts, ConvergenceInductive, PTL DEF Spec

-----------------------------------------------------------------------------
(* The status.                                                             *)

Claim    == "PersistentVolumeClaim"
Workload == "StatefulSet"

\* The status of a pass over generation gen, but for its mark.
Metadata(gen, s, h) ==
    populateStatusMetadata([EmptyStatus EXCEPT !.observedGeneration = gen], s, h)

\* ExpectedStatus, as a function of what it depends on.
Expected(gen, s, refs, pvc, sts) ==
    LET missing == missingReferences(s, refs)
    IN  CASE ~s.valid -> markConfigFailure(Metadata(gen, s, None), "InvalidConfig", <<>>)
          [] s.valid /\ missing # {} ->
                markConfigFailure(Metadata(gen, s, None), "MissingReferencedInput",
                                  <<"missing", missing>>)
          [] OTHER -> markView(Metadata(gen, s, configHash(s, refs)),
                               readStatusView(s, pvc, sts))

\* An event of the objects the view is taken from is on its way.
Told == Claim \in due \/ Workload \in due

\* The mark that a pass without errors hands to patchStatus.
CalledFor(mark) ==
    \/ /\ ~CachedSpec.valid
       /\ mark = [stage |-> "config", hash |-> None, reason |-> "InvalidConfig",
                  message |-> <<>>]
    \/ /\ CachedSpec.valid /\ Missing # {}
       /\ mark = [stage |-> "config", hash |-> None, reason |-> "MissingReferencedInput",
                  message |-> <<"missing", Missing>>]
    \/ /\ Resolves
       /\ \/ Told
          \/ mark = [stage |-> "view", hash |-> configHash(CachedSpec, CachedRefs),
                     view |-> readStatusView(CachedSpec, api[Claim], api[Workload])]

\* What the pass has read, is about to report or has reported is still so, or somebody
\* is told.
StatusKnown ==
    /\ (pc = "readStatusView StatefulSet" /\ CachedSpec.persistence) =>
          Claim \in due \/ job.first = api[Claim]
    /\ pc = "patchStatus" => job.retry \/ CalledFor(job.mark)
    /\ (pc = "idle" /\ seen[Agent] # Absent) =>
          \/ Told
          \/ seen[Agent].status =
                Expected(seen[Agent].gen, CachedSpec, CachedRefs, api[Claim], api[Workload])

Reported == ~queued => StatusKnown

\* How markConfigFailure and the closure of a pass that went through write a status.
Overwritten(st, replicas, bound, conditions, phase) ==
    [st EXCEPT !.readyReplicas = replicas, !.persistenceBound = bound,
               !.conditions = conditions, !.phase = phase]

\* A mark keeps of a status its generation and its metadata.
LEMMA MarkKeeps ==
    ASSUME NEW st \in AgentStatus, NEW replicas, NEW bound, NEW conditions, NEW phase
    PROVE  Overwritten(st, replicas, bound, conditions, phase) =
           [ phase              |-> phase,
             observedGeneration |-> st.observedGeneration,
             image              |-> st.image,
             configHash         |-> st.configHash,
             readyReplicas      |-> replicas,
             persistenceBound   |-> bound,
             pvcName            |-> st.pvcName,
             driftedFields      |-> st.driftedFields,
             serviceName        |-> st.serviceName,
             conditions         |-> conditions ]
<1>1. PICK x : x = Overwritten(st, replicas, bound, conditions, phase)
  OBVIOUS
<1>2. /\ x.observedGeneration = st.observedGeneration /\ x.image = st.image
      /\ x.configHash = st.configHash /\ x.pvcName = st.pvcName
      /\ x.driftedFields = st.driftedFields /\ x.serviceName = st.serviceName
      /\ x.readyReplicas = replicas /\ x.persistenceBound = bound
      /\ x.conditions = conditions /\ x.phase = phase
  BY <1>1 DEF AgentStatus, Overwritten
<1>3. x \in [ phase : {phase}, observedGeneration : Nat, image : Images \cup {None},
              configHash : Hashes \cup {None}, readyReplicas : {replicas},
              persistenceBound : {bound}, pvcName : BOOLEAN,
              driftedFields : SUBSET ImmutableFields, serviceName : BOOLEAN,
              conditions : {conditions} ]
  BY <1>1 DEF AgentStatus, Overwritten
<1>4. x = [ phase              |-> x.phase,
            observedGeneration |-> x.observedGeneration,
            image              |-> x.image,
            configHash         |-> x.configHash,
            readyReplicas      |-> x.readyReplicas,
            persistenceBound   |-> x.persistenceBound,
            pvcName            |-> x.pvcName,
            driftedFields      |-> x.driftedFields,
            serviceName        |-> x.serviceName,
            conditions         |-> x.conditions ]
  BY <1>3
<1> QED
  BY <1>1, <1>2, <1>4

\* So a mark over two statuses of one generation gives the same.
LEMMA MarksAgree ==
    ASSUME NEW a \in AgentStatus, NEW b \in AgentStatus,
           a.observedGeneration = b.observedGeneration,
           NEW s \in AgentSpec, NEW h \in Hashes \cup {None}
    PROVE  /\ \A reason, message :
                 markConfigFailure(populateStatusMetadata(a, s, h), reason, message)
                   = markConfigFailure(populateStatusMetadata(b, s, h), reason, message)
           /\ \A view : markView(populateStatusMetadata(a, s, h), view)
                          = markView(populateStatusMetadata(b, s, h), view)
<1>1. PICK x, y : x = populateStatusMetadata(a, s, h) /\ y = populateStatusMetadata(b, s, h)
  OBVIOUS
<1>2. x \in AgentStatus /\ y \in AgentStatus
  BY <1>1, MetadataTyped
<1>3. /\ x.observedGeneration = y.observedGeneration /\ x.image = y.image
      /\ x.configHash = y.configHash /\ x.pvcName = y.pvcName
      /\ x.driftedFields = y.driftedFields /\ x.serviceName = y.serviceName
  BY <1>1 DEF populateStatusMetadata, AgentStatus
<1>4. ASSUME NEW replicas, NEW bound, NEW conditions, NEW phase
      PROVE  Overwritten(x, replicas, bound, conditions, phase)
                = Overwritten(y, replicas, bound, conditions, phase)
  BY <1>2, <1>3, MarkKeeps
<1>5. \A v : setCondition(x, v) = setCondition(y, v)
  BY <1>3 DEF setCondition
<1>6. ASSUME NEW reason, NEW message
      PROVE  markConfigFailure(x, reason, message) = markConfigFailure(y, reason, message)
  <2> DEFINE set(z) ==
               [ConfigReady      |-> setCondition(z, Verdict("False", reason, message)),
                PersistenceReady |-> setCondition(z, Verdict("Unknown", "Unknown", <<>>)),
                WorkloadReady    |-> setCondition(z, Verdict("Unknown", "Unknown", <<>>)),
                Ready            |-> setCondition(z, Verdict("False", reason, <<>>))]
  <2>1. \A z : markConfigFailure(z, reason, message)
                  = Overwritten(z, 0, FALSE, set(z), "ConfigError")
    BY Zenon DEF markConfigFailure, Overwritten
  <2>2. set(x) = set(y)
    BY <1>5
  <2> HIDE DEF set
  <2> QED
    BY <1>4, <2>1, <2>2
<1>7. ASSUME NEW view PROVE markView(x, view) = markView(y, view)
  <2> DEFINE set(z) == [ConfigReady      |-> setCondition(z, ConfigReconciled),
                        PersistenceReady |-> setCondition(z, view.persistence),
                        WorkloadReady    |-> setCondition(z, view.workload),
                        Ready            |-> setCondition(z, view.ready)]
  <2>1. \A z : markView(z, view) = Overwritten(z, view.readyReplicas, view.persistenceBound,
                                               set(z), view.phase)
    BY Zenon DEF markView, Overwritten
  <2>2. set(x) = set(y)
    BY <1>5
  <2> HIDE DEF set
  <2> QED
    BY <1>4, <2>1, <2>2
<1> QED
  BY <1>1, <1>6, <1>7

\* The mark a pass without errors hands over makes the status what is expected.
LEMMA MutateExpected ==
    ASSUME TypeOK, seen[Agent] # Absent, job \in Jobs, job.mark \in Marks,
           job.spec = CachedSpec, CalledFor(job.mark), ~Told
    PROVE  mutate(stamped(seen[Agent])) =
              Expected(seen[Agent].gen, CachedSpec, CachedRefs, api[Claim], api[Workload])
<1>1. PICK st, gen, s, refs, pvc, sts, b :
        /\ st = stamped(seen[Agent]) /\ gen = seen[Agent].gen
        /\ s = CachedSpec /\ refs = CachedRefs /\ pvc = api[Claim] /\ sts = api[Workload]
        /\ b = [EmptyStatus EXCEPT !.observedGeneration = gen]
  OBVIOUS
<1>2. seen[Agent] \in AgentObjects
  BY CachedUid
<1>3. st \in AgentStatus /\ st.observedGeneration = gen /\ gen \in Nat
  <2>1. seen[Agent].status \in AgentStatus /\ gen \in Nat
    BY <1>1, <1>2 DEF AgentObjects
  <2> QED
    BY <1>1, <2>1 DEF stamped, AgentStatus
<1>4. b \in AgentStatus /\ b.observedGeneration = gen
  BY <1>1, <1>3, EmptyStatusTyped DEF AgentStatus
<1>5. /\ s \in AgentSpec /\ job.mark.hash \in Hashes \cup {None} /\ job.spec = s
      /\ missingReferences(s, refs) = Missing
  BY <1>1 DEF Jobs, Marks, Missing
<1>6. \A h : Metadata(gen, s, h) = populateStatusMetadata(b, s, h)
  BY <1>1 DEF Metadata
<1>7. /\ \A reason, message :
            markConfigFailure(populateStatusMetadata(st, s, job.mark.hash), reason, message)
              = markConfigFailure(Metadata(gen, s, job.mark.hash), reason, message)
      /\ \A view : markView(populateStatusMetadata(st, s, job.mark.hash), view)
                     = markView(Metadata(gen, s, job.mark.hash), view)
  BY <1>3, <1>4, <1>5, <1>6, MarksAgree
<1>8. CASE /\ ~CachedSpec.valid
           /\ job.mark = [stage |-> "config", hash |-> None, reason |-> "InvalidConfig",
                          message |-> <<>>]
  <2>1. /\ job.mark.stage = "config" /\ job.mark.hash = None
        /\ job.mark.reason = "InvalidConfig" /\ job.mark.message = <<>>
    BY <1>8
  <2>2. mutate(st) = markConfigFailure(populateStatusMetadata(st, s, None), "InvalidConfig", <<>>)
    BY <1>5, <2>1 DEF mutate
  <2>3. Expected(gen, s, refs, pvc, sts)
           = markConfigFailure(Metadata(gen, s, None), "InvalidConfig", <<>>)
    BY <1>1, <1>8 DEF Expected
  <2> QED
    BY <1>1, <1>7, <2>1, <2>2, <2>3
<1>9. CASE /\ CachedSpec.valid /\ Missing # {}
           /\ job.mark = [stage |-> "config", hash |-> None,
                          reason |-> "MissingReferencedInput",
                          message |-> <<"missing", Missing>>]
  <2>1. /\ job.mark.stage = "config" /\ job.mark.hash = None
        /\ job.mark.reason = "MissingReferencedInput"
        /\ job.mark.message = <<"missing", Missing>>
    BY <1>9
  <2>2. mutate(st) = markConfigFailure(populateStatusMetadata(st, s, None),
                                       "MissingReferencedInput", <<"missing", Missing>>)
    BY <1>5, <2>1 DEF mutate
  <2>3. Expected(gen, s, refs, pvc, sts)
           = markConfigFailure(Metadata(gen, s, None), "MissingReferencedInput",
                               <<"missing", Missing>>)
    BY <1>1, <1>5, <1>9 DEF Expected
  <2> QED
    BY <1>1, <1>7, <2>1, <2>2, <2>3
<1>10. CASE /\ Resolves
            /\ job.mark = [stage |-> "view", hash |-> configHash(CachedSpec, CachedRefs),
                           view |-> readStatusView(CachedSpec, api[Claim], api[Workload])]
  <2>1. /\ job.mark.stage = "view" /\ job.mark.hash = configHash(s, refs)
        /\ job.mark.view = readStatusView(s, pvc, sts)
    BY <1>1, <1>10
  <2>2. mutate(st) = markView(populateStatusMetadata(st, s, configHash(s, refs)),
                              readStatusView(s, pvc, sts))
    BY <1>5, <2>1 DEF mutate
  <2>3. Expected(gen, s, refs, pvc, sts)
           = markView(Metadata(gen, s, configHash(s, refs)), readStatusView(s, pvc, sts))
    BY <1>1, <1>5, <1>10 DEF Expected, Resolves
  <2> QED
    BY <1>1, <1>7, <2>1, <2>2, <2>3
<1> QED
  BY <1>8, <1>9, <1>10 DEF CalledFor

\* The claim does not matter where the spec has none.
LEMMA ViewIgnoresClaim ==
    ASSUME NEW s, NEW a, NEW b, NEW sts, s.persistence => a = b
    PROVE  readStatusView(s, a, sts) = readStatusView(s, b, sts)
  BY DEF readStatusView

\* The status depends on the claim and the StatefulSet only as far as the view does.
LEMMA ExpectedSame ==
    ASSUME NEW gen, NEW s, NEW refs, NEW a, NEW b, NEW x, NEW y,
           (s.valid /\ missingReferences(s, refs) = {}) =>
              x = y /\ (s.persistence => a = b)
    PROVE  Expected(gen, s, refs, a, x) = Expected(gen, s, refs, b, y)
<1>1. CASE s.valid /\ missingReferences(s, refs) = {}
  <2>1. x = y /\ readStatusView(s, a, x) = readStatusView(s, b, y)
    BY <1>1, ViewIgnoresClaim
  <2> QED
    BY <1>1, <2>1 DEF Expected
<1>2. CASE ~(s.valid /\ missingReferences(s, refs) = {})
  BY <1>2 DEF Expected
<1> QED
  BY <1>1, <1>2

\* A pass that has come to its status controls the objects the view is taken from.
LEMMA ViewHeld ==
    ASSUME Going, ~queued, Resolves, ~Excused, pc \in PastBudget
    PROVE  /\ Claim \in Children /\ Workload \in Children
           /\ Workload \notin due => OwnedByAgent(api[Workload])
           /\ (CachedSpec.persistence /\ Claim \notin due) => OwnedByAgent(api[Claim])
<1>1. Claim \in Children /\ Workload \in Children
  BY DEF Children, Claim, Workload
<1>2. WorkKept /\ seen[Agent] # Absent
  BY DEF Going, Progress, Resolves
<1>3. Settled(Claim) /\ Settled(Workload)
  BY <1>1, <1>2
  DEF WorkKept, Done, Claim, Workload, PastPolicy, PastService, PastStatefulSet, PastClaim
<1>4. seen[Agent].uid \in Nat \ {0}
  BY <1>2, CachedUid DEF Going
<1>5. Workload \notin due => HeldBy(api[Workload], seen[Agent].uid)
  BY <1>3 DEF Settled, Fits, Workload, Claim, ConfigIds, OptKinds
<1>6. (CachedSpec.persistence /\ Claim \notin due) => HeldBy(api[Claim], seen[Agent].uid)
  BY <1>3 DEF Settled, Fits, Workload, Claim, ConfigIds, OptKinds
<1> QED
  BY <1>1, <1>4, <1>5, <1>6 DEF HeldBy, OwnedByAgent

\* A calm step leaves these objects as they are, or tells.
LEMMA ViewStays ==
    ASSUME Going, Calm, ~queued', Resolves, ~Excused, pc \in PastBudget
    PROVE  /\ Workload \in due' \/ api'[Workload] = api[Workload]
           /\ CachedSpec.persistence =>
                 Claim \in due' \/ (Claim \notin due /\ api'[Claim] = api[Claim])
<1>1. ~queued
  BY DEF Calm
<1> QED
  BY <1>1, ViewHeld DEF Calm, ChildKept

\* What the caches show of them is so, or somebody is told.
LEMMA ViewCurrent ==
    ASSUME Going, ~queued, Resolves, ~Excused, pc \in PastBudget
    PROVE  /\ Workload \in due \/ seen[Workload] = api[Workload]
           /\ CachedSpec.persistence => Claim \in due \/ seen[Claim] = api[Claim]
  BY ViewHeld DEF Going, NoEventLost

\* What was on its way in a calm step still is.
LEMMA ToldStays == ASSUME Calm, ~queued', Told PROVE Told'
  BY DEF Calm, ChildKept, Told, Children, Claim, Workload

\* Only patchStatus changes the status of the cached agent in a calm step.
LEMMA StatusUntouched ==
    ASSUME Agent \notin LaggyKinds, TypeOK, Current, Current', [Next]_vars, ~patchStatus,
           Calm, ~queued', seen[Agent] # Absent
    PROVE  seen'[Agent] # Absent /\ seen'[Agent].status = seen[Agent].status
<1>1. seen[Agent] = api[Agent] /\ seen'[Agent] = api'[Agent]
  BY KindsApart DEF Current
<1>2. seen'[Agent] # Absent
  BY DEF Calm, TargetKept
<1>3. AgentStays \/ AgentBorn
  BY <1>1, <1>2, AgentSteps
<1> QED
  BY <1>1, <1>2, <1>3 DEF AgentStays, AgentBorn

\* A calm step of somebody else leaves what is read and reported as it is.
LEMMA OthersKeepReport ==
    ASSUME Agent \notin LaggyKinds, Going, Current', Reported, Calm, [Next]_vars, ~patchStatus,
           UNCHANGED <<pc, job>>
    PROVE  Reported'
<1> SUFFICES ASSUME ~queued' PROVE StatusKnown'
  BY DEF Reported
<1>1. ~queued /\ TargetKept /\ JobCurrent /\ StatusKnown
  BY DEF Calm, Going, Progress, Reported
<1>2. /\ Resolves' <=> Resolves
      /\ seen[Agent] # Absent =>
            /\ Missing' = Missing /\ CachedSpec' = CachedSpec /\ CachedRefs' = CachedRefs
            /\ seen'[Agent].gen = seen[Agent].gen
  BY <1>1, ResolvesKept DEF TargetKept
<1>3. pc # "idle" => seen[Agent] # Absent
  BY <1>1 DEF JobCurrent
<1>4. ASSUME pc = "readStatusView StatefulSet", CachedSpec'.persistence
      PROVE  Claim \in due' \/ job'.first = api'[Claim]
  <2>1. Resolves /\ ~Excused /\ pc \in PastBudget /\ CachedSpec.persistence
    BY <1>1, <1>2, <1>3, <1>4 DEF JobCurrent, Resolves, Excused, PastBudget, StatusSteps
  <2> QED
    BY <1>1, <1>4, <2>1, ViewStays DEF StatusKnown
<1>5. ASSUME pc = "patchStatus", ~job.retry PROVE CalledFor(job.mark)'
  <2>1. CalledFor(job.mark) /\ seen[Agent] # Absent
    BY <1>1, <1>3, <1>5 DEF StatusKnown
  <2>2. CASE ~Resolves
    BY <1>2, <2>1, <2>2 DEF CalledFor, Resolves
  <2>3. CASE Resolves /\ ~Told'
    <3>1. ~Excused /\ pc \in PastBudget /\ ~Told
      BY <1>5, <2>3, ToldStays DEF Excused, PastBudget, StatusSteps
    <3>2. /\ api'[Workload] = api[Workload]
          /\ CachedSpec.persistence => api'[Claim] = api[Claim]
      BY <2>3, <3>1, ViewStays DEF Told
    <3>3. readStatusView(CachedSpec, api'[Claim], api'[Workload])
             = readStatusView(CachedSpec, api[Claim], api[Workload])
      BY <3>2, ViewIgnoresClaim
    <3>4. job.mark = [stage |-> "view", hash |-> configHash(CachedSpec, CachedRefs),
                      view |-> readStatusView(CachedSpec, api[Claim], api[Workload])]
      BY <2>1, <2>3, <3>1 DEF CalledFor, Resolves
    <3> QED
      BY <1>2, <2>1, <2>3, <3>3, <3>4 DEF CalledFor
  <2>4. CASE Resolves /\ Told'
    BY <1>2, <2>4 DEF CalledFor
  <2> QED
    BY <2>2, <2>3, <2>4
<1>6. ASSUME pc = "idle", seen'[Agent] # Absent, ~Told'
      PROVE  seen'[Agent].status =
                Expected(seen'[Agent].gen, CachedSpec', CachedRefs', api'[Claim], api'[Workload])
  <2>1. seen[Agent] # Absent /\ ~Told
    BY <1>1, <1>6, ToldStays DEF TargetKept
  <2>2. seen'[Agent].status = seen[Agent].status
    BY <2>1, StatusUntouched DEF Going
  <2>3. seen[Agent].status =
           Expected(seen[Agent].gen, CachedSpec, CachedRefs, api[Claim], api[Workload])
    BY <1>1, <1>6, <2>1 DEF StatusKnown
  <2>4. (CachedSpec.valid /\ missingReferences(CachedSpec, CachedRefs) = {}) =>
           /\ api[Workload] = api'[Workload]
           /\ CachedSpec.persistence => api[Claim] = api'[Claim]
    BY <1>6, <2>1, ViewStays DEF Resolves, Missing, Excused, PastBudget, Told
  <2>5. Expected(seen[Agent].gen, CachedSpec, CachedRefs, api[Claim], api[Workload])
           = Expected(seen[Agent].gen, CachedSpec, CachedRefs, api'[Claim], api'[Workload])
    BY <2>4, ExpectedSame
  <2> QED
    BY <1>2, <2>1, <2>2, <2>3, <2>5
<1> QED
  BY <1>4, <1>5, <1>6 DEF StatusKnown

\* A call goes on, to another call, or fails and is retried.
CallEnds ==
    \/ pc' = "patchStatus" /\ job'.retry
    \/ pc' \notin {"idle", "patchStatus", "readStatusView StatefulSet"}

\* Which calls end this way.
LEMMA CallsEnd ==
    ASSUME TypeOK, Worker, pc \in CallSteps \ {"resolveReferencedInputs"}
    PROVE  CallEnds
<1>1. job \in Jobs /\ pc \in CallSteps
  BY BusyWorker DEF TypeOK, CallSteps
<1>2. pc \notin StatusSteps \cup {"idle", "resolveReferencedInputs"}
  BY DEF CallSteps, Steps, StatusSteps, ChildSteps, Children, ConfigIds, OptKinds
<1>3. ASSUME Advance PROVE CallEnds
  BY <1>3
  DEF CallEnds, Advance, After, CallSteps, Steps, StatusSteps, ChildSteps, Children, ConfigIds,
      OptKinds
<1>4. ASSUME \E error : Fail(error) PROVE CallEnds
  BY <1>1, <1>4, FailJob DEF CallEnds
<1>5. ASSUME NEW k, NEW spec, CreateOrUpdate(k, spec) PROVE CallEnds
  BY <1>3, <1>4, <1>5 DEF CreateOrUpdate, Call
<1>6. ASSUME NEW k, NEW ignore, Delete(k, ignore) PROVE CallEnds
  BY <1>3, <1>4, <1>6 DEF Delete, Call
<1>7. CASE \E id \in ConfigIds : reconcileInlineConfigMap(id) \/ deleteStaleConfigMap(id)
  BY <1>3, <1>5, <1>6, <1>7 DEF reconcileInlineConfigMap, deleteStaleConfigMap, Skip
<1>8. ASSUME NEW k \in OptKinds, checkOptional(k) PROVE CallEnds
  <2>1. pc' = WriteStep(k) => CallEnds
    BY DEF CallEnds, WriteStep, OptKinds
  <2> QED
    BY <1>3, <1>4, <1>6, <1>8, <2>1 DEF checkOptional, Skip
<1>9. CASE \E k \in OptKinds : writeOptional(k)
  BY <1>5, <1>9 DEF writeOptional
<1>10. CASE cleanupStaleGeneratedConfigMaps
  BY <1>10 DEF cleanupStaleGeneratedConfigMaps, After, ConfigIds, CallEnds
<1>11. CASE reconcilePersistentVolumeClaim
  <2>1. pc = "PersistentVolumeClaim" /\ (pc' = WriteStep(pc) => CallEnds)
    BY <1>11 DEF reconcilePersistentVolumeClaim, WriteStep, CallEnds
  <2> QED
    BY <1>3, <1>4, <1>11, <2>1 DEF reconcilePersistentVolumeClaim, Skip
<1>12. CASE writePersistentVolumeClaim
  <2>1. ASSUME NEW h, NEW message,
               FailWith("persistence", h, "PersistentVolumeClaimSpecDrift", message, TRUE)
        PROVE  CallEnds
    BY <1>1, <2>1, FailWithJob DEF CallEnds
  <2> QED
    BY <1>5, <1>12, <2>1 DEF writePersistentVolumeClaim
<1>13. CASE reconcileStatefulSet
  BY <1>5, <1>13 DEF reconcileStatefulSet
<1>14. CASE FailedCall
  BY <1>4, <1>14 DEF FailedCall
<1>15. ~(Reconcile \/ resolveReferencedInputs \/ readClaim \/ readStatefulSet
           \/ failedStatusView \/ patchStatus)
  BY <1>2
  DEF Reconcile, resolveReferencedInputs, readClaim, readStatefulSet, failedStatusView,
      patchStatus, StatusSteps
<1> QED
  BY <1>7, <1>8, <1>9, <1>10, <1>11, <1>12, <1>13, <1>14, <1>15 DEF Worker

\* A pass that ends before it has begun reports a spec that is not valid.
LEMMA ReconcileReports ==
    ASSUME Reconcile
    PROVE  Reported'
<1> SUFFICES ASSUME ~queued' PROVE StatusKnown'
  BY DEF Reported
<1> DEFINE agent == seen[Agent]
           fresh == [ uid |-> agent.uid, gen |-> agent.gen, spec |-> agent.spec,
                      refs |-> [i \in Inputs |-> Absent], first |-> Absent,
                      mark |-> None, retry |-> FALSE ]
           mark  == [stage |-> "config", hash |-> None, reason |-> "InvalidConfig",
                     message |-> <<>>]
<1>1. /\ seen' = seen
      /\ \/ agent = Absent /\ pc' = "idle"
         \/ agent # Absent /\ ~agent.spec.valid /\ job' = Marked(fresh, mark, FALSE)
               /\ pc' = "patchStatus"
         \/ pc' = "resolveReferencedInputs"
  BY DEF Reconcile
<1>2. Marked(fresh, mark, FALSE).mark = mark
  BY DEF Marked
<1>3. CASE agent # Absent /\ ~agent.spec.valid /\ job' = Marked(fresh, mark, FALSE)
              /\ pc' = "patchStatus"
  <2>1. ~CachedSpec'.valid /\ job'.mark = mark
    BY <1>1, <1>2, <1>3 DEF CachedSpec
  <2> QED
    BY <1>3, <2>1 DEF StatusKnown, CalledFor
<1>4. CASE (agent = Absent /\ pc' = "idle") \/ pc' = "resolveReferencedInputs"
  BY <1>1, <1>4 DEF StatusKnown
<1> QED
  BY <1>1, <1>3, <1>4

\* A pass that misses inputs reports the ones that are missing.
LEMMA ResolveReports ==
    ASSUME Going, resolveReferencedInputs
    PROVE  Reported'
<1> SUFFICES ASSUME ~queued' PROVE StatusKnown'
  BY DEF Reported
<1> DEFINE refs    == Snapshot(job.spec, seen)
           missing == missingReferences(job.spec, refs)
           mark    == [stage |-> "config", hash |-> None, reason |-> "MissingReferencedInput",
                       message |-> <<"missing", missing>>]
<1>1. pc = "resolveReferencedInputs" /\ UNCHANGED <<api, seen, queued, due>>
  BY DEF resolveReferencedInputs, Local, cluster
<1>2. job \in Jobs
  BY <1>1, BusyWorker DEF Going, TypeOK, Steps
<1>3. job.spec = CachedSpec /\ CachedSpec.valid /\ missing = Missing
  BY <1>1 DEF Going, Progress, JobCurrent, CachedRefs, Missing
<1>4. CachedSpec' = CachedSpec /\ Missing' = Missing
  BY <1>1 DEF CachedSpec, CachedRefs, Missing
<1>5. CASE pc' = After(pc)
  BY <1>1, <1>5 DEF After, StatusKnown
<1>6. CASE missing # {} /\ FailWith("config", None, "MissingReferencedInput",
                                    <<"missing", missing>>, FALSE)
  <2>1. pc' = "patchStatus" /\ job' = Marked(job, mark, FALSE)
    BY <1>6 DEF FailWith
  <2>2. job'.mark = mark
    BY <1>2, <2>1 DEF Marked, Jobs
  <2> HIDE DEF missing
  <2> QED
    BY <1>3, <1>4, <1>6, <2>1, <2>2 DEF StatusKnown, CalledFor
<1> QED
  BY <1>5, <1>6 DEF resolveReferencedInputs

\* The first read of the status view.
LEMMA ClaimReadReports ==
    ASSUME Going, readClaim
    PROVE  Reported'
<1> SUFFICES ASSUME ~queued' PROVE StatusKnown'
  BY DEF Reported
<1>1. /\ pc = "readStatusView" /\ pc' = "readStatusView StatefulSet"
      /\ UNCHANGED <<api, seen, queued, due>>
  BY DEF readClaim, Local, cluster, After, ConfigIds
<1>2. job \in Jobs
  BY <1>1, BusyWorker DEF Going, TypeOK, Steps, StatusSteps
<1>3. job'.first = seen[Claim]
  BY <1>2 DEF readClaim, Jobs, Claim
<1>4. ~queued /\ Resolves /\ ~Excused /\ pc \in PastBudget
  BY <1>1 DEF Going, Progress, JobCurrent, Resolves, Excused, PastBudget, StatusSteps
<1>5. CachedSpec' = CachedSpec
  BY <1>1 DEF CachedSpec
<1> QED
  BY <1>1, <1>3, <1>4, <1>5, ViewCurrent DEF StatusKnown

\* The second read, and the view of both.
LEMMA ViewReports ==
    ASSUME Going, Reported, readStatefulSet
    PROVE  Reported'
<1> SUFFICES ASSUME ~queued' PROVE StatusKnown'
  BY DEF Reported
<1> DEFINE view == readStatusView(job.spec, job.first, seen["StatefulSet"])
           mark == [stage |-> "view", hash |-> hash, view |-> view]
<1>1. /\ pc = "readStatusView StatefulSet" /\ pc' = "patchStatus"
      /\ UNCHANGED <<api, seen, queued, due>> /\ job' = Marked(job, mark, FALSE)
  BY DEF readStatefulSet, Local, cluster, After, ConfigIds
<1>2. job \in Jobs
  BY <1>1, BusyWorker DEF Going, TypeOK, Steps, StatusSteps
<1>3. job'.mark = mark
  <2> HIDE DEF mark
  <2> QED
    BY <1>1, <1>2 DEF Marked, Jobs
<1>4. /\ ~queued /\ Resolves /\ ~Excused /\ pc \in PastBudget
      /\ job.spec = CachedSpec /\ job.refs = CachedRefs
  BY <1>1 DEF Going, Progress, JobCurrent, Resolves, Excused, PastBudget, StatusSteps
<1>5. Resolves' /\ Told' = Told
  BY <1>1, <1>4 DEF Resolves, CachedSpec, CachedRefs, Missing, Told
<1>6. CASE ~Told
  <2>1. /\ seen[Workload] = api[Workload]
        /\ CachedSpec.persistence => job.first = api[Claim]
    BY <1>1, <1>4, <1>6, ViewCurrent DEF Told, Reported, StatusKnown
  <2>2. view = readStatusView(CachedSpec, api[Claim], api[Workload])
    BY <1>4, <2>1, ViewIgnoresClaim DEF Workload
  <2>3. mark = [stage |-> "view", hash |-> configHash(CachedSpec, CachedRefs),
                view |-> readStatusView(CachedSpec, api[Claim], api[Workload])]
    BY <1>4, <2>2 DEF hash
  <2>4. CachedSpec' = CachedSpec /\ CachedRefs' = CachedRefs
    BY <1>1 DEF CachedSpec, CachedRefs
  <2> HIDE DEF mark
  <2> QED
    BY <1>1, <1>3, <1>5, <2>3, <2>4 DEF StatusKnown, CalledFor
<1>7. CASE Told
  BY <1>1, <1>5, <1>7 DEF StatusKnown, CalledFor
<1> QED
  BY <1>6, <1>7

\* The report of a pass without errors is in the cache when the pass ends.
LEMMA PatchReports ==
    ASSUME Agent \notin LaggyKinds, Going, Current', Reported, patchStatus
    PROVE  Reported'
<1> SUFFICES ASSUME ~queued' PROVE StatusKnown'
  BY DEF Reported
<1> DEFINE after == mutate(stamped(seen[Agent]))
<1>1. pc = "patchStatus" /\ pc' = "idle" /\ due' = due /\ ~job.retry /\ ~queued
  BY DEF patchStatus, Finish
<1>2. Calm /\ TargetKept
  BY PatchCalm DEF Going, Calm
<1>3. /\ job \in Jobs /\ job.mark \in Marks
      /\ seen[Agent] # Absent /\ job.spec = CachedSpec /\ CalledFor(job.mark)
  BY <1>1, BusyWorker
  DEF Going, TypeOK, WorkerTypeOK, Steps, StatusSteps, Progress, JobCurrent, Reported,
      StatusKnown
<1>4. seen[Agent] = api[Agent] /\ seen'[Agent] = api'[Agent]
  BY KindsApart DEF Going, Current
<1>5. /\ Claim \in Kinds /\ Workload \in Kinds /\ Claim # Agent /\ Workload # Agent
  BY KindsApart DEF Claim, Workload, Children, Agent
<1>6. api'[Claim] = api[Claim] /\ api'[Workload] = api[Workload]
  BY <1>5, PatchWrites DEF Going, TypeOK, ClusterTypeOK
<1>7. seen'[Agent].status = after
  <2>1. CASE api' # api
    BY <1>4, <2>1, PatchStores DEF Going
  <2>2. CASE api' = api
    <3>1. after = seen[Agent].status
      <4>1. \/ seen[Agent] # Absent => after = seen[Agent].status
            \/ api' = [api EXCEPT ![Agent] =
                          [api[Agent] EXCEPT !.status =
                              mergePatch(seen[Agent].status, after, @)]]
        BY DEF patchStatus, Finish
      <4>2. CASE api' = [api EXCEPT ![Agent] =
                          [api[Agent] EXCEPT !.status =
                              mergePatch(seen[Agent].status, after, @)]]
        <5>1. PICK m : m = mergePatch(seen[Agent].status, after, api[Agent].status)
          OBVIOUS
        <5>2. api' = [api EXCEPT ![Agent] = [api[Agent] EXCEPT !.status = m]]
          BY <4>2, <5>1
        <5>3. api[Agent] \in AgentObjects /\ DOMAIN api = Kinds
          BY <1>3, <1>4, CachedUid DEF Going, TypeOK, ClusterTypeOK
        <5>4. api'[Agent].status = m
          BY <5>2, <5>3, KindsApart DEF AgentObjects
        <5>5. seen[Agent].status \in AgentStatus /\ after \in AgentStatus
          <6>1. seen[Agent].status \in AgentStatus /\ seen[Agent].gen \in Nat
            BY <1>4, <5>3 DEF AgentObjects
          <6>2. stamped(seen[Agent]) \in AgentStatus
            BY <6>1 DEF stamped, AgentStatus
          <6> QED
            BY <1>3, <6>1, <6>2, MutateTyped
        <5>6. m = after
          BY <1>4, <5>1, <5>5, MergeCurrent
        <5> QED
          BY <1>4, <2>2, <5>4, <5>6
      <4> QED
        BY <1>3, <4>1, <4>2
    <3> QED
      BY <1>4, <2>2, <3>1
  <2> QED
    BY <2>1, <2>2
<1>8. /\ CachedSpec' = CachedSpec /\ CachedRefs' = CachedRefs
      /\ seen'[Agent].gen = seen[Agent].gen
  BY <1>2, <1>3 DEF TargetKept
<1>9. Told' = Told
  BY <1>1 DEF Told
<1>10. CASE ~Told
  <2>1. after = Expected(seen[Agent].gen, CachedSpec, CachedRefs, api[Claim], api[Workload])
    BY <1>3, <1>10, MutateExpected DEF Going
  <2> HIDE DEF after
  <2> QED
    BY <1>1, <1>6, <1>7, <1>8, <2>1 DEF StatusKnown
<1>11. CASE Told
  BY <1>1, <1>9, <1>11 DEF StatusKnown
<1> QED
  BY <1>10, <1>11

\* Every step of the worker.
LEMMA WorkerReports ==
    ASSUME Agent \notin LaggyKinds, Going, Current', Reported, Worker
    PROVE  Reported'
<1>1. CASE pc \in CallSteps \ {"resolveReferencedInputs"}
  <2>1. CallEnds
    BY <1>1, CallsEnd DEF Going
  <2> QED
    BY <2>1 DEF CallEnds, Reported, StatusKnown
<1>2. CASE pc \notin CallSteps \ {"resolveReferencedInputs"}
  <2>1. pc \in StatusSteps \cup {"idle", "resolveReferencedInputs"}
    BY <1>2 DEF Going, TypeOK, WorkerTypeOK, CallSteps
  <2>2. CASE pc = "resolveReferencedInputs"
    <3>1. CASE FailedCall
      <4>1. pc' = "patchStatus" /\ job'.retry
        BY <2>2, <3>1, BusyWorker, FailJob DEF FailedCall, Going, TypeOK, Steps
      <4> QED
        BY <4>1 DEF Reported, StatusKnown
    <3>2. CASE ~FailedCall
      <4>1. resolveReferencedInputs
        BY <2>2, <3>2
        DEF Worker, Reconcile, reconcileInlineConfigMap, deleteStaleConfigMap, Stale,
            cleanupStaleGeneratedConfigMaps, reconcilePersistentVolumeClaim,
            writePersistentVolumeClaim, reconcileStatefulSet, checkOptional, writeOptional,
            WriteStep, readClaim, readStatefulSet, failedStatusView, patchStatus, ConfigIds,
            OptKinds
      <4> QED
        BY <4>1, ResolveReports
    <3> QED
      BY <3>1, <3>2
  <2>3. CASE pc \in StatusSteps \cup {"idle"}
    <3>1. Reconcile \/ readClaim \/ readStatefulSet \/ failedStatusView \/ patchStatus
      BY <2>3
      DEF Worker, resolveReferencedInputs, reconcileInlineConfigMap, deleteStaleConfigMap,
          Stale, cleanupStaleGeneratedConfigMaps, reconcilePersistentVolumeClaim,
          writePersistentVolumeClaim, reconcileStatefulSet, checkOptional, writeOptional,
          WriteStep, FailedCall, Steps, ChildSteps, Children, StatusSteps, ConfigIds, OptKinds
    <3>2. failedStatusView => queued'
      BY DEF failedStatusView, Finish
    <3> QED
      BY <3>1, <3>2, ReconcileReports, ClaimReadReports, ViewReports, PatchReports
      DEF Reported
  <2> QED
    BY <2>1, <2>2, <2>3
<1> QED
  BY <1>1, <1>2

\* A restart queues the agent, if there is one.
LEMMA RestartReports ==
    ASSUME Restart
    PROVE  Reported'
  BY DEF Restart, Reported, StatusKnown

ReportInv == ConvergenceInv /\ Reported

\* Every step keeps what is known of the status.
LEMMA ReportInductive ==
    ASSUME Agent \notin LaggyKinds, ReportInv, [Next]_vars
    PROVE  ReportInv'
<1>1. ConvergenceInv' /\ ConvergenceInv /\ Going /\ Reported
  BY ConvergenceInductive DEF ReportInv, ConvergenceInv
<1>2. TypeOK /\ Current /\ NoEventLost /\ Current'
  BY <1>1 DEF ConvergenceInv, Going
<1>3. CASE Worker
  BY <1>1, <1>2, <1>3, WorkerReports DEF ReportInv
<1>4. CASE Restart
  BY <1>1, <1>4, RestartReports DEF ReportInv
<1>5. ASSUME Calm, UNCHANGED <<pc, job>>, ~Worker PROVE ReportInv'
  <2>1. ~patchStatus
    BY <1>5 DEF Worker
  <2> QED
    BY <1>1, <1>2, <1>5, <2>1, OthersKeepReport DEF ReportInv
<1>6. CASE Environment
  <2>1. Calm
    <3>1. CASE Users \/ ControlPlane
      BY <1>2, <3>1, OthersWrite, StoreCalm
    <3>2. CASE Delivery
      BY <1>2, <3>2, DeliverCalm DEF Delivery
    <3> QED
      BY <1>6, <3>1, <3>2 DEF Environment
  <2> QED
    BY <1>3, <1>5, <1>6, <2>1 DEF Environment
<1>7. CASE UNCHANGED vars
  <2>1. UNCHANGED <<api, seen, due, queued, pc, job>>
    BY <1>7 DEF vars
  <2> QED
    BY <1>2, <1>3, <1>5, <2>1, UntouchedCalm
<1> QED
  BY <1>3, <1>4, <1>6, <1>7 DEF Next

\* While the operator sleeps, the status it has reported is the one that is called for.
LEMMA ReportedWhenQuiet == ReportInv => StatusConverged
<1> SUFFICES ASSUME ReportInv, Quiet, api[Agent] # Absent
             PROVE  api[Agent].status = ExpectedStatus
  BY DEF StatusConverged
<1>1. pc = "idle" /\ ~queued /\ due = {} /\ seen = api
  BY DEF Quiet
<1>2. CachedSpec = CurrentSpec /\ CachedRefs = CurrentRefs
  BY <1>1 DEF CachedSpec, CurrentSpec, CachedRefs, CurrentRefs
<1>3. api[Agent].status =
         Expected(api[Agent].gen, CurrentSpec, CurrentRefs, api[Claim], api[Workload])
  BY <1>1, <1>2 DEF ReportInv, Reported, StatusKnown, Told
<1>4. ExpectedStatus =
         Expected(api[Agent].gen, CurrentSpec, CurrentRefs, api[Claim], api[Workload])
  BY DEF ExpectedStatus, Expected, Metadata, Claim, Workload
<1> QED
  BY <1>3, <1>4

\* With a current cache of the HermesAgent, whatever other caches lag, whatever fails and
\* whenever the manager restarts: while the operator sleeps the whole status of the agent
\* is the one its spec, its inputs, its claim and its StatefulSet call for (Reconcile,
\* readStatusView, patchStatus).
THEOREM StatusConverges == Agent \notin LaggyKinds /\ Spec => []StatusConverged
<1> SUFFICES ASSUME Agent \notin LaggyKinds PROVE Spec => []StatusConverged
  OBVIOUS
<1>1. Init => ReportInv
  <2>1. ASSUME Init PROVE Reported
    <3>1. pc = "idle" /\ seen[Agent] = Absent
      BY <2>1, KindsApart DEF Init, ClusterInit
    <3> QED
      BY <3>1 DEF Reported, StatusKnown
  <2> QED
    BY <2>1, ConvergenceStarts DEF ReportInv
<1>2. ReportInv /\ [Next]_vars => ReportInv'
  BY ReportInductive
<1> QED
  BY <1>1, <1>2, ReportedWhenQuiet, PTL DEF Spec
=============================================================================
