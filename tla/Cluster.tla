------------------------------- MODULE Cluster -------------------------------
(***************************************************************************)
(* The cluster one HermesAgent lives in, as the controller meets it: the   *)
(* objects in the API server (api), the controller's informer caches       *)
(* (seen), the work queue entry of the agent (queued), and everybody else: *)
(* users, the StatefulSet controller and its pods, the volume provisioner, *)
(* the garbage collector.  All of it is external to the repository except  *)
(* which watch events wake the controller (SetupWithManager and            *)
(* findReferencingAgents).                                                 *)
(*                                                                         *)
(* One name holds at most one object.  A child has the uid of the agent    *)
(* that controls it as its owner; NoOwner and OtherOwner are children no   *)
(* agent, or something else, controls.                                     *)
(*                                                                         *)
(* A cache of a kind in LaggyKinds shows a write only once Deliver runs;   *)
(* it may pass over versions, but the watch loses no event: due has the    *)
(* kinds with one on its way that will wake the controller.  Other caches  *)
(* are current.                                                            *)
(***************************************************************************)
EXTENDS HermesStatus

CONSTANTS
    Specs,         \* the specs users submit
    LaggyKinds,    \* kinds whose informer cache may lag
    ForeignKinds,  \* child names that users also create objects under
    Disturbances,  \* what the environment does in this instance
    MaxUid,        \* bound: how often the agent is created
    MaxGen,        \* bound: generations of one agent
    MaxChurn,      \* bound: disturbances
    MaxFaults      \* bound: failed API calls

Agent == "HermesAgent"
Kinds == {Agent} \cup Children \cup Inputs

ASSUME ClusterAssumption ==
    /\ Specs \subseteq AgentSpec
    /\ LaggyKinds \subseteq Kinds
    /\ ForeignKinds \subseteq Children \ {"StatefulSet"}
    /\ Inputs \cap ({Agent} \cup Children) = {}
    /\ MaxUid \in Nat /\ MaxGen \in Nat /\ MaxChurn \in Nat /\ MaxFaults \in Nat

VARIABLES
    api,     \* the objects of the API server
    seen,    \* the informer caches
    queued,  \* the agent's request is in the work queue
    due,     \* kinds with an undelivered event their predicate lets through
    uids,    \* uids given to agents so far
    churn,   \* disturbances so far
    faults   \* API calls failed so far

cluster == <<api, seen, queued, due, uids, churn, faults>>

NoOwner    == 0
OtherOwner == -1
Owners     == {NoOwner, OtherOwner} \cup (Nat \ {0})

ChildStatus(k) ==
    CASE k = "PersistentVolumeClaim" -> {"Pending", "Bound", "Lost"}
      [] k = "StatefulSet"           -> [ready : Nat, observed : BOOLEAN]
      [] OTHER                       -> {None}

InitialStatus(k) ==
    CASE k = "PersistentVolumeClaim" -> "Pending"
      [] k = "StatefulSet"           -> [ready |-> 0, observed |-> FALSE]
      [] OTHER                       -> None

AgentObjects    == [uid : Nat \ {0}, gen : Nat \ {0}, spec : AgentSpec, status : AgentStatus]
ChildObjects(k) == [owner : Owners, spec : ChildSpec(k), status : ChildStatus(k)]

\* An object that is there can be told from one that is not.
ASSUME ObjectsAssumption ==
    Absent \notin AgentObjects /\ \A k \in Children : Absent \notin ChildObjects(k)

Objects(k) ==
    CASE k = Agent      -> AgentObjects \cup {Absent}
      [] k \in Children -> ChildObjects(k) \cup {Absent}
      [] k \in Inputs   -> InputValues

ClusterTypeOK ==
    /\ DOMAIN api = Kinds /\ \A k \in Kinds : api[k] \in Objects(k)
    /\ DOMAIN seen = Kinds /\ \A k \in Kinds : seen[k] \in Objects(k)
    /\ queued \in BOOLEAN
    /\ due \in SUBSET Kinds
    /\ uids \in Nat /\ churn \in Nat /\ faults \in Nat

-----------------------------------------------------------------------------
(* Watches.                                                                *)

OwnedByAgent(o) == o # Absent /\ o.owner > 0

\* Mutant of AgentWakes: spec updates are filtered too.
AgentWakesOnCreate(old, new) == (old = Absent) # (new = Absent)

\* GenerationChangedPredicate: status writes do not wake the controller.  A new uid
\* is a deletion and a creation, which pass.
AgentWakes(old, new) ==
    IF old = Absent \/ new = Absent THEN old # new
    ELSE old.uid # new.uid \/ old.gen # new.gen

\* Mutants of ChildWakes: deletions, or changes of the status, go unnoticed.
ChildWakesIfThere(old, new) == old # new /\ OwnedByAgent(new)
ChildWakesOnSpec(old, new) ==
    /\ OwnedByAgent(old) \/ OwnedByAgent(new)
    /\ (old # Absent /\ new # Absent) => old.spec # new.spec

\* Owns: the owner is found by kind and name, whatever its uid.
ChildWakes(old, new) == old # new /\ (OwnedByAgent(old) \/ OwnedByAgent(new))

\* The event of a change from old to new passes the predicates of its watch.
Wakes(k, old, new) ==
    CASE k = Agent      -> AgentWakes(old, new)
      [] k \in Children -> ChildWakes(old, new)
      [] k \in Inputs   -> old # new

\* Who is woken by an event on an input is decided when it is handled: by the cached
\* agent's references.
findReferencingAgents(i) == seen[Agent] # Absent /\ i \in Referenced(seen[Agent].spec)

Handled(k) == k \in Inputs => findReferencingAgents(k)

SeenAfter(k, o) == IF k \in LaggyKinds THEN seen ELSE [seen EXCEPT ![k] = o]
Woken(k, o)     == k \notin LaggyKinds /\ Wakes(k, seen[k], o) /\ Handled(k)
DueAfter(k, o)  == IF k \in LaggyKinds /\ Wakes(k, api[k], o) THEN due \cup {k} ELSE due

\* Object k becomes o in the API server (Absent: it is deleted).
Store(k, o) ==
    /\ api' = [api EXCEPT ![k] = o]
    /\ seen' = SeenAfter(k, o)
    /\ queued' = (queued \/ Woken(k, o))
    /\ due' = DueAfter(k, o)

Deliver(k) ==
    /\ seen[k] # api[k] \/ k \in due
    /\ seen' = [seen EXCEPT ![k] = api[k]]
    /\ queued' = (queued \/ (k \in due /\ Handled(k)))
    /\ due' = due \ {k}
    /\ UNCHANGED <<api, uids, churn, faults>>

-----------------------------------------------------------------------------
(* How the API server answers a write of a child.                          *)

\* A claim is immutable but for its size, and that only grows once bound.
Refuses(k, old, new) ==
    /\ k = "PersistentVolumeClaim"
    /\ new.spec # old.spec
    /\ \/ [new.spec EXCEPT !.size = old.spec.size] # old.spec
       \/ old.status # "Bound"
       \/ new.spec.size < old.spec.size

\* Defaults and status the server and its controllers fill in on the way.
Admitted(k, old, new, port) ==
    CASE k = "PersistentVolumeClaim" ->
            [new EXCEPT !.spec.class = IF @ = None THEN DefaultClass ELSE @]
      [] k = "StatefulSet" ->
            IF old # Absent /\ new.spec # old.spec
            THEN [new EXCEPT !.status.observed = FALSE] ELSE new
      [] k = "Service" ->
            [new EXCEPT !.spec.nodePort =
                IF new.spec.type = "ClusterIP" THEN 0 ELSE IF @ = 0 THEN port ELSE @]
      [] OTHER -> new

-----------------------------------------------------------------------------
(* Users.                                                                  *)

Disturb(d) ==
    /\ d \in Disturbances
    /\ churn < MaxChurn
    /\ churn' = churn + 1

CreateAgent ==
    /\ api[Agent] = Absent
    /\ uids < MaxUid
    /\ uids' = uids + 1
    /\ \E s \in Specs :
          Store(Agent, [uid |-> uids + 1, gen |-> 1, spec |-> s, status |-> EmptyStatus])
    /\ UNCHANGED <<churn, faults>>

UpdateAgent ==
    /\ Disturb("update")
    /\ api[Agent] # Absent
    /\ api[Agent].gen < MaxGen
    /\ \E s \in Specs \ {api[Agent].spec} :
          Store(Agent, [api[Agent] EXCEPT !.spec = s, !.gen = @ + 1])
    /\ UNCHANGED <<uids, faults>>

DeleteAgent ==
    /\ Disturb("delete")
    /\ api[Agent] # Absent
    /\ Store(Agent, Absent)
    /\ UNCHANGED <<uids, faults>>

ChangeInput ==
    /\ Disturb("input")
    /\ \E i \in Inputs : \E v \in InputValues \ {api[i]} : Store(i, v)
    /\ UNCHANGED <<uids, faults>>

DeleteChild ==
    /\ Disturb("meddle")
    /\ \E k \in Children : api[k] # Absent /\ Store(k, Absent)
    /\ UNCHANGED <<uids, faults>>

ScaleStatefulSet ==
    /\ Disturb("meddle")
    /\ api["StatefulSet"] # Absent
    /\ \E n \in {0, api["StatefulSet"].spec.replicas + 1} \ {api["StatefulSet"].spec.replicas} :
          Store("StatefulSet",
                [api["StatefulSet"] EXCEPT !.spec.replicas = n, !.status.observed = FALSE])
    /\ UNCHANGED <<uids, faults>>

\* Somebody else creates, under the name of a child, what some agent could want there.
CreateForeign ==
    /\ Disturb("foreign")
    /\ \E k \in ForeignKinds, w \in {NoOwner, OtherOwner}, s \in Specs, p \in NodePorts :
          /\ api[k] = Absent
          /\ k \in ConfigIds => k \in Generated(s)
          /\ k \in OptKinds => Enabled(k, s)
          /\ Store(k, Admitted(k, Absent,
                   [owner |-> w, spec |-> Desired(k, s, api), status |-> InitialStatus(k)], p))
    /\ UNCHANGED <<uids, faults>>

-----------------------------------------------------------------------------
(* The controllers of the control plane.                                   *)

ObserveStatefulSet ==
    /\ api["StatefulSet"] # Absent
    /\ ~api["StatefulSet"].status.observed
    /\ Store("StatefulSet", [api["StatefulSet"] EXCEPT !.status.observed = TRUE])
    /\ UNCHANGED <<uids, churn, faults>>

\* A pod of an observed StatefulSet becomes ready, or a surplus one is gone.
AdjustPods ==
    LET sts == api["StatefulSet"]
    IN  /\ sts # Absent
        /\ sts.status.observed
        /\ sts.status.ready # sts.spec.replicas
        /\ Store("StatefulSet",
              [sts EXCEPT !.status.ready = IF @ < sts.spec.replicas THEN @ + 1 ELSE @ - 1])
        /\ UNCHANGED <<uids, churn, faults>>

LosePod ==
    /\ Disturb("pods")
    /\ api["StatefulSet"] # Absent
    /\ api["StatefulSet"].status.ready > 0
    /\ Store("StatefulSet", [api["StatefulSet"] EXCEPT !.status.ready = @ - 1])
    /\ UNCHANGED <<uids, faults>>

BindClaim ==
    /\ api["PersistentVolumeClaim"] # Absent
    /\ api["PersistentVolumeClaim"].status = "Pending"
    /\ Store("PersistentVolumeClaim", [api["PersistentVolumeClaim"] EXCEPT !.status = "Bound"])
    /\ UNCHANGED <<uids, churn, faults>>

LoseClaim ==
    /\ Disturb("claim")
    /\ api["PersistentVolumeClaim"] # Absent
    /\ api["PersistentVolumeClaim"].status = "Bound"
    /\ Store("PersistentVolumeClaim", [api["PersistentVolumeClaim"] EXCEPT !.status = "Lost"])
    /\ UNCHANGED <<uids, faults>>

\* Children of an agent that is gone, or was replaced by one of another uid.
CollectGarbage ==
    /\ \E k \in Children :
          /\ OwnedByAgent(api[k])
          /\ api[Agent] # Absent => api[Agent].uid # api[k].owner
          /\ Store(k, Absent)
    /\ UNCHANGED <<uids, churn, faults>>

-----------------------------------------------------------------------------
ClusterInit ==
    /\ \E values \in [Inputs -> InputValues] :
          api = [k \in Kinds |-> IF k \in Inputs THEN values[k] ELSE Absent]
    /\ seen = api
    /\ queued = FALSE
    /\ due = {}
    /\ uids = 0 /\ churn = 0 /\ faults = 0

Users == CreateAgent \/ UpdateAgent \/ DeleteAgent \/ ChangeInput \/ DeleteChild
            \/ ScaleStatefulSet \/ CreateForeign

ControlPlane == ObserveStatefulSet \/ AdjustPods \/ LosePod \/ BindClaim \/ LoseClaim
                   \/ CollectGarbage

Delivery == \E k \in Kinds : Deliver(k)
=============================================================================
