---------------------------- MODULE WatchRouting ----------------------------
(***************************************************************************)
(* Several HermesAgents of one namespace behind one work queue and one     *)
(* worker (MaxConcurrentReconciles is not set).  They share the ConfigMaps *)
(* and Secrets they refer to, and the names of the ConfigMaps the operator *)
(* generates: one agent may refer to a ConfigMap that is generated for     *)
(* another, and two agents may ask for the same name.  The watches turn    *)
(* events on objects into requests for their controllers and, through the  *)
(* cached agents, for every agent that refers to them.                     *)
(*                                                                         *)
(* A pass is cut down to what agents share: the generated ConfigMaps and   *)
(* the template hash; HermesReconciler has the rest of it.                 *)
(***************************************************************************)
EXTENDS ReferencedInputs, Sequences

CONSTANTS
    Agents,         \* names of HermesAgents
    GeneratedName,  \* name of the generated ConfigMap, by agent and file
    FileKey,        \* the key of the one file of a generated ConfigMap
    InitialAgents,  \* specs of the agents, None for no such agent
    AgentEdits,     \* pairs of specs: what users change a spec to (None: deletion)
    InitialObjects, \* the users' ConfigMaps and Secrets at first
    ObjectEdits,    \* by name, pairs of objects: what users change an object to
    MaxChanges      \* bound on edits by users

\* The specs of agents, and the ConfigMaps and Secrets with the agent that controls them.
AgentSpecs == [raw : [ConfigIds -> Contents \cup {None}], uses : SUBSET Use]
Objects    == [owner : Agents \cup {None}, entries : [data : Entries, binaryData : Entries]]

(* generatedConfigMapName keeps the two files of one agent apart.  Users   *)
(* may take the control of an object away, but hand it to no agent.        *)
ASSUME RoutingAssumption ==
    /\ GeneratedName \in [Agents -> [ConfigIds -> Names]]
    /\ \A x \in Agents : GeneratedName[x]["config"] # GeneratedName[x]["gateway-config"]
    /\ \A x \in Agents, id \in ConfigIds : KindOf[GeneratedName[x][id]] = "ConfigMap"
    /\ InitialAgents \subseteq [Agents -> AgentSpecs \cup {None}]
    /\ AgentEdits \subseteq AgentSpecs \X (AgentSpecs \cup {None})
    /\ InitialObjects \subseteq [Names -> Objects \cup {None}]
    /\ \A n \in Names : \A edit \in ObjectEdits[n] :
          /\ edit[2] \in Objects \cup {None}
          /\ (edit[2] # None /\ edit[2].owner # None) =>
                edit[1] # None /\ edit[1].owner = edit[2].owner
    /\ FileKey \in Keys
    /\ None \notin Agents /\ None \notin AgentSpecs /\ None \notin Objects
    /\ MaxChanges \in Nat

VARIABLES
    agents, objects,          \* the API server
    seenAgents, seenObjects,  \* the informers' caches
    events,                   \* by object, the versions the watch has yet to deliver
    queue,                    \* agents with a request in the work queue
    pc, job,                  \* the worker
    applied,                  \* by agent, the hash on its pod template
    status,                   \* by agent, how its last pass ended
    changes

stored == <<objects, events>>
caches == <<seenAgents, seenObjects>>
vars   == <<agents, objects, events, seenAgents, seenObjects, queue, pc, job, applied, status, changes>>

Init ==
    /\ agents \in InitialAgents
    /\ objects \in InitialObjects
    /\ seenAgents = [x \in Agents |-> None]
    /\ seenObjects = [n \in Names |-> None]
    /\ events = [n \in Names |-> IF objects[n] = None THEN <<>> ELSE <<objects[n]>>]
    /\ queue = {} /\ pc = "idle" /\ job = None
    /\ applied = [x \in Agents |-> None]
    /\ status = [x \in Agents |-> "none"]
    /\ changes = 0

\* The API server stores o, or removes the object (None), and tells the watch.
Put(n, o) ==
    /\ objects' = [objects EXCEPT ![n] = o]
    /\ events' = [events EXCEPT ![n] = Append(@, o)]

-----------------------------------------------------------------------------
(* Watches.                                                                *)

\* Mutant of findReferencingAgents: the list is left after the first match.
findFirstReferencing(n) ==
    LET found == {x \in Agents : seenAgents[x] # None /\ references(seenAgents[x], n)}
    IN  IF found = {} THEN {} ELSE {CHOOSE x \in found : TRUE}

findReferencingAgents(n) ==
    {x \in Agents : seenAgents[x] # None /\ references(seenAgents[x], n)}

Controller(o) == IF o = None THEN {} ELSE {o.owner} \ {None}

DeliverAgent(x) ==
    /\ seenAgents[x] # agents[x]
    /\ seenAgents' = [seenAgents EXCEPT ![x] = agents[x]]
    /\ queue' = queue \cup {x}
    /\ UNCHANGED <<agents, stored, seenObjects, pc, job, applied, status, changes>>

\* Owns looks at the old and at the new controller.
DeliverObject(n) ==
    /\ events[n] # <<>>
    /\ seenObjects' = [seenObjects EXCEPT ![n] = Head(events[n])]
    /\ events' = [events EXCEPT ![n] = Tail(events[n])]
    /\ queue' = queue \cup Controller(seenObjects[n]) \cup Controller(Head(events[n]))
                      \cup findReferencingAgents(n)
    /\ UNCHANGED <<agents, objects, seenAgents, pc, job, applied, status, changes>>

-----------------------------------------------------------------------------
(* A pass over one agent.                                                  *)

\* The operator acts for no agent that is not in the cache.
Take(x) ==
    /\ pc = "idle" /\ x \in queue
    /\ queue' = queue \ {x}
    /\ \/ seenAgents[x] = None /\ UNCHANGED <<pc, job>>
       \/ /\ seenAgents[x] # None
          /\ pc' = "resolve"
          /\ job' = [agent |-> x, spec |-> seenAgents[x], hash |-> None]
    /\ UNCHANGED <<agents, stored, caches, applied, status, changes>>

\* Mutant of End: an error is reported, not returned.
EndQuietly(result, retry) ==
    /\ pc' = "idle" /\ job' = None
    /\ status' = [status EXCEPT ![job.agent] = result]
    /\ UNCHANGED queue

\* An error puts the agent back into the queue.
End(result, retry) ==
    /\ pc' = "idle" /\ job' = None
    /\ status' = [status EXCEPT ![job.agent] = result]
    /\ queue' = IF retry THEN queue \cup {job.agent} ELSE queue

Entry(o) == IF o = None THEN None ELSE o.entries

resolve ==
    LET refs == resolveReferencedInputs(job.spec.uses, [n \in Names |-> Entry(seenObjects[n])])
    IN  /\ pc = "resolve"
        /\ \/ /\ missingReferences(refs) # {}
              /\ End("MissingReferencedInput", FALSE)
           \/ /\ missingReferences(refs) = {}
              /\ pc' = "config"
              /\ job' = [job EXCEPT !.hash = computeConfigHash(job.spec, refs)]
              /\ UNCHANGED <<queue, status>>
        /\ UNCHANGED <<agents, stored, caches, applied, changes>>

Rendered(content) ==
    [ data       |-> [k \in Keys |-> IF k = FileKey THEN content ELSE None],
      binaryData |-> [k \in Keys |-> None] ]

\* Mutant of SetControllerReference: a controller of the same kind is replaced.
SetAnyController(x, o) == TRUE

\* An object without a controller is adopted, one with another controller is refused.
SetControllerReference(x, o) == o # None => o.owner \in {x, None}

\* CreateOrUpdate on the cached object: AlreadyExists and conflicts when it is stale,
\* no call when nothing changes.
reconcileInlineConfigMap(id) ==
    LET n   == GeneratedName[job.agent][id]
        new == [owner |-> job.agent, entries |-> Rendered(job.spec.raw[id])]
        next == IF id = "config" THEN "gateway-config" ELSE "cleanup"
    IN  /\ pc = id
        /\ \/ /\ job.spec.raw[id] = None \/ seenObjects[n] = new
              /\ pc' = next
              /\ UNCHANGED <<stored, queue, job, status>>
           \/ /\ job.spec.raw[id] # None /\ seenObjects[n] # new
              /\ SetControllerReference(job.agent, seenObjects[n])
              /\ events[n] = <<>>
              /\ Put(n, new)
              /\ pc' = next
              /\ UNCHANGED <<queue, job, status>>
           \/ /\ job.spec.raw[id] # None /\ seenObjects[n] # new
              /\ SetControllerReference(job.agent, seenObjects[n]) => events[n] # <<>>
              /\ End("ConfigMapReconcileFailed", TRUE)
              /\ UNCHANGED stored
        /\ UNCHANGED <<agents, caches, applied, changes>>

\* The ConfigMaps of files that are no longer inline and that the cache shows as this
\* agent's, once the StatefulSet is ready; the delete names the object and no version.
cleanupStaleGeneratedConfigMaps(ready) ==
    LET desired == {GeneratedName[job.agent][id] :
                       id \in {i \in ConfigIds : job.spec.raw[i] # None}}
        stale   == {n \in {GeneratedName[job.agent][id] : id \in ConfigIds} \ desired :
                       job.agent \in Controller(seenObjects[n])}
    IN  /\ pc = "cleanup"
        /\ LET gone == {n \in stale : ready /\ objects[n] # None}
           IN  /\ objects' = [n \in Names |-> IF n \in gone THEN None ELSE objects[n]]
               /\ events' = [n \in Names |->
                                IF n \in gone THEN Append(events[n], None) ELSE events[n]]
        /\ pc' = "statefulset"
        /\ UNCHANGED <<agents, caches, queue, job, applied, status, changes>>

reconcileStatefulSet ==
    /\ pc = "statefulset"
    /\ applied' = [applied EXCEPT ![job.agent] = job.hash]
    /\ End("Reconciled", FALSE)
    /\ UNCHANGED <<agents, stored, caches, changes>>

-----------------------------------------------------------------------------
(* Users and the garbage collector.                                        *)

EditAgent(x, spec) ==
    /\ changes < MaxChanges
    /\ agents[x] # None /\ <<agents[x], spec>> \in AgentEdits
    /\ agents' = [agents EXCEPT ![x] = spec]
    /\ changes' = changes + 1
    /\ UNCHANGED <<stored, caches, queue, pc, job, applied, status>>

EditObject(n, o) ==
    /\ changes < MaxChanges
    /\ <<objects[n], o>> \in ObjectEdits[n]
    /\ Put(n, o)
    /\ changes' = changes + 1
    /\ UNCHANGED <<agents, caches, queue, pc, job, applied, status>>

CollectGarbage(n) ==
    /\ \E x \in Controller(objects[n]) : agents[x] = None
    /\ Put(n, None)
    /\ UNCHANGED <<agents, caches, queue, pc, job, applied, status, changes>>

Pass ==
    \/ resolve
    \/ \E id \in ConfigIds : reconcileInlineConfigMap(id)
    \/ \E ready \in BOOLEAN : cleanupStaleGeneratedConfigMaps(ready)
    \/ reconcileStatefulSet

Next ==
    \/ \E x \in Agents : DeliverAgent(x) \/ Take(x)
    \/ \E n \in Names : DeliverObject(n) \/ CollectGarbage(n)
    \/ Pass
    \/ \E x \in Agents, edit \in AgentEdits : EditAgent(x, edit[2])
    \/ \E n \in Names : \E edit \in ObjectEdits[n] : EditObject(n, edit[2])

(* The queue is first in, first out, and a retry waits out its back-off:   *)
(* every queued agent gets its turn, however often another one fails.      *)
Fairness ==
    /\ \A x \in Agents : WF_vars(DeliverAgent(x)) /\ SF_vars(Take(x))
    /\ \A n \in Names : WF_vars(DeliverObject(n)) /\ WF_vars(CollectGarbage(n))
    /\ WF_vars(Pass)

Spec == Init /\ [][Next]_vars /\ Fairness

-----------------------------------------------------------------------------
(* What the agents of a namespace can rely on.                             *)

Live == {x \in Agents : agents[x] # None}

CurrentRefs(x) ==
    resolveReferencedInputs(agents[x].uses, [n \in Names |-> Entry(objects[n])])

Resolves(x) == missingReferences(CurrentRefs(x)) = {}

Inline(x) == {id \in ConfigIds : agents[x].raw[id] # None}

UpToDate(x) ==
    /\ applied[x] = computeConfigHash(agents[x], CurrentRefs(x))
    /\ \A id \in Inline(x) :
          objects[GeneratedName[x][id]] =
              [owner |-> x, entries |-> Rendered(agents[x].raw[id])]

Quiet == pc = "idle" /\ queue = {} /\ seenAgents = agents /\ \A n \in Names : events[n] = <<>>

\* When nothing is queued, running or undelivered, every agent runs with the current
\* content of all it refers to, or waits for an input that is missing now: no event on
\* a shared object is lost on one of the agents that refer to it, also when the object
\* is a ConfigMap generated for another agent (findReferencingAgents, Owns).
NoLostWakeup ==
    Quiet => \A x \in Live :
                IF Resolves(x) THEN UpToDate(x) ELSE status[x] = "MissingReferencedInput"

\* A pass for one agent neither writes nor deletes a ConfigMap that another agent
\* controls, also when the two agents' generated names are the same and the cache lags
\* (SetControllerReference, metav1.IsControlledBy, resourceVersion conflicts).
OthersConfigMapsKept ==
    [][ \A n \in Names :
          (Pass /\ Controller(objects[n]) \ {job.agent} # {}) => objects'[n] = objects[n] ]_vars

\* The name an agent needs for a file is another agent's.
Blocked(x) == \E id \in Inline(x) : Controller(objects[GeneratedName[x][id]]) \ {x} # {}

\* An agent whose inputs are there and whose names are free is served in the end, even
\* while another agent fails and retries for ever, and even when its names become free
\* by the deletion or an edit of the agent that held them, which raises no event for it
\* (returnErrorWithStatus).
Served ==
    \A x \in Agents :
        <>[](x \in Live /\ Resolves(x) /\ ~Blocked(x)) => <>[](x \in Live /\ UpToDate(x))
=============================================================================
