---------------------------- MODULE RoutingProofs ----------------------------
(***************************************************************************)
(* The agents of a namespace, for every instance: a pass touches no        *)
(* ConfigMap another agent controls, and no agent sleeps over something    *)
(* the caches show.                                                        *)
(*                                                                         *)
(* The first needs that of the versions of an object between the cache and *)
(* the API server no two name different controllers (OneController): the   *)
(* operator writes an object only when its cache of it is current.  The    *)
(* second says of every cached agent that it is queued, or that the        *)
(* running pass works with what the caches show, or that the agent is      *)
(* settled with respect to them (Awake).                                   *)
(***************************************************************************)
EXTENDS WatchRouting, TLAPS

-----------------------------------------------------------------------------
(* Types.                                                                  *)

Steps    == {"idle", "resolve", "config", "gateway-config", "cleanup", "statefulset"}
Versions == Objects \cup {None}

TypeOK ==
    /\ agents \in [Agents -> AgentSpecs \cup {None}]
    /\ seenAgents \in [Agents -> AgentSpecs \cup {None}]
    /\ objects \in [Names -> Versions]
    /\ seenObjects \in [Names -> Versions]
    /\ events \in [Names -> Seq(Versions)]
    /\ DOMAIN applied = Agents /\ DOMAIN status = Agents
    /\ pc \in Steps
    /\ pc # "idle" => /\ job.agent \in Agents /\ job.spec \in AgentSpecs
                      /\ job = [agent |-> job.agent, spec |-> job.spec, hash |-> job.hash]

\* What the watch of an object has yet to make of it: the last version is the stored one.
Delivered ==
    \A n \in Names :
        objects[n] = IF events[n] = <<>> THEN seenObjects[n] ELSE events[n][Len(events[n])]

\* The versions from the cached one to the stored one.
InFlight(n) == {seenObjects[n]} \cup {events[n][i] : i \in 1 .. Len(events[n])}

OneController ==
    \A n \in Names : \A v, w \in InFlight(n) :
        \A x \in Controller(v), y \in Controller(w) : x = y

\* The API server leaves object m, or stores a version of it and tells the watch.  The
\* version has the controller of the stored one, if any; a new controller comes only
\* where the cache is current and shows no other one.
Told(m) ==
    \/ objects'[m] = objects[m] /\ events'[m] = events[m]
    \/ \E v \in Versions :
          /\ objects'[m] = v /\ events'[m] = Append(events[m], v)
          /\ \/ Controller(v) \subseteq Controller(objects[m])
             \/ events[m] = <<>> /\ Controller(seenObjects[m]) \subseteq Controller(v)

\* What was told before is still to be delivered.
LEMMA ToldEvents ==
    ASSUME TypeOK, NEW m \in Names, Told(m)
    PROVE  /\ events'[m] \in Seq(Versions) /\ objects'[m] \in Versions
           /\ Len(events'[m]) >= Len(events[m])
           /\ \A i \in 1 .. Len(events[m]) : events'[m][i] = events[m][i]
<1>1. events[m] \in Seq(Versions) /\ objects[m] \in Versions
  BY DEF TypeOK
<1>2. CASE objects'[m] = objects[m] /\ events'[m] = events[m]
  BY <1>1, <1>2
<1>3. CASE \E v \in Versions : objects'[m] = v /\ events'[m] = Append(events[m], v)
  BY <1>1, <1>3
<1> QED
  BY <1>2, <1>3 DEF Told

\* The last element of a sequence that has one.
LEMMA LastOf ==
    ASSUME NEW S, NEW s \in Seq(S)
    PROVE  /\ Len(s) \in Nat
           /\ s # <<>> <=> Len(s) # 0
           /\ s # <<>> => Len(s) \in 1 .. Len(s)
  OBVIOUS

\* A version has one controller at most.
LEMMA ControllerOne == \A v : \A x, y \in Controller(v) : x = y
  BY DEF Controller

\* Such a write keeps the versions in order and under one controller.
LEMMA ToldKeeps ==
    ASSUME TypeOK, Delivered, OneController, UNCHANGED seenObjects,
           \A m \in Names : Told(m)
    PROVE  Delivered' /\ OneController'
<1>1. ASSUME NEW m \in Names
      PROVE  objects'[m] = IF events'[m] = <<>> THEN seenObjects'[m]
                                                ELSE events'[m][Len(events'[m])]
  <2>1. events[m] \in Seq(Versions)
    BY DEF TypeOK
  <2>2. CASE objects'[m] = objects[m] /\ events'[m] = events[m]
    BY <2>2 DEF Delivered
  <2>3. CASE \E v \in Versions : objects'[m] = v /\ events'[m] = Append(events[m], v)
    BY <2>1, <2>3
  <2> QED
    BY <2>2, <2>3 DEF Told
<1>2. ASSUME NEW m \in Names, NEW v \in InFlight(m)', NEW w \in InFlight(m)',
             NEW x \in Controller(v), NEW y \in Controller(w)
      PROVE  x = y
  <2>1. events[m] \in Seq(Versions)
    BY DEF TypeOK
  <2>2. objects[m] \in InFlight(m)
    BY <2>1 DEF Delivered, InFlight
  <2>3. CASE objects'[m] = objects[m] /\ events'[m] = events[m]
    BY <1>2, <2>3 DEF OneController, InFlight
  <2>4. ASSUME NEW new \in Versions, events'[m] = Append(events[m], new)
        PROVE  InFlight(m)' = InFlight(m) \cup {new}
    BY <2>1, <2>4 DEF InFlight
  <2>5. ASSUME NEW new \in Versions, events'[m] = Append(events[m], new),
               Controller(new) \subseteq Controller(objects[m])
        PROVE  x = y
    BY <1>2, <2>2, <2>4, <2>5 DEF OneController
  <2>6. ASSUME NEW new \in Versions, events'[m] = Append(events[m], new),
               events[m] = <<>>, Controller(seenObjects[m]) \subseteq Controller(new)
        PROVE  x = y
    <3>1. InFlight(m) = {seenObjects[m]}
      BY <2>6 DEF InFlight
    <3> QED
      BY <1>2, <2>4, <2>6, <3>1, ControllerOne
  <2> QED
    BY <2>3, <2>5, <2>6 DEF Told
<1> QED
  BY <1>1, <1>2 DEF Delivered, OneController

\* The ConfigMap a pass writes for an inline file.
LEMMA RenderedTyped ==
    ASSUME NEW x \in Agents, NEW content \in Contents
    PROVE  /\ [owner |-> x, entries |-> Rendered(content)] \in Objects
           /\ Controller([owner |-> x, entries |-> Rendered(content)]) = {x}
<1>1. [owner |-> x, entries |-> Rendered(content)] \in Objects
  BY DEF Objects, Rendered, Entries
<1> QED
  BY <1>1, RoutingAssumption DEF Controller

\* A write of one object.
LEMMA PutTells ==
    ASSUME TypeOK, NEW n \in Names, NEW o \in Versions, Put(n, o),
           \/ Controller(o) \subseteq Controller(objects[n])
           \/ events[n] = <<>> /\ Controller(seenObjects[n]) \subseteq Controller(o)
    PROVE  /\ \A m \in Names : Told(m)
           /\ objects' \in [Names -> Versions] /\ events' \in [Names -> Seq(Versions)]
<1>1. events[n] \in Seq(Versions) /\ Append(events[n], o) \in Seq(Versions)
  BY DEF TypeOK
<1> QED
  BY <1>1 DEF TypeOK, Put, Told

\* A pass that writes the ConfigMap of an inline file.
LEMMA InlineTells ==
    ASSUME TypeOK, NEW id \in ConfigIds, reconcileInlineConfigMap(id)
    PROVE  /\ \A m \in Names : Told(m)
           /\ objects' \in [Names -> Versions] /\ events' \in [Names -> Seq(Versions)]
<1> DEFINE n   == GeneratedName[job.agent][id]
           new == [owner |-> job.agent, entries |-> Rendered(job.spec.raw[id])]
<1>1. job.agent \in Agents /\ job.spec.raw[id] \in Contents \cup {None} /\ n \in Names
  BY RoutingAssumption DEF TypeOK, reconcileInlineConfigMap, ConfigIds, AgentSpecs
<1>2. CASE UNCHANGED stored
  BY <1>2 DEF stored, Told, TypeOK
<1>3. CASE /\ job.spec.raw[id] # None /\ SetControllerReference(job.agent, seenObjects[n])
           /\ events[n] = <<>> /\ Put(n, new)
  <2>1. new \in Versions /\ Controller(new) = {job.agent}
    BY <1>1, <1>3, RenderedTyped DEF Versions
  <2>2. Controller(seenObjects[n]) \subseteq {job.agent}
    BY <1>3 DEF SetControllerReference, Controller
  <2> HIDE DEF n, new
  <2> QED
    BY <1>1, <1>3, <2>1, <2>2, PutTells
<1> QED
  BY <1>2, <1>3 DEF reconcileInlineConfigMap

\* A pass that deletes what is stale.
LEMMA CleanupTells ==
    ASSUME TypeOK, NEW ready \in BOOLEAN, cleanupStaleGeneratedConfigMaps(ready)
    PROVE  /\ \A m \in Names : Told(m)
           /\ objects' \in [Names -> Versions] /\ events' \in [Names -> Seq(Versions)]
<1>1. \E gone : /\ objects' = [n \in Names |-> IF n \in gone THEN None ELSE objects[n]]
                /\ events' = [n \in Names |->
                                 IF n \in gone THEN Append(events[n], None) ELSE events[n]]
  BY DEF cleanupStaleGeneratedConfigMaps
<1>2. None \in Versions /\ Controller(None) = {}
  BY DEF Versions, Controller
<1>3. \A n \in Names : /\ events[n] \in Seq(Versions) /\ objects[n] \in Versions
                       /\ Append(events[n], None) \in Seq(Versions)
  BY <1>2 DEF TypeOK
<1> QED
  BY <1>1, <1>2, <1>3 DEF Told

\* Users and the garbage collector.
LEMMA OthersTell ==
    ASSUME TypeOK, NEW n \in Names,
           CollectGarbage(n) \/ \E edit \in ObjectEdits[n] : EditObject(n, edit[2])
    PROVE  /\ \A m \in Names : Told(m)
           /\ objects' \in [Names -> Versions] /\ events' \in [Names -> Seq(Versions)]
<1>1. CASE CollectGarbage(n)
  BY <1>1, PutTells DEF CollectGarbage, Versions, Controller
<1>2. ASSUME NEW o, EditObject(n, o)
      PROVE  /\ \A m \in Names : Told(m)
             /\ objects' \in [Names -> Versions] /\ events' \in [Names -> Seq(Versions)]
  <2>1. <<objects[n], o>> \in ObjectEdits[n] /\ Put(n, o)
    BY <1>2 DEF EditObject
  <2>2. /\ o \in Versions
        /\ (o # None /\ o.owner # None) => objects[n] # None /\ objects[n].owner = o.owner
    BY <2>1, RoutingAssumption DEF Versions
  <2>3. Controller(o) \subseteq Controller(objects[n])
    BY <2>2 DEF Controller
  <2> QED
    BY <2>1, <2>2, <2>3, PutTells
<1> QED
  BY <1>1, <1>2

\* What is delivered next.
LEMMA NextEvent ==
    ASSUME TypeOK, NEW n \in Names, DeliverObject(n)
    PROVE  /\ events[n] \in Seq(Versions) /\ Len(events[n]) \in Nat /\ Len(events[n]) >= 1
           /\ seenObjects'[n] = events[n][1] /\ events[n][1] \in Versions
           /\ events'[n] = Tail(events[n]) /\ events'[n] \in Seq(Versions)
           /\ Len(events'[n]) = Len(events[n]) - 1
           /\ \A i \in 1 .. Len(events'[n]) : events'[n][i] = events[n][i + 1]
           /\ \A m \in Names \ {n} :
                 seenObjects'[m] = seenObjects[m] /\ events'[m] = events[m]
           /\ DOMAIN seenObjects' = Names /\ DOMAIN events' = Names
           /\ UNCHANGED objects
<1>1. events[n] \in Seq(Versions) /\ events[n] # <<>>
  BY DEF TypeOK, DeliverObject
<1>2. /\ Len(events[n]) \in Nat /\ Len(events[n]) >= 1
      /\ Head(events[n]) = events[n][1] /\ events[n][1] \in Versions
      /\ Tail(events[n]) \in Seq(Versions) /\ Len(Tail(events[n])) = Len(events[n]) - 1
      /\ \A i \in 1 .. Len(Tail(events[n])) : Tail(events[n])[i] = events[n][i + 1]
  BY <1>1
<1>3. /\ seenObjects' = [seenObjects EXCEPT ![n] = Head(events[n])]
      /\ events' = [events EXCEPT ![n] = Tail(events[n])]
      /\ UNCHANGED objects
  BY DEF DeliverObject
<1>4. DOMAIN seenObjects = Names /\ DOMAIN events = Names
  BY DEF TypeOK
<1> QED
  BY <1>1, <1>2, <1>3, <1>4

\* A delivery moves along the versions.
LEMMA DeliverKeeps ==
    ASSUME TypeOK, Delivered, OneController, NEW n \in Names, DeliverObject(n)
    PROVE  Delivered' /\ OneController'
<1>1. ASSUME NEW m \in Names
      PROVE  /\ objects'[m] = IF events'[m] = <<>> THEN seenObjects'[m]
                                                   ELSE events'[m][Len(events'[m])]
             /\ InFlight(m)' \subseteq InFlight(m)
  <2>1. CASE m # n
    BY <2>1, NextEvent DEF Delivered, InFlight
  <2>2. CASE m = n
    <3>1. /\ Len(events[n]) \in Nat /\ Len(events[n]) >= 1
          /\ seenObjects'[n] = events[n][1] /\ events'[n] \in Seq(Versions)
          /\ Len(events'[n]) = Len(events[n]) - 1
          /\ \A i \in 1 .. Len(events'[n]) : events'[n][i] = events[n][i + 1]
          /\ objects' = objects /\ events[n] # <<>>
      BY NextEvent
    <3>2. objects[n] = events[n][Len(events[n])]
      BY <3>1 DEF Delivered
    <3>3. CASE Len(events'[n]) = 0
      BY <2>2, <3>1, <3>2, <3>3 DEF InFlight
    <3>4. CASE Len(events'[n]) # 0
      <4>1. events'[n] # <<>> /\ Len(events'[n]) \in 1 .. Len(events'[n])
        BY <3>1, <3>4, LastOf
      <4>2. events'[n][Len(events'[n])] = events[n][Len(events[n])]
        <5> DEFINE last == Len(events'[n])
        <5>1. last + 1 = Len(events[n])
          BY <3>1
        <5>2. events'[n][last] = events[n][last + 1]
          BY <3>1, <4>1
        <5> QED
          BY <5>1, <5>2
      <4>3. ASSUME NEW v \in InFlight(n)'
            PROVE  v \in InFlight(n)
        <5>1. CASE v = seenObjects'[n]
          BY <3>1, <5>1 DEF InFlight
        <5>2. CASE \E i \in 1 .. Len(events'[n]) : v = events'[n][i]
          <6>1. PICK i \in 1 .. Len(events'[n]) : v = events'[n][i]
            BY <5>2
          <6>2. i + 1 \in 1 .. Len(events[n]) /\ v = events[n][i + 1]
            BY <3>1, <6>1
          <6> QED
            BY <6>2 DEF InFlight
        <5> QED
          BY <4>3, <5>1, <5>2 DEF InFlight
      <4> QED
        BY <2>2, <3>1, <3>2, <4>1, <4>2, <4>3
    <3> QED
      BY <3>3, <3>4
  <2> QED
    BY <2>1, <2>2
<1> QED
  BY <1>1 DEF Delivered, OneController

\* A step of the worker that keeps its job.
JobKept == /\ pc' \in Steps \ {"resolve"}
           /\ pc' # "idle" => pc # "idle" /\ job'.agent = job.agent /\ job'.spec = job.spec
           /\ pc' # "idle" =>
                 job' = [agent |-> job'.agent, spec |-> job'.spec, hash |-> job'.hash]
           /\ DOMAIN applied' = DOMAIN applied /\ DOMAIN status' = DOMAIN status
           /\ UNCHANGED <<agents, seenAgents, seenObjects>>

\* Every step of a pass is one.
LEMMA PassKeepsJob ==
    ASSUME TypeOK, Pass
    PROVE  JobKept
<1>1. CASE resolve
  <2>1. CASE End("MissingReferencedInput", FALSE)
    BY <1>1, <2>1 DEF resolve, End, JobKept, Steps, caches
  <2>2. CASE \E h : pc' = "config" /\ job' = [job EXCEPT !.hash = h] /\ UNCHANGED status
    BY <1>1, <2>2 DEF resolve, JobKept, Steps, caches, TypeOK
  <2> QED
    BY <1>1, <2>1, <2>2 DEF resolve
<1>2. ASSUME NEW id \in ConfigIds, reconcileInlineConfigMap(id)
      PROVE  JobKept
  <2>1. pc # "idle"
    BY <1>2 DEF reconcileInlineConfigMap, ConfigIds
  <2>2. CASE End("ConfigMapReconcileFailed", TRUE)
    BY <1>2, <2>2 DEF reconcileInlineConfigMap, End, JobKept, Steps, caches
  <2>3. CASE UNCHANGED <<job, status>> /\ pc' \in {"gateway-config", "cleanup"}
    BY <1>2, <2>1, <2>3 DEF reconcileInlineConfigMap, JobKept, Steps, caches, TypeOK
  <2> QED
    BY <1>2, <2>2, <2>3 DEF reconcileInlineConfigMap
<1>3. ASSUME NEW ready \in BOOLEAN, cleanupStaleGeneratedConfigMaps(ready)
      PROVE  JobKept
  BY <1>3 DEF cleanupStaleGeneratedConfigMaps, JobKept, Steps, caches, TypeOK
<1>4. CASE reconcileStatefulSet
  BY <1>4 DEF reconcileStatefulSet, End, JobKept, Steps, caches, TypeOK
<1> QED
  BY <1>1, <1>2, <1>3, <1>4 DEF Pass

\* What a pass stores.
LEMMA PassTells ==
    ASSUME TypeOK, Pass
    PROVE  /\ \A m \in Names : Told(m)
           /\ objects' \in [Names -> Versions] /\ events' \in [Names -> Seq(Versions)]
<1>1. CASE resolve \/ reconcileStatefulSet
  BY <1>1 DEF resolve, reconcileStatefulSet, stored, Told, TypeOK
<1> QED
  BY <1>1, InlineTells, CleanupTells DEF Pass

\* The types are inductive.
LEMMA StepTyped == TypeOK /\ [Next]_vars => TypeOK'
<1> SUFFICES ASSUME TypeOK, [Next]_vars PROVE TypeOK'
  OBVIOUS
<1>1. CASE UNCHANGED vars
  BY <1>1 DEF vars, TypeOK
<1>2. ASSUME NEW x \in Agents, DeliverAgent(x)
      PROVE  TypeOK'
  BY <1>2 DEF DeliverAgent, stored, TypeOK
<1>3. ASSUME NEW x \in Agents, Take(x)
      PROVE  TypeOK'
  BY <1>3 DEF Take, stored, caches, TypeOK, Steps
<1>4. ASSUME NEW n \in Names, DeliverObject(n)
      PROVE  TypeOK'
  <2>1. \A m \in Names : seenObjects'[m] \in Versions /\ events'[m] \in Seq(Versions)
    BY <1>4, NextEvent DEF TypeOK
  <2>2. seenObjects' \in [Names -> Versions] /\ events' \in [Names -> Seq(Versions)]
    BY <1>4, <2>1 DEF DeliverObject, TypeOK
  <2> QED
    BY <1>4, <2>2 DEF DeliverObject, TypeOK
<1>5. CASE Pass
  <2>1. JobKept
    BY <1>5, PassKeepsJob
  <2>2. objects' \in [Names -> Versions] /\ events' \in [Names -> Seq(Versions)]
    BY <1>5, PassTells
  <2> QED
    BY <2>1, <2>2 DEF JobKept, TypeOK
<1>6. ASSUME NEW x \in Agents, NEW edit \in AgentEdits, EditAgent(x, edit[2])
      PROVE  TypeOK'
  <2>1. edit[2] \in AgentSpecs \cup {None}
    BY RoutingAssumption
  <2> QED
    BY <1>6, <2>1 DEF EditAgent, stored, caches, TypeOK
<1>7. ASSUME NEW n \in Names,
             CollectGarbage(n) \/ \E edit \in ObjectEdits[n] : EditObject(n, edit[2])
      PROVE  TypeOK'
  <2>1. objects' \in [Names -> Versions] /\ events' \in [Names -> Seq(Versions)]
    BY <1>7, OthersTell
  <2>2. UNCHANGED <<agents, caches, pc, job, applied, status>>
    BY <1>7 DEF CollectGarbage, EditObject
  <2> QED
    BY <2>1, <2>2 DEF caches, TypeOK
<1> QED
  BY <1>1, <1>2, <1>3, <1>4, <1>5, <1>6, <1>7 DEF Next

\* They hold at first.
LEMMA InitTyped == Init => TypeOK
<1> SUFFICES ASSUME Init PROVE TypeOK
  OBVIOUS
<1>1. agents \in [Agents -> AgentSpecs \cup {None}] /\ objects \in [Names -> Versions]
  BY RoutingAssumption DEF Init, Versions
<1>2. \A n \in Names : (IF objects[n] = None THEN <<>> ELSE <<objects[n]>>) \in Seq(Versions)
  BY <1>1
<1> QED
  BY <1>1, <1>2 DEF Init, TypeOK, Steps, Versions

-----------------------------------------------------------------------------
(* One controller.                                                         *)

Ordered == TypeOK /\ Delivered /\ OneController

\* Versions stay in order and under one controller.
LEMMA OrderedStep == Ordered /\ [Next]_vars => Ordered'
<1> SUFFICES ASSUME Ordered, [Next]_vars PROVE Delivered' /\ OneController'
  BY StepTyped DEF Ordered
<1>1. CASE UNCHANGED <<objects, events, seenObjects>>
  BY <1>1 DEF Ordered, Delivered, OneController, InFlight
<1>2. ASSUME NEW x \in Agents, DeliverAgent(x) \/ Take(x)
      PROVE  UNCHANGED <<objects, events, seenObjects>>
  BY <1>2 DEF DeliverAgent, Take, stored, caches
<1>3. ASSUME NEW n \in Names, DeliverObject(n)
      PROVE  Delivered' /\ OneController'
  BY <1>3, DeliverKeeps DEF Ordered
<1>4. CASE Pass
  <2>1. UNCHANGED seenObjects
    BY <1>4, PassKeepsJob DEF Ordered, JobKept
  <2> QED
    BY <1>4, <2>1, PassTells, ToldKeeps DEF Ordered
<1>5. ASSUME NEW x \in Agents, NEW edit \in AgentEdits, EditAgent(x, edit[2])
      PROVE  UNCHANGED <<objects, events, seenObjects>>
  BY <1>5 DEF EditAgent, stored, caches
<1>6. ASSUME NEW n \in Names,
             CollectGarbage(n) \/ \E edit \in ObjectEdits[n] : EditObject(n, edit[2])
      PROVE  Delivered' /\ OneController'
  <2>1. UNCHANGED seenObjects
    BY <1>6 DEF CollectGarbage, EditObject, caches
  <2> QED
    BY <1>6, <2>1, OthersTell, ToldKeeps DEF Ordered
<1>7. UNCHANGED vars => UNCHANGED <<objects, events, seenObjects>>
  BY DEF vars
<1> QED
  BY <1>1, <1>2, <1>3, <1>4, <1>5, <1>6, <1>7 DEF Next

\* At first the caches are empty and each object has one version.
LEMMA OrderedInitial == Init => Ordered
<1> SUFFICES ASSUME Init PROVE Delivered /\ OneController
  BY InitTyped DEF Ordered
<1>1. ASSUME NEW n \in Names
      PROVE  /\ seenObjects[n] = None
             /\ events[n] = IF objects[n] = None THEN <<>> ELSE <<objects[n]>>
  BY DEF Init
<1>2. ASSUME NEW n \in Names
      PROVE  /\ InFlight(n) \subseteq {None, objects[n]}
             /\ objects[n] = IF events[n] = <<>> THEN seenObjects[n]
                                                ELSE events[n][Len(events[n])]
  <2>1. CASE objects[n] = None
    <3>0. events[n] = <<>>
      BY <1>1, <2>1
    <3>1. events[n] = <<>> /\ Len(events[n]) = 0 /\ 1 .. 0 = {}
      BY <3>0
    <3>2. {events[n][i] : i \in 1 .. Len(events[n])} = {}
      BY <3>1
    <3>3. InFlight(n) = {None}
      BY <1>1, <3>2 DEF InFlight
    <3> QED
      BY <1>1, <2>1, <3>1, <3>3
  <2>2. CASE objects[n] # None
    <3>0. events[n] = <<objects[n]>>
      BY <1>1, <2>2
    <3>1. /\ events[n] = <<objects[n]>> /\ events[n] # <<>>
          /\ Len(events[n]) = 1 /\ events[n][1] = objects[n] /\ 1 .. 1 = {1}
      BY <3>0
    <3>2. {events[n][i] : i \in 1 .. Len(events[n])} = {objects[n]}
      BY <3>1
    <3>3. InFlight(n) = {None, objects[n]}
      BY <1>1, <3>2 DEF InFlight
    <3>4. events[n][Len(events[n])] = objects[n]
      BY <3>1
    <3> QED
      BY <3>1, <3>3, <3>4
  <2> QED
    BY <2>1, <2>2
<1>3. OneController
  <2>1. Controller(None) = {}
    BY DEF Controller
  <2> SUFFICES ASSUME NEW n \in Names, NEW v \in InFlight(n), NEW w \in InFlight(n),
                      NEW x \in Controller(v), NEW y \in Controller(w)
               PROVE  x = y
    BY DEF OneController
  <2>2. v = objects[n] /\ w = objects[n]
    BY <1>2, <2>1
  <2> QED
    BY <2>2, ControllerOne
<1>4. Delivered
  BY <1>2 DEF Delivered
<1> QED
  BY <1>3, <1>4

\* No step of a pass changes an object that another agent controls.
LEMMA PassKeepsOthers ==
    ASSUME Ordered, Pass, NEW n \in Names, Controller(objects[n]) \ {job.agent} # {}
    PROVE  objects'[n] = objects[n]
<1>1. TypeOK /\ objects[n] \in InFlight(n) /\ seenObjects[n] \in InFlight(n)
  <2>1. TypeOK /\ events[n] \in Seq(Versions)
    BY DEF Ordered, TypeOK
  <2> QED
    BY <2>1, LastOf DEF Ordered, Delivered, InFlight
<1>2. CASE resolve \/ reconcileStatefulSet
  BY <1>2 DEF resolve, reconcileStatefulSet, stored
<1>3. ASSUME NEW id \in ConfigIds, reconcileInlineConfigMap(id)
      PROVE  objects'[n] = objects[n]
  <2> DEFINE m == GeneratedName[job.agent][id]
  <2>1. CASE UNCHANGED stored
    BY <2>1 DEF stored
  <2>2. CASE /\ SetControllerReference(job.agent, seenObjects[m]) /\ events[m] = <<>>
             /\ \E new : Put(m, new)
    <3>1. CASE m = n
      <4>1. objects[n] = seenObjects[n]
        BY <2>2, <3>1 DEF Ordered, Delivered
      <4>2. Controller(seenObjects[n]) \subseteq {job.agent}
        BY <2>2, <3>1 DEF SetControllerReference, Controller
      <4> QED
        BY <4>1, <4>2
    <3>2. CASE m # n
      BY <1>1, <2>2, <3>2 DEF Put, TypeOK
    <3> QED
      BY <3>1, <3>2
  <2> QED
    BY <1>3, <2>1, <2>2 DEF reconcileInlineConfigMap
<1>4. ASSUME NEW ready \in BOOLEAN, cleanupStaleGeneratedConfigMaps(ready)
      PROVE  objects'[n] = objects[n]
  <2>1. job.agent \notin Controller(seenObjects[n])
    BY <1>1 DEF Ordered, OneController
  <2> QED
    BY <1>4, <2>1 DEF cleanupStaleGeneratedConfigMaps
<1> QED
  BY <1>2, <1>3, <1>4 DEF Pass

\* For every instance: a pass neither writes nor deletes a ConfigMap that another agent
\* controls, although it deletes by name and through a cache that may lag
\* (cleanupStaleGeneratedConfigMaps, SetControllerReference).
THEOREM OthersKept == Spec => OthersConfigMapsKept
<1> DEFINE Kept == \A n \in Names :
                     (Pass /\ Controller(objects[n]) \ {job.agent} # {}) =>
                         objects'[n] = objects[n]
<1>1. Ordered /\ [Next]_vars => [Kept]_vars
  BY PassKeepsOthers
<1> QED
  BY <1>1, OrderedInitial, OrderedStep, PTL DEF Spec, OthersConfigMapsKept

-----------------------------------------------------------------------------
(* No lost wake-up.                                                        *)

\* What a pass would resolve for spec s now.
FromCache(s) == resolveReferencedInputs(s.uses, [n \in Names |-> Entry(seenObjects[n])])

\* The ConfigMap agent x needs for a file is cached as it should be, or x will be woken
\* by a version of it that is on its way.
Handled(x, s, id) ==
    LET n == GeneratedName[x][id]
    IN  s.raw[id] # None =>
            \/ seenObjects[n] = [owner |-> x, entries |-> Rendered(s.raw[id])]
            \/ \E i \in 1 .. Len(events[n]) : x \in Controller(events[n][i])

\* The last pass over x did all there is to do about what the caches show.
Settled(x, s) ==
    \/ missingReferences(FromCache(s)) # {} /\ status[x] = "MissingReferencedInput"
    \/ /\ missingReferences(FromCache(s)) = {}
       /\ applied[x] = computeConfigHash(s, FromCache(s))
       /\ \A id \in ConfigIds : Handled(x, s, id)

\* The running pass over x goes by what the caches show.
Working(x, s) ==
    /\ job.spec = s
    /\ pc # "resolve" => /\ missingReferences(FromCache(s)) = {}
                         /\ job.hash = computeConfigHash(s, FromCache(s))
    /\ pc \in {"gateway-config", "cleanup", "statefulset"} => Handled(x, s, "config")
    /\ pc \in {"cleanup", "statefulset"} => Handled(x, s, "gateway-config")

Busy(x) == pc # "idle" /\ job.agent = x

Awake(x) ==
    \/ x \in queue
    \/ Busy(x) /\ Working(x, seenAgents[x])
    \/ ~Busy(x) /\ Settled(x, seenAgents[x])

Wakeful == \A x \in Agents : seenAgents[x] # None => Awake(x)

\* A pass reads no object but the ones its agent refers to.
LEMMA CacheSame ==
    ASSUME NEW s \in AgentSpecs, \A u \in s.uses : seenObjects'[u.name] = seenObjects[u.name]
    PROVE  FromCache(s)' = FromCache(s)
<1>1. \A u \in s.uses : u.name \in Names
  BY DEF AgentSpecs, Use
<1>2. \A u \in s.uses : [n \in Names |-> Entry(seenObjects'[n])][u.name] =
                        [n \in Names |-> Entry(seenObjects[n])][u.name]
  BY <1>1 DEF Entry
<1> QED
  BY <1>2 DEF FromCache, resolveReferencedInputs, Entry

\* What is on its way stays on its way while others write.
LEMMA HandledKept ==
    ASSUME TypeOK, UNCHANGED seenObjects, \A m \in Names : Told(m),
           NEW x \in Agents, NEW s, NEW id \in ConfigIds, Handled(x, s, id)
    PROVE  Handled(x, s, id)'
<1> DEFINE n == GeneratedName[x][id]
<1>1. n \in Names
  BY RoutingAssumption
<1>2. /\ events[n] \in Seq(Versions) /\ events'[n] \in Seq(Versions)
      /\ Len(events'[n]) >= Len(events[n])
      /\ \A i \in 1 .. Len(events[n]) : events'[n][i] = events[n][i]
  BY <1>1, ToldEvents DEF TypeOK
<1>3. \A i \in 1 .. Len(events[n]) : i \in 1 .. Len(events'[n])
  BY <1>2
<1> QED
  BY <1>2, <1>3 DEF Handled

\* A settled agent stays settled while no pass over it ends and no event is delivered.
LEMMA SettledKept ==
    ASSUME TypeOK, UNCHANGED seenObjects, \A m \in Names : Told(m),
           NEW x \in Agents, NEW s \in AgentSpecs
    PROVE  /\ FromCache(s)' = FromCache(s)
           /\ (Settled(x, s) /\ applied'[x] = applied[x] /\ status'[x] = status[x]) =>
                  Settled(x, s)'
<1>1. FromCache(s)' = FromCache(s)
  BY CacheSame
<1> QED
  BY <1>1, HandledKept DEF Settled

\* Steps that leave the worker and the object cache alone.
LEMMA AwakeKept ==
    ASSUME TypeOK, UNCHANGED <<seenObjects, pc, job, applied, status>>,
           \A m \in Names : Told(m), queue \subseteq queue',
           NEW x \in Agents, seenAgents[x] # None, seenAgents'[x] = seenAgents[x], Awake(x)
    PROVE  Awake(x)'
<1>1. PICK s \in AgentSpecs : s = seenAgents[x] /\ s = seenAgents'[x]
  BY DEF TypeOK
<1>2. \A id \in ConfigIds : Handled(x, s, id) => Handled(x, s, id)'
  BY HandledKept
<1>3. FromCache(s)' = FromCache(s) /\ (Settled(x, s) => Settled(x, s)')
  BY SettledKept
<1>4. Working(x, s) => Working(x, s)'
  BY <1>2, <1>3 DEF Working, ConfigIds
<1> QED
  BY <1>1, <1>3, <1>4 DEF Awake, Busy

\* The delivery of an event wakes everyone it can concern.
LEMMA DeliverWakes ==
    ASSUME TypeOK, NEW n \in Names, DeliverObject(n),
           NEW x \in Agents, seenAgents[x] # None, Awake(x)
    PROVE  Awake(x)'
<1>1. /\ UNCHANGED <<seenAgents, pc, job, applied, status>>
      /\ queue' = queue \cup Controller(seenObjects[n]) \cup Controller(events[n][1])
                        \cup findReferencingAgents(n)
  <2>1. Head(events[n]) = events[n][1]
    BY NextEvent
  <2> QED
    BY <2>1 DEF DeliverObject
<1>2. PICK s \in AgentSpecs : s = seenAgents[x] /\ s = seenAgents'[x]
  BY <1>1 DEF TypeOK
<1>3. CASE x \in queue'
  BY <1>3 DEF Awake
<1>4. CASE x \notin queue'
  <2>1. /\ x \notin queue /\ x \notin Controller(seenObjects[n])
        /\ x \notin Controller(events[n][1]) /\ ~references(s, n)
    BY <1>1, <1>2, <1>4 DEF findReferencingAgents
  <2>2. \A m \in Names \ {n} : seenObjects'[m] = seenObjects[m] /\ events'[m] = events[m]
    BY NextEvent
  <2>3. FromCache(s)' = FromCache(s)
    <3>1. \A u \in s.uses : u.name \in Names \ {n}
      BY <2>1 DEF references, AgentSpecs, Use
    <3> QED
      BY <2>2, <3>1, CacheSame
  <2>4. ASSUME NEW id \in ConfigIds, Handled(x, s, id)
        PROVE  Handled(x, s, id)'
    <3> DEFINE m == GeneratedName[x][id]
    <3>1. m \in Names
      BY RoutingAssumption
    <3>2. CASE m # n
      BY <2>2, <2>4, <3>1, <3>2 DEF Handled
    <3>3. CASE m = n /\ s.raw[id] # None
      <4>1. s.raw[id] \in Contents
        BY <3>3 DEF AgentSpecs
      <4>2. seenObjects[n] # [owner |-> x, entries |-> Rendered(s.raw[id])]
        BY <2>1, <4>1, RenderedTyped
      <4>3. PICK i \in 1 .. Len(events[n]) : x \in Controller(events[n][i])
        BY <2>4, <3>3, <4>2 DEF Handled
      <4>4. i # 1
        BY <2>1, <4>3
      <4>5. /\ Len(events[n]) \in Nat /\ Len(events'[n]) = Len(events[n]) - 1
            /\ \A j \in 1 .. Len(events'[n]) : events'[n][j] = events[n][j + 1]
        BY NextEvent
      <4>6. i - 1 \in 1 .. Len(events'[n]) /\ events'[n][i - 1] = events[n][i]
        BY <4>3, <4>4, <4>5
      <4> QED
        BY <3>3, <4>3, <4>6 DEF Handled
    <3> QED
      BY <3>2, <3>3 DEF Handled
  <2>5. Settled(x, s) => Settled(x, s)'
    BY <1>1, <2>3, <2>4 DEF Settled
  <2>6. Working(x, s) => Working(x, s)'
    BY <1>1, <2>3, <2>4 DEF Working, ConfigIds
  <2> QED
    BY <1>1, <1>2, <2>1, <2>5, <2>6 DEF Awake, Busy
<1> QED
  BY <1>3, <1>4

\* The worker takes an agent as the cache has it.
LEMMA TakeWakes ==
    ASSUME TypeOK, NEW y \in Agents, Take(y), NEW x \in Agents, seenAgents[x] # None, Awake(x)
    PROVE  Awake(x)'
<1>1. /\ UNCHANGED <<agents, objects, events, seenAgents, seenObjects, applied, status>>
      /\ pc = "idle" /\ queue' = queue \ {y}
  BY DEF Take, stored, caches
<1>2. PICK s \in AgentSpecs : s = seenAgents[x] /\ s = seenAgents'[x]
  BY <1>1 DEF TypeOK
<1>3. CASE x = y
  <2>1. pc' = "resolve" /\ job' = [agent |-> x, spec |-> s, hash |-> None]
    BY <1>2, <1>3 DEF Take
  <2> QED
    BY <1>2, <2>1 DEF Awake, Busy, Working
<1>4. CASE x # y
  <2>1. ~Busy(x) /\ ~Busy(x)'
    BY <1>1, <1>4 DEF Busy, Take
  <2>2. \A m \in Names : Told(m)
    BY <1>1 DEF Told
  <2>3. Settled(x, s) => Settled(x, s)'
    BY <1>1, <2>2, SettledKept
  <2> QED
    BY <1>1, <1>2, <1>4, <2>1, <2>3 DEF Awake
<1> QED
  BY <1>3, <1>4

\* A pass leaves the other agents as they are.
LEMMA PassKeepsAwake ==
    ASSUME TypeOK, Pass, NEW x \in Agents, seenAgents[x] # None, Awake(x), job.agent # x
    PROVE  Awake(x)'
<1>1. JobKept /\ \A m \in Names : Told(m)
  BY PassKeepsJob, PassTells
<1>2. PICK s \in AgentSpecs : s = seenAgents[x] /\ s = seenAgents'[x]
  BY <1>1 DEF TypeOK, JobKept
<1>3. applied'[x] = applied[x] /\ status'[x] = status[x] /\ queue \subseteq queue'
  BY DEF Pass, resolve, reconcileInlineConfigMap, cleanupStaleGeneratedConfigMaps,
         reconcileStatefulSet, End, TypeOK
<1>4. ~Busy(x) /\ ~Busy(x)'
  BY <1>1 DEF Busy, JobKept
<1>5. Settled(x, s) => Settled(x, s)'
  BY <1>1, <1>3, SettledKept DEF JobKept
<1> QED
  BY <1>2, <1>3, <1>4, <1>5 DEF Awake

\* A pass that wrote the ConfigMap of a file, or found it written, has it handled.
LEMMA InlineHandles ==
    ASSUME TypeOK, NEW id \in ConfigIds, reconcileInlineConfigMap(id), pc' # "idle"
    PROVE  /\ Handled(job.agent, job.spec, id)'
           /\ pc' = IF id = "config" THEN "gateway-config" ELSE "cleanup"
           /\ UNCHANGED job
<1> DEFINE n   == GeneratedName[job.agent][id]
           new == [owner |-> job.agent, entries |-> Rendered(job.spec.raw[id])]
<1>1. /\ job.agent \in Agents /\ job.spec.raw[id] \in Contents \cup {None} /\ n \in Names
      /\ UNCHANGED job /\ UNCHANGED seenObjects
  BY RoutingAssumption
  DEF TypeOK, reconcileInlineConfigMap, ConfigIds, AgentSpecs, End, caches
<1>2. CASE job.spec.raw[id] = None \/ seenObjects[n] = new
  BY <1>1, <1>2 DEF reconcileInlineConfigMap, Handled, End
<1>3. CASE job.spec.raw[id] # None /\ Put(n, new)
  <2>1. Controller(new) = {job.agent}
    BY <1>1, <1>3, RenderedTyped
  <2> HIDE DEF new
  <2>2. events[n] \in Seq(Versions) /\ events'[n] = Append(events[n], new)
    BY <1>1, <1>3 DEF TypeOK, Put
  <2>3. /\ Len(events[n]) + 1 \in 1 .. Len(events'[n])
        /\ events'[n][Len(events[n]) + 1] = new
    BY <2>2
  <2>4. \E i \in 1 .. Len(events'[n]) : job.agent \in Controller(events'[n][i])
    BY <2>1, <2>3
  <2> QED
    BY <1>1, <2>4 DEF reconcileInlineConfigMap, Handled, End
<1> QED
  BY <1>2, <1>3 DEF reconcileInlineConfigMap, End

\* The pass over an agent takes it from one stage to the next, or leaves it settled, or
\* puts it back into the queue.
LEMMA PassWorks ==
    ASSUME TypeOK, Pass, NEW x \in Agents, seenAgents[x] # None, Awake(x), job.agent = x
    PROVE  Awake(x)'
<1>1. JobKept /\ \A m \in Names : Told(m)
  BY PassKeepsJob, PassTells
<1>2. PICK s \in AgentSpecs : s = seenAgents[x] /\ s = seenAgents'[x]
  BY <1>1 DEF TypeOK, JobKept
<1>3. queue \subseteq queue' /\ Busy(x)
  BY DEF Pass, resolve, reconcileInlineConfigMap, cleanupStaleGeneratedConfigMaps,
         reconcileStatefulSet, End, Busy, ConfigIds
<1>4. CASE x \in queue
  BY <1>3, <1>4 DEF Awake
<1>5. CASE Working(x, s)
  <2>1. FromCache(s)' = FromCache(s)
    BY <1>1, SettledKept DEF JobKept
  <2>2. \A id \in ConfigIds : Handled(x, s, id) => Handled(x, s, id)'
    BY <1>1, HandledKept DEF JobKept
  <2>3. CASE resolve
    <3>1. CASE missingReferences(FromCache(s)) # {}
      <4>1. status'[x] = "MissingReferencedInput" /\ pc' = "idle"
        BY <1>5, <2>3, <3>1 DEF resolve, FromCache, Working, End, TypeOK
      <4> QED
        BY <1>2, <2>1, <3>1, <4>1 DEF Awake, Busy, Settled
    <3>2. CASE missingReferences(FromCache(s)) = {}
      <4>1. pc' = "config" /\ job' = [job EXCEPT !.hash = computeConfigHash(s, FromCache(s))]
        BY <1>5, <2>3, <3>2 DEF resolve, FromCache, Working
      <4>2. job'.agent = x /\ job'.spec = s /\ job'.hash = computeConfigHash(s, FromCache(s))
        BY <1>3, <1>5, <4>1 DEF TypeOK, Working, Busy
      <4> QED
        BY <1>2, <2>1, <3>2, <4>1, <4>2 DEF Awake, Busy, Working
    <3> QED
      BY <3>1, <3>2
  <2>4. ASSUME NEW id \in ConfigIds, reconcileInlineConfigMap(id)
        PROVE  Awake(x)'
    <3>1. pc = id
      BY <2>4 DEF reconcileInlineConfigMap
    <3>2. CASE pc' = "idle"
      BY <2>4, <3>2 DEF reconcileInlineConfigMap, End, Awake
    <3>3. CASE pc' # "idle"
      <4>1. /\ Handled(job.agent, job.spec, id)' /\ UNCHANGED job
            /\ pc' = IF id = "config" THEN "gateway-config" ELSE "cleanup"
        BY <2>4, <3>3, InlineHandles
      <4>2. Handled(x, s, id)'
        BY <1>5, <4>1 DEF Working, Handled
      <4>3. Working(x, s)'
        BY <1>5, <2>1, <2>2, <3>1, <4>1, <4>2 DEF Working, ConfigIds
      <4> QED
        BY <1>2, <3>3, <4>1, <4>3 DEF Awake, Busy
    <3> QED
      BY <3>2, <3>3
  <2>5. ASSUME NEW ready \in BOOLEAN, cleanupStaleGeneratedConfigMaps(ready)
        PROVE  Awake(x)'
    <3>1. pc = "cleanup" /\ pc' = "statefulset" /\ UNCHANGED job
      BY <2>5 DEF cleanupStaleGeneratedConfigMaps
    <3>2. Working(x, s)'
      BY <1>5, <2>1, <2>2, <3>1 DEF Working, ConfigIds
    <3> QED
      BY <1>2, <3>1, <3>2 DEF Awake, Busy
  <2>6. CASE reconcileStatefulSet
    <3>1. pc = "statefulset" /\ pc' = "idle" /\ applied'[x] = job.hash
      BY <2>6 DEF reconcileStatefulSet, End, TypeOK
    <3>2. /\ missingReferences(FromCache(s)') = {}
          /\ applied'[x] = computeConfigHash(s, FromCache(s)')
      BY <1>5, <2>1, <3>1 DEF Working
    <3>3. \A id \in ConfigIds : Handled(x, s, id)'
      BY <1>5, <2>2, <3>1 DEF Working, ConfigIds
    <3>4. Settled(x, s)'
      BY <3>2, <3>3 DEF Settled
    <3> QED
      BY <1>2, <3>1, <3>4 DEF Awake, Busy
  <2> QED
    BY <2>3, <2>4, <2>5, <2>6 DEF Pass
<1> QED
  BY <1>2, <1>3, <1>4, <1>5 DEF Awake

\* Every cached agent stays queued, worked on or settled.
LEMMA WakefulStep == TypeOK /\ Wakeful /\ [Next]_vars => Wakeful'
<1> SUFFICES ASSUME TypeOK, Wakeful, [Next]_vars,
                    NEW x \in Agents, seenAgents'[x] # None
             PROVE  Awake(x)'
  BY DEF Wakeful
<1>1. ASSUME UNCHANGED <<seenAgents, seenObjects, pc, job, applied, status>>,
             queue \subseteq queue', \A m \in Names : Told(m)
      PROVE  Awake(x)'
  BY <1>1, AwakeKept DEF Wakeful
<1>2. CASE UNCHANGED vars
  BY <1>1, <1>2 DEF vars, Told
<1>3. ASSUME NEW y \in Agents, DeliverAgent(y)
      PROVE  Awake(x)'
  <2>1. CASE x = y
    BY <1>3, <2>1 DEF DeliverAgent, Awake
  <2>2. CASE x # y
    <3>1. /\ UNCHANGED <<objects, events, seenObjects, pc, job, applied, status>>
          /\ seenAgents'[x] = seenAgents[x] /\ queue \subseteq queue'
      BY <1>3, <2>2 DEF DeliverAgent, stored, TypeOK
    <3>2. \A m \in Names : Told(m)
      BY <3>1 DEF Told
    <3> QED
      BY <3>1, <3>2, AwakeKept DEF Wakeful
  <2> QED
    BY <2>1, <2>2
<1>4. ASSUME NEW y \in Agents, Take(y)
      PROVE  Awake(x)'
  BY <1>4, TakeWakes DEF Wakeful, Take, caches
<1>5. ASSUME NEW n \in Names, DeliverObject(n)
      PROVE  Awake(x)'
  BY <1>5, DeliverWakes DEF Wakeful, DeliverObject
<1>6. CASE Pass
  <2>1. seenAgents[x] # None
    BY <1>6, PassKeepsJob DEF JobKept
  <2> QED
    BY <1>6, <2>1, PassWorks, PassKeepsAwake DEF Wakeful
<1>7. ASSUME NEW y \in Agents, NEW edit \in AgentEdits, EditAgent(y, edit[2])
      PROVE  Awake(x)'
  BY <1>1, <1>7 DEF EditAgent, stored, caches, Told
<1>8. ASSUME NEW n \in Names,
             CollectGarbage(n) \/ \E edit \in ObjectEdits[n] : EditObject(n, edit[2])
      PROVE  Awake(x)'
  <2>1. UNCHANGED <<seenAgents, seenObjects, pc, job, applied, status, queue>>
    BY <1>8 DEF CollectGarbage, EditObject, caches
  <2> QED
    BY <1>1, <1>8, <2>1, OthersTell
<1> QED
  BY <1>2, <1>3, <1>4, <1>5, <1>6, <1>7, <1>8 DEF Next

\* With nothing under way, what the caches show is what the API server has.
LEMMA WakefulSuffices == TypeOK /\ Delivered /\ Wakeful => NoLostWakeup
<1> SUFFICES ASSUME TypeOK, Delivered, Wakeful, Quiet, NEW x \in Live
             PROVE  IF Resolves(x) THEN UpToDate(x) ELSE status[x] = "MissingReferencedInput"
  BY DEF NoLostWakeup
<1>1. x \in Agents /\ agents[x] # None /\ seenAgents = agents
  BY DEF Live, Quiet
<1>2. \A n \in Names : seenObjects[n] = objects[n] /\ 1 .. Len(events[n]) = {}
  BY DEF Delivered, Quiet
<1>3. Settled(x, agents[x])
  BY <1>1 DEF Wakeful, Awake, Busy, Quiet
<1>4. FromCache(agents[x]) = CurrentRefs(x)
  <2>1. seenObjects = objects
    BY <1>2 DEF TypeOK
  <2> QED
    BY <2>1 DEF FromCache, CurrentRefs
<1>5. ASSUME Resolves(x), NEW id \in Inline(x)
      PROVE  objects[GeneratedName[x][id]] =
                 [owner |-> x, entries |-> Rendered(agents[x].raw[id])]
  <2>1. GeneratedName[x][id] \in Names /\ id \in ConfigIds /\ agents[x].raw[id] # None
    BY <1>1, <1>5, RoutingAssumption DEF Inline
  <2>2. Handled(x, agents[x], id)
    BY <1>3, <1>4, <1>5, <2>1 DEF Settled, Resolves
  <2> QED
    BY <1>2, <2>1, <2>2 DEF Handled
<1> QED
  BY <1>3, <1>4, <1>5 DEF Settled, Resolves, UpToDate

\* For every namespace, any number of agents and any edits: when the operator has nothing
\* left to do, no agent is behind on what it refers to or generates, so no event between
\* two passes, or under one, is lost (findReferencingAgents, Owns, the work queue).
THEOREM NothingLost == Spec => []NoLostWakeup
<1>1. Init => Wakeful
  BY DEF Init, Wakeful
<1>2. Ordered => TypeOK /\ Delivered
  BY DEF Ordered
<1> QED
  BY <1>1, <1>2, OrderedInitial, OrderedStep, WakefulStep, WakefulSuffices, PTL DEF Spec
=============================================================================
