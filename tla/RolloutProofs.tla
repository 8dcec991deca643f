---------------------------- MODULE RolloutProofs ----------------------------
(***************************************************************************)
(* What the operator makes of an agent's inputs, for every set of specs,   *)
(* objects, keys and contents: the hash on the pod template tells apart    *)
(* what a pod would see, and while the operator sleeps the references it   *)
(* reports missing and the port it opens are the ones a pod started now    *)
(* would need.                                                             *)
(*                                                                         *)
(* The lemmas on snapshots compare, key by key, what the controller keeps  *)
(* of an object with what the kubelet takes from it.  The invariant Abreast *)
(* says that an agent outside the queue has its status and its policy, or  *)
(* the job of its running pass, from the objects as they are.              *)
(***************************************************************************)
EXTENDS Rollout, TLAPS

-----------------------------------------------------------------------------
(* Snapshots.                                                              *)

Stored(n) == ObjectsOf(n) \cup {None}

\* What there is to know about a stored object.
LEMMA ObjectTyped ==
    ASSUME NEW n \in Names, NEW o \in ObjectsOf(n), NEW k \in Keys
    PROVE  /\ o # None
           /\ o.data[k] \in Contents \cup {None} /\ o.binaryData[k] \in Contents \cup {None}
           /\ o.binaryData[k] # None => KindOf[n] = "ConfigMap" /\ o.data[k] = None
           /\ KindOf[n] \in {"ConfigMap", "Secret"}
  BY RolloutAssumption, InputsAssumption DEF ObjectsOf, Entries

\* The value a snapshot has of a key, by what the object holds under it.
LEMMA ValueOf ==
    ASSUME NEW n \in Names, NEW o \in ObjectsOf(n), NEW k \in Keys
    PROVE  /\ allValues(n, o)[k] = fileValue(n, o, k)
           /\ fileValue(n, o, k) =
                 IF o.data[k] # None
                 THEN IF KindOf[n] = "ConfigMap" THEN o.data[k] ELSE Base64[o.data[k]]
                 ELSE IF o.binaryData[k] # None THEN Base64[o.binaryData[k]] ELSE None
  BY ObjectTyped
  DEF allValues, fileValue, copyConfigMapData, encodeSecretData, configMapFileValue

\* Different content under a key gives different values; no value means no content.
LEMMA ValuesTell ==
    ASSUME NEW n \in Names, NEW o \in ObjectsOf(n), NEW p \in ObjectsOf(n), NEW k \in Keys
    PROVE  /\ fileValue(n, o, k) = None <=> o.data[k] = None /\ o.binaryData[k] = None
           /\ fileValue(n, o, k) = fileValue(n, p, k) =>
                  o.data[k] = p.data[k] /\ o.binaryData[k] = p.binaryData[k]
<1>1. /\ o.data[k] \in Contents \cup {None} /\ o.binaryData[k] \in Contents \cup {None}
      /\ o.binaryData[k] # None => KindOf[n] = "ConfigMap" /\ o.data[k] = None
  BY ObjectTyped
<1>2. /\ p.data[k] \in Contents \cup {None} /\ p.binaryData[k] \in Contents \cup {None}
      /\ p.binaryData[k] # None => KindOf[n] = "ConfigMap" /\ p.data[k] = None
  BY ObjectTyped
<1>3. /\ \A c, d \in Contents : Base64[c] = Base64[d] => c = d
      /\ \A c \in Contents : Base64[c] \notin Contents \cup {None}
      /\ None \notin Contents
  BY InputsAssumption
<1>4. fileValue(n, o, k) =
          IF o.data[k] # None
          THEN IF KindOf[n] = "ConfigMap" THEN o.data[k] ELSE Base64[o.data[k]]
          ELSE IF o.binaryData[k] # None THEN Base64[o.binaryData[k]] ELSE None
  BY ValueOf
<1>5. fileValue(n, p, k) =
          IF p.data[k] # None
          THEN IF KindOf[n] = "ConfigMap" THEN p.data[k] ELSE Base64[p.data[k]]
          ELSE IF p.binaryData[k] # None THEN Base64[p.binaryData[k]] ELSE None
  BY ValueOf
<1> QED
  BY <1>1, <1>2, <1>3, <1>4, <1>5

\* What a use selects.
LEMMA UseTyped ==
    ASSUME NEW u \in Use
    PROVE  /\ u.name \in Names /\ Selected(u) \subseteq Keys /\ Selected(u) \in SUBSET Keys
           /\ u.key # None => u.key \in Keys /\ Selected(u) = {u.key}
           /\ (u.key = None /\ u.items # {}) => Selected(u) = u.items
           /\ (u.key = None /\ u.items = {}) => Selected(u) = Keys
           /\ u.items # {} => u.key = None /\ ~u.optional /\ u.role = "fileMount"
           /\ u.optional \in BOOLEAN
  BY InputsAssumption DEF Use, Selected, ConfigIds

\* The fields of a snapshot that is present.
LEMMA SnapshotOf ==
    ASSUME NEW u \in Use, NEW o \in ObjectsOf(u.name)
    PROVE  LET s == newSnapshot(u, o)
           IN  /\ s.present /\ s.key = u.key /\ s.optional = u.optional
               /\ s.kind = KindOf[u.name]
               /\ s.data = [k \in Keys |-> IF k \in Selected(u)
                                           THEN fileValue(u.name, o, k) ELSE None]
               /\ s.missingKeys = {k \in u.items : fileValue(u.name, o, k) = None}
               /\ s.keyFound = IF u.key # None THEN fileValue(u.name, o, u.key) # None
                               ELSE u.items # {} /\ s.missingKeys = {}
<1>1. o # None
  BY UseTyped, RolloutAssumption
<1>2. CASE u.key # None
  <2>1. newSnapshot(u, o) = newKeySnapshot(u, o)
    BY <1>1, <1>2 DEF newSnapshot
  <2>2. u.items = {} /\ Selected(u) = {u.key} /\ u.key \in Keys
    BY <1>2, UseTyped
  <2> QED
    BY <1>2, <2>1, <2>2 DEF newKeySnapshot, EmptySnapshot, NoData
<1>3. CASE u.key = None /\ u.items # {}
  <2>1. newSnapshot(u, o) = newProjectionSnapshot(u, o)
    BY <1>1, <1>3 DEF newSnapshot
  <2>2. Selected(u) = u.items
    BY <1>3, UseTyped
  <2> QED
    BY <1>3, <2>1, <2>2 DEF newProjectionSnapshot, EmptySnapshot
<1>4. CASE u.key = None /\ u.items = {}
  <2>1. newSnapshot(u, o) = newWholeSnapshot(u, o)
    BY <1>1, <1>4 DEF newSnapshot
  <2>2. Selected(u) = Keys
    BY <1>4, UseTyped
  <2>3. allValues(u.name, o) = [k \in Keys |-> fileValue(u.name, o, k)]
    <3>1. \A k \in Keys : allValues(u.name, o)[k] = fileValue(u.name, o, k)
      BY ValueOf, UseTyped
    <3>2. allValues(u.name, o) = [k \in Keys |-> allValues(u.name, o)[k]]
      BY DEF allValues, copyConfigMapData, encodeSecretData
    <3> QED
      BY <3>1, <3>2
  <2> QED
    BY <1>4, <2>1, <2>2, <2>3 DEF newWholeSnapshot, EmptySnapshot
<1> QED
  BY <1>2, <1>3, <1>4

\* The snapshot of a missing object.
LEMMA SnapshotOfNone ==
    ASSUME NEW u \in Use
    PROVE  LET s == newSnapshot(u, None)
           IN  /\ s = EmptySnapshot(u) /\ ~s.present /\ s.optional = u.optional
               /\ s.kind = KindOf[u.name] /\ s.data = NoData
  BY DEF newSnapshot, EmptySnapshot

\* Snapshots that are equal show a pod the same content.
LEMMA SnapshotsTell ==
    ASSUME NEW u \in Use, NEW o \in Stored(u.name), NEW p \in Stored(u.name),
           newSnapshot(u, o) = newSnapshot(u, p)
    PROVE  Seen(u, o) = Seen(u, p)
<1>1. CASE o = None /\ p = None
  BY <1>1
<1>2. CASE o # None /\ p # None
  <2>1. u.name \in Names /\ o \in ObjectsOf(u.name) /\ p \in ObjectsOf(u.name)
    BY <1>2, UseTyped DEF Stored
  <2>2. [k \in Keys |-> IF k \in Selected(u) THEN fileValue(u.name, o, k) ELSE None] =
        [k \in Keys |-> IF k \in Selected(u) THEN fileValue(u.name, p, k) ELSE None]
    <3>1. newSnapshot(u, o).data =
              [k \in Keys |-> IF k \in Selected(u) THEN fileValue(u.name, o, k) ELSE None]
      BY <2>1, SnapshotOf
    <3>2. newSnapshot(u, p).data =
              [k \in Keys |-> IF k \in Selected(u) THEN fileValue(u.name, p, k) ELSE None]
      BY <2>1, SnapshotOf
    <3> QED
      BY <3>1, <3>2
  <2>3. \A k \in Keys : k \in Selected(u) => fileValue(u.name, o, k) = fileValue(u.name, p, k)
    BY <2>2
  <2>4. \A k \in Keys : k \in Selected(u) =>
            o.data[k] = p.data[k] /\ o.binaryData[k] = p.binaryData[k]
    BY <2>1, <2>3, ValuesTell
  <2>5. \A k \in Keys : k \in Selected(u) => Content(u, o, k) = Content(u, p, k)
    BY <2>4 DEF Content
  <2> QED
    BY <1>2, <2>5 DEF Seen
<1>3. CASE o = None /\ p # None
  BY <1>3, SnapshotOf, SnapshotOfNone DEF Stored
<1>4. CASE o # None /\ p = None
  BY <1>4, SnapshotOf, SnapshotOfNone DEF Stored
<1> QED
  BY <1>1, <1>2, <1>3, <1>4

\* What a use selects of an object.
Part(u, o) ==
    IF o = None THEN None
    ELSE [k \in Selected(u) |-> <<o.data[k], o.binaryData[k]>>]

\* A snapshot depends on nothing but the selected keys.
LEMMA SnapshotsSelect ==
    ASSUME NEW u \in Use, NEW o \in Stored(u.name), NEW p \in Stored(u.name),
           Part(u, o) = Part(u, p)
    PROVE  newSnapshot(u, o) = newSnapshot(u, p)
<1>1. ASSUME NEW q \in ObjectsOf(u.name)
      PROVE  [k \in Selected(u) |-> <<q.data[k], q.binaryData[k]>>] # None
  <2>1. \A k \in Selected(u) :
            <<q.data[k], q.binaryData[k]>> \in (Contents \cup {None}) \X (Contents \cup {None})
    BY <1>1, ObjectTyped, UseTyped
  <2>2. Selected(u) \in SUBSET Keys
    BY UseTyped
  <2> QED
    BY <2>1, <2>2, RolloutAssumption
<1>2. CASE o = None \/ p = None
  BY <1>1, <1>2 DEF Part, Stored
<1>3. CASE o # None /\ p # None
  <2>1. u.name \in Names /\ o \in ObjectsOf(u.name) /\ p \in ObjectsOf(u.name)
    BY <1>3, UseTyped DEF Stored
  <2>2. \A k \in Selected(u) : o.data[k] = p.data[k] /\ o.binaryData[k] = p.binaryData[k]
    BY <1>3 DEF Part
  <2>3. \A k \in Selected(u) : fileValue(u.name, o, k) = fileValue(u.name, p, k)
    BY <2>1, <2>2, ValueOf, UseTyped
  <2>4. CASE u.key # None
    <3>1. newSnapshot(u, o) = newKeySnapshot(u, o) /\ newSnapshot(u, p) = newKeySnapshot(u, p)
      BY <1>3, <2>4 DEF newSnapshot
    <3>2. fileValue(u.name, o, u.key) = fileValue(u.name, p, u.key)
      BY <2>3, <2>4, UseTyped
    <3> QED
      BY <3>1, <3>2 DEF newKeySnapshot
  <2>5. CASE u.key = None /\ u.items # {}
    <3>1. /\ newSnapshot(u, o) = newProjectionSnapshot(u, o)
          /\ newSnapshot(u, p) = newProjectionSnapshot(u, p)
      BY <1>3, <2>5 DEF newSnapshot
    <3>2. \A k \in u.items : fileValue(u.name, o, k) = fileValue(u.name, p, k)
      BY <2>3, <2>5, UseTyped
    <3> DEFINE first(k)  == IF k \in u.items THEN fileValue(u.name, o, k) ELSE None
               second(k) == IF k \in u.items THEN fileValue(u.name, p, k) ELSE None
    <3>3. /\ [k \in Keys |-> first(k)] = [k \in Keys |-> second(k)]
          /\ {k \in u.items : first(k) = None} = {k \in u.items : second(k) = None}
      BY <3>2
    <3> QED
      BY <3>1, <3>3 DEF newProjectionSnapshot
  <2>6. CASE u.key = None /\ u.items = {}
    <3>1. /\ newSnapshot(u, o) = newWholeSnapshot(u, o)
          /\ newSnapshot(u, p) = newWholeSnapshot(u, p)
      BY <1>3, <2>6 DEF newSnapshot
    <3>2. \A k \in Keys : allValues(u.name, o)[k] = allValues(u.name, p)[k]
      BY <2>1, <2>3, <2>6, ValueOf, UseTyped
    <3>3. allValues(u.name, o) = allValues(u.name, p)
      BY <3>2 DEF allValues, copyConfigMapData, encodeSecretData
    <3> QED
      BY <3>1, <3>3 DEF newWholeSnapshot
  <2> QED
    BY <2>4, <2>5, <2>6
<1> QED
  BY <1>2, <1>3

\* A reference is reported missing exactly when it keeps a container from starting; a
\* variable whose value is kept as bytes is the exception.
LEMMA MissingStops ==
    ASSUME NEW u \in Use, NEW o \in Stored(u.name),
           ~(u.role = "env" /\ o # None /\ o.binaryData[u.key] # None)
    PROVE  missingReference(newSnapshot(u, o)) <=> ~Startable(u, o)
<1>1. CASE o = None
  BY <1>1, SnapshotOfNone DEF missingReference, Startable
<1>2. CASE o # None
  <2>1. u.name \in Names /\ o \in ObjectsOf(u.name)
    BY <1>2, UseTyped DEF Stored
  <2> DEFINE s == newSnapshot(u, o)
             value(k) == fileValue(u.name, o, k)
  <2>2. /\ s.present = TRUE /\ s.key = u.key /\ s.optional = u.optional
        /\ s.missingKeys = {k \in u.items : value(k) = None}
        /\ s.keyFound = IF u.key # None THEN value(u.key) # None
                        ELSE u.items # {} /\ s.missingKeys = {}
    BY <2>1, SnapshotOf
  <2>3. ASSUME NEW k \in Keys, u.role = "env" => o.binaryData[k] = None, u.role # "envFrom"
        PROVE  value(k) = None <=> Content(u, o, k) = None
    BY <2>1, <2>3, ValuesTell DEF Content
  <2> HIDE DEF s, value
  <2>4. CASE u.key # None
    <3>1. u.key \in Keys /\ Selected(u) = {u.key} /\ u.items = {} /\ u.role # "envFrom"
      BY <2>4, UseTyped DEF Use, ConfigIds
    <3>2. value(u.key) = None <=> Content(u, o, u.key) = None
      BY <1>2, <2>3, <3>1
    <3>3. missingReference(s) <=> value(u.key) = None /\ ~u.optional
      BY <2>2, <2>4, <3>1 DEF missingReference
    <3> QED
      BY <1>2, <2>4, <3>1, <3>2, <3>3 DEF Startable, s
  <2>5. CASE u.key = None /\ u.items # {}
    <3>1. /\ Selected(u) = u.items /\ u.items \subseteq Keys /\ ~u.optional
          /\ u.role = "fileMount"
      BY <2>5, UseTyped
    <3>2. \A k \in u.items : value(k) = None <=> Content(u, o, k) = None
      BY <2>3, <3>1
    <3>3. missingReference(s) <=> \E k \in u.items : value(k) = None
      BY <2>2, <2>5 DEF missingReference
    <3> QED
      BY <1>2, <2>5, <3>1, <3>2, <3>3 DEF Startable, s
  <2>6. CASE u.key = None /\ u.items = {}
    <3>1. ~missingReference(s)
      BY <2>2, <2>6 DEF missingReference
    <3> QED
      BY <1>2, <2>6, <3>1 DEF Startable, s
  <2> QED
    BY <2>4, <2>5, <2>6
<1> QED
  BY <1>1, <1>2

-----------------------------------------------------------------------------
(* The hash.                                                               *)

TypeOK ==
    /\ DOMAIN inputs = Names /\ \A n \in Names : inputs[n] \in Stored(n)
    /\ HasPlan(agent)

\* Users store what the API server takes.
LEMMA Typed == /\ Init => TypeOK
               /\ TypeOK /\ [Next]_vars => TypeOK'
<1>1. Init => TypeOK
  BY RolloutAssumption DEF Init, TypeOK, Stored
<1>2. TypeOK /\ UNCHANGED <<inputs, agent>> => TypeOK'
  BY DEF TypeOK, HasPlan
<1>3. ASSUME TypeOK, NEW edit \in SpecEdits, UpdateAgent(edit[2])
      PROVE  TypeOK'
  <2>1. HasPlan(edit[2]) /\ agent' = edit[2] /\ UNCHANGED inputs
    BY <1>3, RolloutAssumption DEF UpdateAgent
  <2> QED
    BY <1>3, <2>1 DEF TypeOK
<1>4. ASSUME TypeOK, NEW n \in Names, NEW edit \in InputEdits[n], ChangeInput(n, edit[2])
      PROVE  TypeOK'
  <2>1. /\ edit[2] \in Stored(n) /\ UNCHANGED agent
        /\ inputs' = [inputs EXCEPT ![n] = edit[2]]
    BY <1>4, RolloutAssumption DEF ChangeInput, Stored
  <2>2. HasPlan(agent)'
    BY <1>4, <2>1 DEF TypeOK
  <2> QED
    BY <1>4, <2>1, <2>2 DEF TypeOK
<1>5. [Next]_vars => \/ UNCHANGED <<inputs, agent>>
                     \/ \E edit \in SpecEdits : UpdateAgent(edit[2])
                     \/ \E n \in Names : \E edit \in InputEdits[n] : ChangeInput(n, edit[2])
  <2>1. Worker => UNCHANGED <<inputs, agent>>
    BY DEF Worker, Resolve, returnStatusFailure, reconcileInlineConfigMap,
           cleanupStaleGeneratedConfigMaps, reconcileStatefulSet, reconcileNetworkPolicy, reconcileStatus
  <2>2. Interrupt => UNCHANGED <<inputs, agent>>
    BY DEF Interrupt
  <2>3. StatefulSetController => UNCHANGED <<inputs, agent>>
    BY DEF StatefulSetController, SyncStatefulSet, CreatePod, RollPod, external
  <2>4. \A i \in Ordinals : StartPod(i) \/ EvictPod(i) => UNCHANGED <<inputs, agent>>
    BY DEF StartPod, EvictPod, external
  <2> QED
    BY <2>1, <2>2, <2>3, <2>4 DEF Next, vars
<1> QED
  BY <1>1, <1>2, <1>3, <1>4, <1>5

\* The hash after any object is put in the place of one input.
LEMMA HashTells ==
    ASSUME TypeOK, NEW n \in Names, NEW o \in ObjectsOf(n) \cup {None}
    PROVE  LET new == [inputs EXCEPT ![n] = o]
           IN  /\ Visible(new) # Visible(inputs) => Hash(new) # Hash(inputs)
               /\ Referred(new) = Referred(inputs) => Hash(new) = Hash(inputs)
<1> DEFINE new == [inputs EXCEPT ![n] = o]
<1>1. \A u \in agent.uses : /\ u \in Use /\ u.name \in Names
                            /\ inputs[u.name] \in Stored(u.name)
                            /\ new[u.name] \in Stored(u.name)
  BY UseTyped DEF TypeOK, HasPlan, Stored
<1> HIDE DEF new
<1>2. ASSUME Hash(new) = Hash(inputs)
      PROVE  Visible(new) = Visible(inputs)
  <2>1. resolveReferencedInputs(agent.uses, new) = resolveReferencedInputs(agent.uses, inputs)
    BY <1>2 DEF Hash, computeConfigHash
  <2>2. \A u \in agent.uses : newSnapshot(u, new[u.name]) = newSnapshot(u, inputs[u.name])
    BY <2>1 DEF resolveReferencedInputs
  <2>3. \A u \in agent.uses : Seen(u, new[u.name]) = Seen(u, inputs[u.name])
    BY <1>1, <2>2, SnapshotsTell
  <2> QED
    BY <2>3 DEF Visible
<1>3. ASSUME Referred(new) = Referred(inputs)
      PROVE  Hash(new) = Hash(inputs)
  <2>1. /\ Referred(new) = [u \in agent.uses |-> Part(u, new[u.name])]
        /\ Referred(inputs) = [u \in agent.uses |-> Part(u, inputs[u.name])]
    BY DEF Referred, Part
  <2>2. \A u \in agent.uses : Part(u, new[u.name]) = Part(u, inputs[u.name])
    BY <1>3, <2>1
  <2>3. \A u \in agent.uses : newSnapshot(u, new[u.name]) = newSnapshot(u, inputs[u.name])
    BY <1>1, <2>2, SnapshotsSelect
  <2>4. resolveReferencedInputs(agent.uses, new) = resolveReferencedInputs(agent.uses, inputs)
    BY <2>3 DEF resolveReferencedInputs
  <2> QED
    BY <2>4 DEF Hash
<1> QED
  BY <1>2, <1>3 DEF new

\* For every namespace and every object a user may put in place of an input: the hash of
\* the pod template changes with all that a pod of the agent would see of it, and with
\* nothing outside the keys the spec selects (computeConfigHash, new*Snapshot).
THEOREM HashExact == Spec => HashTracksContent
<1> DEFINE Exact ==
      Resolve =>
        \A n \in Names : \A o \in ObjectsOf(n) \cup {None} :
            LET new == [inputs EXCEPT ![n] = o]
            IN  /\ Visible(new) # Visible(inputs) => Hash(new) # Hash(inputs)
                /\ Referred(new) = Referred(inputs) => Hash(new) = Hash(inputs)
<1>1. TypeOK => [Exact]_vars
  BY HashTells
<1> QED
  BY <1>1, Typed, PTL DEF Spec, HashTracksContent

-----------------------------------------------------------------------------
(* The status and the policy.                                              *)

RefsNow == resolveReferencedInputs(agent.uses, inputs)
SshNow  == effectiveTerminalBackend(agent, RefsNow) = "ssh"

\* Outside the queue an agent has been, or is being, reconciled as things are now.
Abreast ==
    \/ queued
    \/ /\ pc = "idle" /\ missing = missingReferences(RefsNow)
       /\ missing = {} => ssh = SshNow
    \/ /\ pc # "idle" /\ job = [spec |-> agent, refs |-> RefsNow]
       /\ pc = "missing" <=> missingReferences(RefsNow) # {}
       /\ pc = "status" => ssh = SshNow

\* A change of an object the agent does not refer to changes nothing for it.
LEMMA OthersInputs ==
    ASSUME TypeOK, NEW n \in Names, NEW o, ~references(agent, n),
           inputs' = [inputs EXCEPT ![n] = o], UNCHANGED agent
    PROVE  UNCHANGED <<RefsNow, SshNow>>
<1>1. \A u \in agent.uses : inputs'[u.name] = inputs[u.name]
  BY UseTyped DEF references, TypeOK, HasPlan
<1>2. RefsNow' = RefsNow
  BY <1>1 DEF RefsNow, resolveReferencedInputs
<1> QED
  BY <1>2 DEF SshNow

\* The worker and everyone else keep the agent abreast.
LEMMA AbreastStep == TypeOK /\ Abreast /\ [Next]_vars => Abreast'
<1> SUFFICES ASSUME TypeOK, Abreast, [Next]_vars PROVE Abreast'
  OBVIOUS
<1>1. UNCHANGED <<agent, inputs>> => UNCHANGED <<RefsNow, SshNow>>
  BY DEF RefsNow, SshNow
<1>2. CASE /\ UNCHANGED <<agent, inputs, worker>>
           /\ queued' \in {queued, TRUE}
  BY <1>1, <1>2 DEF Abreast, worker
<1>3. CASE Resolve
  BY <1>1, <1>3 DEF Resolve, Abreast, RefsNow
<1>4. ASSUME NEW id \in ConfigIds, reconcileInlineConfigMap(id)
      PROVE  Abreast'
  BY <1>1, <1>4 DEF reconcileInlineConfigMap, Abreast, ConfigIds
<1>5. CASE cleanupStaleGeneratedConfigMaps
  BY <1>1, <1>5 DEF cleanupStaleGeneratedConfigMaps, Abreast
<1>6. CASE reconcileStatefulSet
  <2>1. /\ UNCHANGED <<agent, inputs, ssh, missing, job>>
        /\ pc = "statefulset" /\ pc' = "networkpolicy"
    BY <1>6 DEF reconcileStatefulSet
  <2>2. queued => queued'
    BY <1>6 DEF reconcileStatefulSet
  <2> QED
    BY <1>1, <2>1, <2>2 DEF Abreast
<1>7. CASE reconcileNetworkPolicy
  <2>1. CASE queued
    BY <1>7, <2>1 DEF reconcileNetworkPolicy, Abreast
  <2>2. CASE ~queued
    <3>1. job.spec = agent /\ job.refs = RefsNow /\ missingReferences(RefsNow) = {}
      BY <1>7, <2>2 DEF Abreast, reconcileNetworkPolicy
    <3> QED
      BY <1>1, <1>7, <2>2, <3>1 DEF reconcileNetworkPolicy, Abreast, SshNow
  <2> QED
    BY <2>1, <2>2
<1>8. CASE reconcileStatus
  BY <1>1, <1>8 DEF reconcileStatus, Abreast
<1>9. CASE Interrupt \/ \E edit \in SpecEdits : UpdateAgent(edit[2])
  BY <1>9 DEF Interrupt, UpdateAgent, Abreast
<1>10. ASSUME NEW n \in Names, NEW edit \in InputEdits[n], ChangeInput(n, edit[2])
       PROVE  Abreast'
  <2>1. CASE queued'
    BY <2>1 DEF Abreast
  <2>2. CASE ~queued'
    <3>1. UNCHANGED <<RefsNow, SshNow>>
      BY <1>10, <2>2, OthersInputs DEF ChangeInput
    <3> QED
      BY <1>10, <2>2, <3>1 DEF ChangeInput, Abreast, worker
  <2> QED
    BY <2>1, <2>2
<1>11. CASE StatefulSetController \/ \E i \in Ordinals : StartPod(i) \/ EvictPod(i)
  <2>1. UNCHANGED <<agent, inputs, worker>> /\ queued' \in {queued, TRUE}
    BY <1>11 DEF StatefulSetController, SyncStatefulSet, CreatePod, RollPod, StartPod,
                 EvictPod, external
  <2> QED
    BY <1>2, <2>1
<1>12. CASE returnStatusFailure
  BY <1>1, <1>12 DEF returnStatusFailure, Abreast
<1>13. CASE UNCHANGED vars
  BY <1>2, <1>13 DEF vars
<1> QED
  BY <1>3, <1>4, <1>5, <1>6, <1>7, <1>8, <1>9, <1>10, <1>11, <1>12, <1>13 DEF Next, Worker

\* At first the agent is queued.
LEMMA AbreastInitial == Init => Abreast
  BY DEF Init, Abreast

\* For every agent and every content: while the operator sleeps it reports exactly the
\* references that would keep a new pod from starting, save for an env value kept as
\* bytes (missingReferenceMessages, new*Snapshot, the watches that queue the agent).
THEOREM MissingExact == Spec => []MissingIsStuck
<1>1. TypeOK /\ Abreast => MissingIsStuck
  <2> SUFFICES ASSUME TypeOK, Abreast, Idle, NEW u \in agent.uses, ~OnlyBytes(u)
               PROVE  u \in missing <=> ~Startable(u, inputs[u.name])
    BY DEF MissingIsStuck
  <2>1. u \in Use /\ inputs[u.name] \in Stored(u.name)
    BY UseTyped DEF TypeOK, HasPlan
  <2>2. u \in missing <=> missingReference(newSnapshot(u, inputs[u.name]))
    BY DEF Abreast, Idle, RefsNow, missingReferences, resolveReferencedInputs
  <2> QED
    BY <2>1, <2>2, MissingStops DEF OnlyBytes
<1> QED
  BY <1>1, Typed, AbreastInitial, AbreastStep, PTL DEF Spec

\* The text the controller takes for config.yaml out of an object is the one a pod sees.
LEMMA HeldText ==
    ASSUME TypeOK, ~ConfigIsBytes, NEW u \in agent.uses, u.role = "config"
    PROVE  (LET v == RefsNow[u].data[u.key]
            IN  IF RefsNow[u].kind = "Secret" THEN {c \in Contents : Base64[c] = v}
                ELSE Contents \cap {v}) = {Seen(u, inputs[u.name])[u.key]} \ {None}
<1> DEFINE o == inputs[u.name]
           s == newSnapshot(u, o)
<1>1. /\ u \in Use /\ u.name \in Names /\ u.key \in Keys /\ u.key # None
      /\ Selected(u) = {u.key} /\ o \in Stored(u.name) /\ RefsNow[u] = s
  <2>1. u \in Use /\ u.key # None
    BY DEF TypeOK, HasPlan, Use, ConfigIds
  <2> QED
    BY <2>1, UseTyped DEF TypeOK, RefsNow, resolveReferencedInputs
<1>2. /\ \A c, d \in Contents : Base64[c] = Base64[d] => c = d
      /\ \A c \in Contents : Base64[c] \notin Contents \cup {None}
      /\ None \notin Contents
  BY InputsAssumption
<1>3. CASE o = None
  <2>1. s.data[u.key] = None
    BY <1>1, <1>3, SnapshotOfNone DEF NoData
  <2>2. Seen(u, o)[u.key] = None
    BY <1>1, <1>3 DEF Seen
  <2> HIDE DEF s, o
  <2> QED
    BY <1>1, <1>2, <2>1, <2>2 DEF o
<1>4. CASE o # None
  <2>1. /\ o \in ObjectsOf(u.name) /\ o.binaryData[u.key] = None
        /\ o.data[u.key] \in Contents \cup {None}
        /\ KindOf[u.name] \in {"ConfigMap", "Secret"}
    BY <1>1, <1>4, ObjectTyped DEF Stored, ConfigIsBytes
  <2>2. Seen(u, o)[u.key] = o.data[u.key]
    BY <1>1, <1>4, <2>1 DEF Seen, Content
  <2>3. s.kind = KindOf[u.name] /\ s.data[u.key] = fileValue(u.name, o, u.key)
    <3>1. /\ s.kind = KindOf[u.name]
          /\ s.data = [k \in Keys |-> IF k \in Selected(u)
                                      THEN fileValue(u.name, o, k) ELSE None]
      BY <1>1, <2>1, SnapshotOf
    <3> QED
      BY <1>1, <3>1
  <2>4. fileValue(u.name, o, u.key) =
            IF o.data[u.key] = None THEN None
            ELSE IF KindOf[u.name] = "ConfigMap" THEN o.data[u.key] ELSE Base64[o.data[u.key]]
    BY <1>1, <2>1, ValueOf
  <2> DEFINE d == o.data[u.key]
  <2>5. CASE KindOf[u.name] = "ConfigMap"
    <3>1. s.data[u.key] = d /\ s.kind # "Secret"
      BY <2>3, <2>4, <2>5
    <3>2. Contents \cap {d} = {d} \ {None}
      BY <1>2, <2>1
    <3> HIDE DEF s, o, d
    <3> QED
      BY <1>1, <2>2, <3>1, <3>2 DEF o, d
  <2>6. CASE KindOf[u.name] = "Secret"
    <3>1. s.data[u.key] = (IF d = None THEN None ELSE Base64[d]) /\ s.kind = "Secret"
      BY <2>3, <2>4, <2>6
    <3>2. {c \in Contents : Base64[c] = IF d = None THEN None ELSE Base64[d]} = {d} \ {None}
      BY <1>2, <2>1
    <3> HIDE DEF s, o, d
    <3> QED
      BY <1>1, <2>2, <3>1, <3>2 DEF o, d
  <2> QED
    BY <2>1, <2>5, <2>6
<1> QED
  BY <1>3, <1>4

\* The backend the controller finds is named by the one config.yaml there is.
LEMMA NamedBackend ==
    ASSUME TypeOK, ~ConfigIsBytes
    PROVE  LET content == ConfigContent \ {None}
           IN  /\ \A c, d \in content : c = d
               /\ configSourceTerminalBackend(agent, RefsNow) =
                     IF content = {} THEN None ELSE Backend[CHOOSE c \in content : TRUE]
<1> DEFINE files   == {v \in agent.uses : v.role = "config"}
           text(u) == Seen(u, inputs[u.name])[u.key]
           content == ConfigContent \ {None}
           held(u) == LET v == RefsNow[u].data[u.key]
                      IN  IF RefsNow[u].kind = "Secret" THEN {c \in Contents : Base64[c] = v}
                          ELSE Contents \cap {v}
<1>1. DOMAIN RefsNow = agent.uses
  BY DEF RefsNow, resolveReferencedInputs
<1>2. \A u \in files : held(u) = {text(u)} \ {None}
  BY HeldText
<1>3. Contents \cap {agent.raw["config"]} = {agent.raw["config"]} \ {None}
  BY InputsAssumption DEF TypeOK, HasPlan, ConfigIds
<1>4. ConfigContent = {agent.raw["config"]} \cup {text(u) : u \in files}
  BY DEF ConfigContent
<1> HIDE DEF held, text
<1>5. content = (Contents \cap {agent.raw["config"]}) \cup UNION {held(u) : u \in files}
  BY <1>2, <1>3, <1>4
<1>6. \A c, d \in content : c = d
  <2>1. \A u, v \in files : u = v /\ agent.raw["config"] = None
    BY DEF TypeOK, HasPlan, ConfigIds
  <2> QED
    BY <1>4, <2>1
<1>7. configSourceTerminalBackend(agent, RefsNow) =
          LET c == (Contents \cap {agent.raw["config"]}) \cup UNION {held(u) : u \in files}
          IN  IF c = {} THEN None ELSE Backend[CHOOSE x \in c : TRUE]
  BY <1>1 DEF configSourceTerminalBackend, held
<1> QED
  BY <1>5, <1>6, <1>7

\* For every agent and every content: while the operator sleeps and nothing is missing,
\* port 22 is open exactly when a pod started now would use the ssh backend, save for a
\* config.yaml kept as bytes (effectiveTerminalBackend, configSourceTerminalBackend).
THEOREM PolicyExact == Spec => []PolicyFollowsConfig
<1>1. TypeOK /\ Abreast => PolicyFollowsConfig
  <2> DEFINE content == ConfigContent \ {None}
             named   == {Backend[c] : c \in content} \ {None}
  <2> SUFFICES ASSUME TypeOK, Abreast, Idle, missing = {}, ~ConfigIsBytes
               PROVE  ssh <=> "ssh" \in (IF named = {} THEN {agent.terminal} ELSE named)
    BY DEF PolicyFollowsConfig
  <2>1. ssh = (effectiveTerminalBackend(agent, RefsNow) = "ssh")
    BY DEF Abreast, Idle, SshNow
  <2>2. /\ \A c, d \in content : c = d
        /\ configSourceTerminalBackend(agent, RefsNow) =
              IF content = {} THEN None ELSE Backend[CHOOSE c \in content : TRUE]
    BY NamedBackend
  <2> HIDE DEF content
  <2>3. CASE content = {}
    <3>1. named = {}
      BY <2>3
    <3> QED
      BY <2>1, <2>2, <2>3, <3>1 DEF effectiveTerminalBackend
  <2>4. ASSUME NEW c \in content
        PROVE  ssh <=> "ssh" \in (IF named = {} THEN {agent.terminal} ELSE named)
    <3>1. content = {c} /\ (CHOOSE x \in content : TRUE) = c
      BY <2>2, <2>4
    <3>2. named = {Backend[c]} \ {None}
      BY <3>1
    <3>3. configSourceTerminalBackend(agent, RefsNow) = Backend[c]
      BY <2>2, <2>4, <3>1
    <3> HIDE DEF named
    <3> QED
      BY <2>1, <3>2, <3>3 DEF effectiveTerminalBackend
  <2> QED
    BY <2>3, <2>4
<1> QED
  BY <1>1, Typed, AbreastInitial, AbreastStep, PTL DEF Spec
=============================================================================
