------------------------ MODULE HermesControlProofs ------------------------
(***************************************************************************)
(* The reconciler implements Ownership, for every instance.  UidsInOrder   *)
(* and Written of HermesSafetyProofs say what each step may do to one      *)
(* owner; what is added here is that a step changes one child at most, and *)
(* that the incarnation that takes a child has been born.                  *)
(***************************************************************************)
EXTENDS HermesSafetyProofs

-----------------------------------------------------------------------------
(* One child at a time.                                                    *)

\* A step writes one object at most.
OneWrite == UNCHANGED api \/ \E k \in Kinds : \E o : api' = [api EXCEPT ![k] = o]

\* A call writes one object at most.
LEMMA CallWritesOne ==
    ASSUME NEW j \in Children, NEW error, NEW o, Call(j, error, o)
    PROVE  OneWrite
  BY DEF Call, Store, OneWrite, Kinds

\* CreateOrUpdate writes one object at most.
LEMMA CreateOrUpdateWritesOne ==
    ASSUME NEW j \in Children, NEW spec, CreateOrUpdate(j, spec)
    PROVE  OneWrite
<1>1. Local \/ \E error, o : Call(j, error, o)
  BY DEF CreateOrUpdate
<1> QED
  BY <1>1, CallWritesOne DEF Local, cluster, OneWrite

\* No step of the worker writes two objects.
LEMMA WorkerWritesOne ==
    ASSUME Worker
    PROVE  OneWrite
<1>1. Local => OneWrite
  BY DEF Local, cluster, OneWrite
<1>2. ASSUME NEW j \in Children, NEW ignore, Delete(j, ignore)
      PROVE  OneWrite
  BY <1>2, CallWritesOne DEF Delete
<1>3. ASSUME NEW id \in ConfigIds, reconcileInlineConfigMap(id) \/ deleteStaleConfigMap(id)
      PROVE  OneWrite
  BY <1>1, <1>2, <1>3, CreateOrUpdateWritesOne
  DEF reconcileInlineConfigMap, deleteStaleConfigMap, Skip, Children
<1>4. ASSUME NEW j \in OptKinds, checkOptional(j) \/ writeOptional(j)
      PROVE  OneWrite
  BY <1>1, <1>2, <1>4, CreateOrUpdateWritesOne
  DEF checkOptional, writeOptional, Skip, Children
<1>5. CASE reconcileStatefulSet \/ writePersistentVolumeClaim
  BY <1>1, <1>5, CreateOrUpdateWritesOne
  DEF reconcileStatefulSet, writePersistentVolumeClaim, Children
<1>6. CASE patchStatus
  BY <1>6 DEF patchStatus, OneWrite, Kinds
<1>7. CASE \/ Reconcile \/ resolveReferencedInputs \/ cleanupStaleGeneratedConfigMaps
           \/ reconcilePersistentVolumeClaim \/ readClaim \/ readStatefulSet
           \/ failedStatusView \/ FailedCall
  BY <1>1, <1>7
  DEF Reconcile, resolveReferencedInputs, cleanupStaleGeneratedConfigMaps,
      reconcilePersistentVolumeClaim, Skip, readClaim, readStatefulSet,
      failedStatusView, FailedCall, OneWrite
<1> QED
  BY <1>3, <1>4, <1>5, <1>6, <1>7 DEF Worker

\* Nor does any other step.
LEMMA StepWritesOne ==
    ASSUME TypeOK, [Next]_vars
    PROVE  OneWrite
<1>1. CASE (Users \/ ControlPlane)
  BY <1>1, UsersWrite, ControlPlaneWrites DEF Written, Store, OneWrite
<1>2. CASE UNCHANGED vars \/ Delivery \/ Restart
  BY <1>2 DEF vars, Delivery, Deliver, Restart, OneWrite
<1> QED
  BY <1>1, <1>2, WorkerWritesOne DEF Next, Environment

-----------------------------------------------------------------------------
(* The refinement.                                                         *)

\* The holders as Ownership sees them.
holders == [k \in Children |-> Holder(k)]

\* Who may come to hold a child, step by step.
MayChange(k) ==
    \/ Holder(k)' = Absent
    \/ Holder(k) = Absent /\ Holder(k)' \in {NoOwner, OtherOwner}
    \/ \E n \in 1 .. uids : Holder(k) \in {Absent, NoOwner} \cup (1 .. n) /\ Holder(k)' = n

\* What the worker takes was free, uncontrolled or an earlier incarnation's, and the
\* incarnation it acts for has been born.
LEMMA WorkerTakes ==
    ASSUME TypeOK, UidsInOrder, Worker, NEW k \in Children, Holder(k)' # Holder(k)
    PROVE  MayChange(k)
<1>1. api'[k] # api[k]
  BY DEF Holder
<1>2. CASE ControlledByJob(k) /\ api'[k] = Absent
  BY <1>2 DEF MayChange, Holder
<1>3. CASE /\ SetControllerReference(k)
           /\ api[k] = Absent \/ api[k] = seen[k]
           /\ api'[k].owner = job.uid
  <2>1. pc # "idle" /\ job \in Jobs
    BY <1>1, BusyWorkers DEF Reconcile
  <2>2. uids \in Nat /\ job.uid \in 1 .. uids
    <3>1. UpToStored(job.uid)
      BY <2>1 DEF UidsInOrder, UpToCached
    <3>2. job.uid \in Nat \ {0} /\ uids \in Nat
      BY <2>1 DEF Jobs, TypeOK, ClusterTypeOK
    <3> QED
      BY <3>1, <3>2 DEF UpToStored
  <2>3. Holder(k) \in {Absent, NoOwner} \cup (1 .. job.uid)
    <3>1. CASE api[k] = Absent
      BY <3>1 DEF Holder
    <3>2. CASE api[k] # Absent
      <4>1. api[k].owner \in Owners /\ api[k].owner # OtherOwner
        <5>1. api[k] \in ChildObjects(k)
          BY <3>2, SeenTyped, ObjectKinds DEF TypeOK, Kinds
        <5> QED
          BY <1>3, <3>2, <5>1 DEF ChildObjects, SetControllerReference, Held
      <4>2. api[k].owner <= job.uid
        BY <2>1, <3>2 DEF UidsInOrder, UpToJob
      <4> QED
        BY <2>2, <3>2, <4>1, <4>2 DEF Holder, Owners
    <3> QED
      BY <3>1, <3>2
  <2>4. Holder(k)' \in {Absent, job.uid}
    BY <1>3 DEF Holder
  <2> QED
    BY <2>2, <2>3, <2>4 DEF MayChange
<1> QED
  BY <1>1, <1>2, <1>3, ChildWrites

\* Everybody else lets a child appear, change without changing hands, or disappear.
LEMMA OthersTake ==
    ASSUME TypeOK, Users \/ ControlPlane, NEW k \in Children, Holder(k)' # Holder(k)
    PROVE  MayChange(k)
<1>1. CASE api'[k] = Absent
  BY <1>1 DEF MayChange, Holder
<1>2. CASE api'[k] # Absent
  <2>1. \/ api[k] # Absent /\ api'[k].owner = api[k].owner
        \/ api[k] = Absent /\ api'[k].owner \in {NoOwner, OtherOwner}
    BY <1>2, UsersWrite, ControlPlaneWrites, WrittenOwner
  <2> QED
    BY <1>2, <2>1 DEF Holder, MayChange
<1> QED
  BY <1>1, <1>2

\* Every step is one of Ownership, or leaves holders and births alone.
LEMMA StepControlled ==
    ASSUME TypeOK, UidsInOrder, [Next]_vars
    PROVE  [Control!Next]_(Control!ownership)
<1>1. CASE holders' = holders /\ uids' = uids
  BY <1>1 DEF Control!ownership, holders
<1>2. CASE holders' # holders
  <2>1. PICK k \in Children : Holder(k)' # Holder(k)
    BY <1>2 DEF holders
  <2>2. \A j \in Children : j # k => Holder(j)' = Holder(j)
    <3>1. DOMAIN api = Kinds /\ Children \subseteq Kinds
      BY DEF TypeOK, ClusterTypeOK, Kinds
    <3>2. api'[k] # api[k]
      BY <2>1 DEF Holder
    <3> QED
      BY <3>1, <3>2, StepWritesOne DEF OneWrite, Holder
  <2>3. holders' = [holders EXCEPT ![k] = holders'[k]]
    BY <2>1, <2>2 DEF holders
  <2>4. uids' = uids /\ MayChange(k)
    <3>1. ~(UNCHANGED vars \/ Delivery \/ Restart)
      BY <2>1 DEF vars, Delivery, Deliver, Restart, Holder
    <3>2. CASE Worker
      BY <2>1, <3>2, WorkerTakes, WorkerKeeps
      DEF AgentKept, Reconcile, patchStatus, failedStatusView
    <3>3. CASE Users \/ ControlPlane
      <4>1. ~CreateAgent
        <5>1. Agent \in Kinds /\ k \in Kinds /\ k # Agent /\ DOMAIN api = Kinds
          BY DEF TypeOK, ClusterTypeOK, Kinds, Agent, Children, ConfigIds, OptKinds
        <5> QED
          BY <2>1, <5>1 DEF CreateAgent, Store, Holder
      <4>2. uids' = uids
        BY <3>3, <4>1, ControlPlaneWrites
        DEF Users, UpdateAgent, DeleteAgent, ChangeInput, DeleteChild, ScaleStatefulSet,
            CreateForeign
      <4> QED
        BY <2>1, <3>3, <4>2, OthersTake
    <3> QED
      BY <3>1, <3>2, <3>3 DEF Next, Environment
  <2>5. holders[k] = Holder(k) /\ holders'[k] = Holder(k)'
    BY DEF holders
  <2>6. Control!Take(k) \/ Control!Appear(k) \/ Control!Disappear(k)
    BY <2>4, <2>5
    DEF MayChange, holders, NoOwner, OtherOwner, Control!Take, Control!Appear,
        Control!Disappear, Control!Uncontrolled, Control!Foreign
  <2>7. Control!Change(k)
    BY <2>1, <2>3, <2>4, <2>5, <2>6 DEF Control!Change, holders
  <2> QED
    BY <2>7 DEF Control!Next
<1>3. CASE holders' = holders /\ uids' # uids
  <2>1. ~Worker
    BY <1>3, WorkerKeeps DEF AgentKept, Reconcile, patchStatus, failedStatusView
  <2>2. CreateAgent
    BY <1>3, <2>1, ControlPlaneWrites
    DEF Next, Environment, Users, UpdateAgent, DeleteAgent, ChangeInput, DeleteChild,
        ScaleStatefulSet, CreateForeign, Delivery, Deliver, Restart, vars
  <2> QED
    BY <1>3, <2>2 DEF CreateAgent, holders, Control!Next, Control!BeBorn
<1> QED
  BY <1>1, <1>2, <1>3

\* At first no child has a holder and no agent was born.
LEMMA InitControlled == Init => Control!Init
<1> SUFFICES ASSUME Init PROVE Control!Init
  OBVIOUS
<1>1. \A k \in Children : k \in Kinds /\ k \notin Inputs
  BY ClusterAssumption DEF Kinds
<1>2. \A k \in Children : Holder(k) = Absent
  BY <1>1 DEF Init, ClusterInit, Holder
<1> QED
  BY <1>2 DEF Init, ClusterInit, Control!Init

\* For every instance: the reconciler with users, the garbage collector and everybody
\* else around it implements Ownership; control of a child changes hands only as that
\* specification allows (SetControllerReference, CreateOrUpdate, Delete).
THEOREM ControlImplemented == Spec => ControlRefined
<1>1. Init => TypeOK /\ UidsInOrder
  BY InitTyped, OrderInitial
<1>2. (TypeOK /\ UidsInOrder) /\ [Next]_vars => (TypeOK /\ UidsInOrder)'
  BY StepTyped, OrderInductive
<1>3. (TypeOK /\ UidsInOrder) /\ [Next]_vars => [Control!Next]_(Control!ownership)
  BY StepControlled
<1> QED
  BY <1>1, <1>2, <1>3, InitControlled, PTL DEF Spec, ControlRefined, Control!Spec
-----------------------------------------------------------------------------
(* Node ports.                                                             *)

\* What CreateOrUpdate stores.
LEMMA CreateOrUpdateStores ==
    ASSUME TypeOK, NEW j \in Children, NEW spec, CreateOrUpdate(j, spec),
           NEW k \in Children, api'[k] # api[k]
    PROVE  k = j /\ \E port \in NodePorts :
                       api'[k] = Admitted(k, seen[k], Wanted(k, spec), port)
<1>1. ~Local
  BY DEF Local, cluster
<1>2. PICK port \in NodePorts : \E error :
        Call(j, error, Admitted(j, seen[j], Wanted(j, spec), port))
  BY <1>1 DEF CreateOrUpdate
<1> QED
  BY <1>2, CallWrites

\* The Service changes in two places: where it is written and where it is deleted.
LEMMA ServiceWrites ==
    ASSUME TypeOK, Worker, api'["Service"] # api["Service"], api'["Service"] # Absent
    PROVE  \E port \in NodePorts :
              api'["Service"] =
                  Admitted("Service", seen["Service"], Wanted("Service", serviceSpec), port)
<1> DEFINE k == "Service"
<1>1. /\ k \in Children /\ k \in OptKinds /\ k \notin ConfigIds /\ ConfigIds \subseteq Children
      /\ OptKinds \subseteq Children /\ "StatefulSet" \in Children
      /\ "PersistentVolumeClaim" \in Children
  BY DEF Children, OptKinds, ConfigIds
<1>2. ASSUME NEW j \in Children, NEW ignore
      PROVE  ~Delete(j, ignore)
  BY <1>1, <1>2, DeleteWrites
<1>3. ASSUME NEW j \in Children, NEW spec, j # k
      PROVE  ~CreateOrUpdate(j, spec)
  BY <1>1, <1>3, CreateOrUpdateStores
<1>4. ~Local
  BY DEF Local, cluster
<1>5. ASSUME NEW id \in ConfigIds
      PROVE  ~reconcileInlineConfigMap(id) /\ ~deleteStaleConfigMap(id)
  BY <1>1, <1>2, <1>3, <1>4 DEF reconcileInlineConfigMap, deleteStaleConfigMap, Skip
<1>6. ASSUME NEW j \in OptKinds
      PROVE  ~checkOptional(j)
  BY <1>1, <1>2, <1>4 DEF checkOptional, Skip
<1>7. ASSUME NEW j \in OptKinds, writeOptional(j)
      PROVE  j = k
  BY <1>1, <1>3, <1>7 DEF writeOptional
<1>8. ~reconcileStatefulSet /\ ~writePersistentVolumeClaim
  BY <1>1, <1>3, <1>4 DEF reconcileStatefulSet, writePersistentVolumeClaim
<1>9. ~patchStatus
  <2>1. Agent # k /\ k \in DOMAIN api
    BY <1>1 DEF Agent, TypeOK, ClusterTypeOK, Kinds
  <2> QED
    BY <2>1 DEF patchStatus
<1>10. ~Reconcile /\ ~resolveReferencedInputs /\ ~cleanupStaleGeneratedConfigMaps
         /\ ~reconcilePersistentVolumeClaim /\ ~readClaim /\ ~readStatefulSet
         /\ ~failedStatusView /\ ~FailedCall
  BY <1>4
  DEF Reconcile, resolveReferencedInputs, cleanupStaleGeneratedConfigMaps,
      reconcilePersistentVolumeClaim, Skip, readClaim, readStatefulSet, failedStatusView,
      FailedCall
<1>11. writeOptional(k)
  BY <1>5, <1>6, <1>7, <1>8, <1>9, <1>10 DEF Worker
<1>12. CreateOrUpdate(k, serviceSpec)
  BY <1>11 DEF writeOptional
<1> QED
  BY <1>1, <1>12, CreateOrUpdateStores

\* One step of the worker and a node port.
LEMMA NodePortStep ==
    ASSUME TypeOK, Worker, api["Service"] # Absent, api'["Service"] # Absent,
           api["Service"].spec.nodePort # 0, api'["Service"].spec.type # "ClusterIP"
    PROVE  api'["Service"].spec.nodePort = api["Service"].spec.nodePort
<1> DEFINE k == "Service"
<1>1. CASE api'[k] = api[k]
  BY <1>1
<1>2. CASE api'[k] # api[k]
  <2>1. k \in Children /\ k \notin ConfigIds
    BY DEF Children, OptKinds, ConfigIds
  <2>2. seen[k] = api[k]
    BY <1>2, <2>1, ChildWrites
  <2>3. PICK port \in NodePorts :
          api'[k] = Admitted(k, seen[k], Wanted(k, serviceSpec), port)
    BY <1>2, ServiceWrites
  <2>4. api[k] \in ChildObjects(k)
    BY <2>1, SeenTyped, ObjectKinds DEF TypeOK, Kinds
  <2>5. Wanted(k, serviceSpec) = [seen[k] EXCEPT !.owner = job.uid, !.spec = serviceSpec]
    BY <2>2 DEF Wanted
  <2>6. Wanted(k, serviceSpec).spec = serviceSpec /\ "spec" \in DOMAIN Wanted(k, serviceSpec)
    BY <2>2, <2>4, <2>5 DEF ChildObjects
  <2>7. /\ DOMAIN serviceSpec = {"type", "port", "nodePort"}
        /\ serviceSpec.type # "ClusterIP" => serviceSpec.nodePort = api[k].spec.nodePort
    BY <2>2 DEF serviceSpec, buildService
  <2> DEFINE new == Wanted(k, serviceSpec)
  <2>8. api'[k] = [new EXCEPT !.spec.nodePort =
                      IF new.spec.type = "ClusterIP" THEN 0 ELSE IF @ = 0 THEN port ELSE @]
    BY <2>3 DEF Admitted
  <2> HIDE DEF new
  <2> QED
    BY <2>6, <2>7, <2>8 DEF new
<1> QED
  BY <1>1, <1>2

\* For every instance: an update of the operator never moves a Service that stays
\* exposed on the nodes to another node port, also through a lagging cache, since an
\* update of anything but the cached object conflicts (reconcileService).
THEOREM NodePortSafe == Spec => NodePortKept
<1> DEFINE Kept == LET old == api["Service"]
                       new == api'["Service"]
                   IN  (Worker /\ old # Absent /\ new # Absent
                          /\ old.spec.nodePort # 0 /\ new.spec.type # "ClusterIP") =>
                            new.spec.nodePort = old.spec.nodePort
<1>1. TypeOK /\ [Next]_vars => [Kept]_vars
  BY NodePortStep
<1> QED
  BY <1>1, InitTyped, StepTyped, PTL DEF Spec, NodePortKept
==============================================================================
