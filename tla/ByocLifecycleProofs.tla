------------------------ MODULE ByocLifecycleProofs ------------------------
(* Proofs about ByocLifecycle: no object of an instance is ever left         *)
(* unrecorded, teardown keeps its order, the credentials of a cluster        *)
(* outlive the objects on it, and the token controller sees nothing but      *)
(* InstanceView.                                                             *)
EXTENDS ByocLifecycle, TLAPS

-----------------------------------------------------------------------------
(* The inductive invariant.                                                  *)

Provisioning == {"service", "certificate", "dns", "tls", "deployment", "readiness"}
Cleaning == {"changed", "withdraw", "cleanTLS", "cleanRemote"}

NothingLeft ==
  /\ \A t \in TargetIds : ~ManagedLeft(t)
  /\ \A a \in Apis : ~RemoteLeft(a)

(* The handler's copy agrees with the stored instance on the target.         *)
Synced == w.active = obj.active /\ w.target = obj.target

(* A record is complete, and an instance without finalizer has none.         *)
RecordInv ==
  /\ (obj.active = None) = (obj.target = None)
  /\ obj.exists /\ ~obj.finalizer => obj.active = None /\ obj.endpoint = None

(* What the worker knows at each step, however long ago it read the          *)
(* instance: only it moves the record and removes the finalizer.             *)
WorkerInv ==
  /\ w.pc \notin {"idle", "reject", "finalizer"} => obj.exists /\ obj.finalizer
  /\ w.pc \notin {"idle", "forget", "activate", "failed"} => Synced
  /\ w.pc # "idle" /\ w.final => obj.deleting
  /\ w.pc \in {"idle", "cleanTLS", "cleanRemote", "dropCreds", "release"} \/ ~w.final
  /\ w.pc = "release" => w.final
  /\ w.pc \in Cleaning => w.target \in TargetIds
  /\ w.pc \in {"withdraw", "cleanTLS", "cleanRemote"} => w.final \/ w.api \in Apis
  /\ w.pc = "hosted" => w.ref = None /\ w.active = None
  /\ w.pc = "dropCreds" => w.final \/ w.active = None
  /\ w.pc \in {"connect", "cacheCreds", "activate"} \cup Provisioning => w.ref \in Refs
  /\ w.pc \in {"connect", "cacheCreds"} => w.active \in {None, w.ref}
  /\ w.pc \in {"cacheCreds", "activate"} \cup Provisioning =>
       w.api \in Apis /\ w.id \in TargetIds /\ w.id[1] = w.api
  /\ w.pc = "cacheCreds" => w.target \in {None, w.id}
  /\ w.pc \in Provisioning => w.active # None /\ w.target = w.id
  /\ w.pc \in {"cleanTLS", "cleanRemote", "forget"} => w.final \/ obj.endpoint = None
  /\ w.pc = "cleanRemote" => ~ManagedLeft(w.target)
  /\ w.pc \in {"forget", "dropCreds", "release"} => NothingLeft

(* Where the copy is ahead of the instance: the old target is about to be    *)
(* forgotten, or the new one about to be recorded.                           *)
Forgetting ==
  /\ w.active = None /\ w.target = None
  /\ obj.active # None /\ obj.endpoint = None /\ NothingLeft
Recording ==
  /\ w.ref \in Refs /\ w.active = w.ref /\ w.target \in TargetIds
  /\ obj.active = None

AheadInv ==
  /\ w.pc = "forget" => Forgetting
  /\ w.pc = "activate" => Recording /\ w.target = w.id
  /\ w.pc = "failed" => Synced \/ Forgetting \/ Recording

(* A copy that is not outdated is the instance.                              *)
FreshInv ==
  w.fresh /\ w.pc \notin {"idle", "release"} =>
    /\ obj.exists /\ obj.ref = w.ref
    /\ obj.deleting = w.final

(* What connects the worker, the record and the objects.                     *)
Core == ObjectsAreRecorded /\ RecordInv /\ WorkerInv /\ AheadInv /\ FreshInv

(* An incarnation is left for every failure to come.                         *)
UidBound == \A a \in Apis : uid[a] + budget.faults <= MaxUid

IInv == TypeOK /\ UidBound /\ Core
-----------------------------------------------------------------------------
(* Type correctness.                                                         *)

(* A target is not the empty string, and it names its API server.            *)
LEMMA Targets ==
  /\ None \notin Refs /\ None \notin Apis /\ None \notin TargetIds
  /\ \A t \in TargetIds : t[1] \in Apis
  /\ \A a \in Apis, n \in 0 .. MaxUid : <<a, n>> \in TargetIds /\ <<a, n>>[1] = a
BY LifecycleAssumption DEF TargetIds

(* The worker at rest is a worker.                                           *)
LEMMA IdleType == Idle \in Workers
BY DEF Idle, Workers, Steps

(* Any step of the program counter leaves a worker.                          *)
LEMMA AtType ==
  ASSUME TypeOK, NEW p \in Steps
  PROVE  At(p) \in Workers
<1>1. w \in Workers
  BY DEF TypeOK
<1> QED
  BY <1>1 DEF At, Workers

(* Fail leaves a worker.                                                     *)
LEMMA FailType ==
  ASSUME TypeOK, Fail
  PROVE  w' \in Workers
<1>1. "failed" \in Steps
  BY DEF Steps
<1> QED
  BY <1>1, IdleType, AtType DEF Fail, Go

(* A status write leaves an instance and a worker.                           *)
LEMMA StatusType ==
  ASSUME TypeOK, NEW e \in Endpoints, NEW x \in Workers, UpdateStatus(e, x)
  PROVE  obj' \in Instances /\ w' \in Workers
<1>1. w.active \in Refs \cup {None} /\ w.target \in TargetIds \cup {None}
  BY DEF TypeOK, Workers
<1>2. Stored(e) \in Instances
  BY <1>1, ZenonT(30) DEF TypeOK, Stored, Instances
<1> QED
  BY <1>2, FailType DEF UpdateStatus, TypeOK

(* Objects of a target: deletion, creation and progress keep them objects.   *)
LEMMA ObjectTypes ==
  ASSUME NEW K, NEW o \in [K -> ObjectStates], NEW k \in K, NEW s \in ObjectStates
  PROVE  /\ Deleted(k, o) \in [K -> ObjectStates]
         /\ Created(k, o, s) \in [K -> ObjectStates]
         /\ Progress(o[k]) \in ObjectStates
<1>1. o[k] \in ObjectStates
  OBVIOUS
<1>2. Deleted(k, o) \in [K -> ObjectStates]
  BY <1>1 DEF Deleted, ObjectStates
<1>3. Created(k, o, s) \in [K -> ObjectStates]
  BY DEF Created
<1>4. Progress(o[k]) \in ObjectStates
  BY <1>1 DEF Progress, Deleting, ObjectStates
<1> QED
  BY <1>2, <1>3, <1>4

(* The program starts well typed.                                            *)
LEMMA InitType == Init => TypeOK /\ UidBound
<1> SUFFICES ASSUME Init PROVE TypeOK /\ UidBound
  OBVIOUS
<1>1. /\ MaxUid \in Nat
      /\ budget \in [refs : SUBSET Refs, edits : Nat, faults : 0 .. MaxUid]
  BY LifecycleAssumption DEF Init
<1>2. obj \in Instances
  BY <1>1 DEF Init, Instances, Endpoints
<1>3. remote \in [Apis -> [RemoteKinds -> ObjectStates]]
  BY DEF Init, ObjectStates
<1>4. managed \in [TargetIds -> [ManagedKinds -> ObjectStates]]
  BY DEF Init, ObjectStates
<1>5. uid \in [Apis -> 0 .. MaxUid] /\ UidBound
  BY <1>1 DEF Init, UidBound
<1>6. up \in [Apis -> BOOLEAN] /\ src \in [Refs -> Apis \cup {None}]
  BY DEF Init
<1> QED
  BY <1>1, <1>2, <1>3, <1>4, <1>5, <1>6, IdleType, ZenonT(30) DEF Init, TypeOK

(* Every step keeps the state well typed.                                    *)
LEMMA StepType ==
  ASSUME IInv, Next
  PROVE  TypeOK' /\ UidBound'
<1>t. TypeOK /\ UidBound /\ WorkerInv
  BY DEF IInv, Core
<1>o. obj \in Instances
  BY <1>t DEF TypeOK
<1>w. /\ w \in Workers /\ w.ref \in Refs \cup {None}
      /\ w.active \in Refs \cup {None} /\ w.target \in TargetIds \cup {None}
      /\ w.api \in Apis \cup {None} /\ w.id \in TargetIds \cup {None}
  BY <1>t DEF TypeOK, Workers
<1>r. remote \in [Apis -> [RemoteKinds -> ObjectStates]]
  BY <1>t DEF TypeOK
<1>m. managed \in [TargetIds -> [ManagedKinds -> ObjectStates]]
  BY <1>t DEF TypeOK
<1>s. /\ src \in [Refs -> Apis \cup {None}]
      /\ creds \in Apis \cup {None} /\ cCreds \in Apis \cup {None} /\ misled \in BOOLEAN
  BY <1>t DEF TypeOK
<1>c. uid \in [Apis -> 0 .. MaxUid] /\ up \in [Apis -> BOOLEAN]
  BY <1>t DEF TypeOK
<1>b. budget \in [refs : SUBSET Refs, edits : Nat, faults : 0 .. MaxUid] /\ MaxUid \in Nat
  BY <1>t, LifecycleAssumption DEF TypeOK
<1>e. None \in Endpoints /\ Hosted \in Endpoints /\ w.id \in Endpoints
  BY <1>w DEF Endpoints
<1>at. \A p \in Steps : At(p) \in Workers
  BY <1>t, AtType
<1>id. \A a \in Apis : Identity(a) \in TargetIds /\ Identity(a)[1] = a
  BY <1>c, Targets DEF Identity
<1>step. {"idle", "cleanTLS", "cleanRemote", "dropCreds", "forget", "activate", "service",
          "failed", "release", "connect", "hosted", "certificate", "dns", "tls",
          "deployment", "readiness", "cacheCreds", "withdraw", "reject", "finalizer",
          "changed"} = Steps
  BY DEF Steps
<1>f. ASSUME obj' \in Instances, w' \in Workers, UNCHANGED budget,
             UnchangedRemote, UnchangedSecrets
      PROVE  TypeOK' /\ UidBound'
  BY <1>f, <1>t DEF TypeOK, UidBound, UnchangedRemote, UnchangedSecrets, clusters
<1>1. CASE Reconcile
  <2>1. w' \in Workers
    <3>1. \A p \in Steps :
            [Idle EXCEPT !.pc = p, !.ref = obj.ref, !.active = obj.active,
                         !.target = obj.target, !.fresh = TRUE,
                         !.final = obj.deleting] \in Workers
      BY <1>o, IdleType, ZenonT(30) DEF Workers, Instances
    <3> QED
      BY <1>1, <1>step, <3>1, ZenonT(30) DEF Reconcile
  <2> QED
    BY <1>1, <2>1, <1>f, <1>o DEF Reconcile
<1>2. CASE RejectModelSettings
  <2>1. obj' \in Instances /\ w' \in Workers
    BY <1>2, <1>t, <1>e, IdleType, StatusType DEF RejectModelSettings
  <2> QED
    BY <1>2, <2>1, <1>f DEF RejectModelSettings
<1>3. CASE EnsureFinalizer
  <2>1. obj' \in Instances
    BY <1>3, <1>o, ZenonT(30) DEF EnsureFinalizer, Instances
  <2> QED
    BY <1>3, <2>1, <1>f, IdleType DEF EnsureFinalizer
<1>4. CASE FailStatus
  <2>1. obj' \in Instances /\ w' \in Workers
    BY <1>4, <1>t, <1>e, IdleType, StatusType DEF FailStatus
  <2> QED
    BY <1>4, <2>1, <1>f DEF FailStatus
<1>5. CASE CheckTarget
  <2>1. w' \in Workers
    <3>1. \A p \in Steps : cCreds # None => [w EXCEPT !.api = cCreds, !.pc = p] \in Workers
      BY <1>w, <1>s, ZenonT(30) DEF Workers
    <3> QED
      BY <1>5, <1>t, <1>step, <3>1, FailType, ZenonT(30) DEF CheckTarget
  <2> QED
    BY <1>5, <2>1, <1>f, <1>o DEF CheckTarget
<1>6. CASE WithdrawEndpoint
  <2>1. At("cleanTLS") \in Workers
    BY <1>at, <1>step
  <2>2. obj' \in Instances /\ w' \in Workers
    BY <1>6, <2>1, <1>t, <1>e, StatusType DEF WithdrawEndpoint
  <2> QED
    BY <1>6, <2>2, <1>f DEF WithdrawEndpoint
<1>g. ASSUME UNCHANGED <<obj, uid, up, budget>>, w' \in Workers,
             remote' \in [Apis -> [RemoteKinds -> ObjectStates]],
             managed' \in [TargetIds -> [ManagedKinds -> ObjectStates]],
             UnchangedSecrets
      PROVE  TypeOK' /\ UidBound'
  BY <1>g, <1>t DEF TypeOK, UidBound, UnchangedSecrets
<1>7. CASE CleanupManagedTLS
  <2>1. w.target \in TargetIds
    BY <1>7, <1>t DEF CleanupManagedTLS, WorkerInv, Cleaning
  <2>2. managed[w.target] \in [ManagedKinds -> ObjectStates]
    BY <2>1, <1>m
  <2>3. /\ Deleted("DNS", managed[w.target]) \in [ManagedKinds -> ObjectStates]
        /\ Deleted("Certificate", managed[w.target]) \in [ManagedKinds -> ObjectStates]
    <3>1. "DNS" \in ManagedKinds /\ "Certificate" \in ManagedKinds /\ "absent" \in ObjectStates
      BY DEF ManagedKinds, ObjectStates
    <3> QED
      BY <2>2, <3>1, ObjectTypes, ZenonT(30)
  <2>4. managed' \in [TargetIds -> [ManagedKinds -> ObjectStates]]
    BY <1>7, <1>m, <2>3 DEF CleanupManagedTLS
  <2>5. w' \in Workers
    BY <1>7, <1>t, <1>at, <1>step, FailType DEF CleanupManagedTLS, Go
  <2> QED
    BY <1>7, <2>4, <2>5, <1>g, <1>r DEF CleanupManagedTLS, clusters
<1>8. CASE CleanupRemote
  <2> DEFINE a == IF w.final THEN cCreds ELSE w.api
  <2>1. w' \in Workers
    <3>1. [At("forget") EXCEPT !.active = None, !.target = None] \in Workers
      BY <1>w, ZenonT(30) DEF At, Workers, Steps
    <3> QED
      BY <1>8, <1>t, <1>at, <1>step, <3>1, FailType DEF CleanupRemote
  <2>2. remote' \in [Apis -> [RemoteKinds -> ObjectStates]]
    <3>1. CASE a \in Apis
      <4>1. remote[a] \in [RemoteKinds -> ObjectStates]
        BY <1>r, <3>1
      <4>2. /\ {"Service", "Deployment", "TLS"} = RemoteKinds /\ "absent" \in ObjectStates
        BY DEF RemoteKinds, ObjectStates
      <4>3. /\ Deleted("Deployment", remote[a]) \in [RemoteKinds -> ObjectStates]
            /\ Deleted("TLS", remote[a]) \in [RemoteKinds -> ObjectStates]
        BY <4>1, <4>2, ObjectTypes, ZenonT(30)
      <4>4. Deleted("Service", Deleted("Deployment", remote[a])) \in [RemoteKinds -> ObjectStates]
        BY <4>2, <4>3, ObjectTypes, ZenonT(30)
      <4> HIDE DEF a
      <4> QED
        BY <1>8, <1>r, <4>3, <4>4 DEF CleanupRemote, a
    <3>2. CASE a = None
      BY <1>8, <1>r, <3>2 DEF CleanupRemote
    <3> QED
      BY <3>1, <3>2, <1>s, <1>w
  <2> QED
    BY <1>8, <2>1, <2>2, <1>g, <1>m DEF CleanupRemote, clusters
<1>9. CASE ForgetTarget
  <2>1. At("dropCreds") \in Workers
    BY <1>at, <1>step
  <2>2. obj' \in Instances /\ w' \in Workers
    BY <1>9, <2>1, <1>t, <1>e, StatusType DEF ForgetTarget
  <2> QED
    BY <1>9, <2>2, <1>f DEF ForgetTarget
<1>10. CASE DeleteCachedCredentials
  <2>1. w' \in Workers
    BY <1>10, <1>at, <1>step DEF DeleteCachedCredentials, Go
  <2> QED
    BY <1>10, <2>1, <1>t DEF DeleteCachedCredentials, WriteCreds, TypeOK, UidBound,
       UnchangedRemote, UnchangedSecrets, clusters
<1>11. CASE ReleaseInstance
  <2>1. w' \in Workers
    <3>1. w.tries \in 0 .. 2
      BY <1>w DEF Workers
    <3>2. w.tries < 2 => w.tries + 1 \in 0 .. 2
      BY <3>1
    <3>3. w.tries < 2 => [w EXCEPT !.fresh = TRUE, !.tries = w.tries + 1] \in Workers
      BY <1>w, <3>2, ZenonT(30) DEF Workers
    <3> QED
      BY <1>11, <3>3, IdleType DEF ReleaseInstance
  <2>2. obj' \in Instances
    BY <1>11, <1>o, ZenonT(30) DEF ReleaseInstance, Instances
  <2> QED
    BY <1>11, <2>1, <2>2, <1>f DEF ReleaseInstance
<1>12. CASE Connect
  <2>1. w.ref \in Refs
    BY <1>12, <1>t DEF Connect, WorkerInv
  <2>2. src[w.ref] # None =>
          [At("cacheCreds") EXCEPT !.api = src[w.ref], !.id = Identity(src[w.ref])] \in Workers
    BY <2>1, <1>s, <1>w, <1>id, ZenonT(30) DEF At, Workers, Steps
  <2>3. w' \in Workers
    BY <1>12, <1>t, <1>at, <1>step, <2>2, FailType DEF Connect, Go
  <2> QED
    BY <1>12, <2>3, <1>f, <1>o DEF Connect
<1>13. CASE EnsureCachedCredentials
  <2>1. [At("activate") EXCEPT !.active = w.ref, !.target = w.id] \in Workers
    BY <1>w, ZenonT(30) DEF At, Workers, Steps
  <2>2. w' \in Workers
    BY <1>13, <1>t, <1>at, <1>step, <2>1, FailType DEF EnsureCachedCredentials
  <2>3. /\ src' = src /\ creds' \in Apis \cup {None}
        /\ cCreds' \in Apis \cup {None} /\ misled' \in BOOLEAN
    BY <1>13, <1>s, <1>w, ZenonT(30) DEF EnsureCachedCredentials, WriteCreds, UnchangedSecrets
  <2> QED
    BY <1>13, <2>2, <2>3, <1>t DEF EnsureCachedCredentials, TypeOK, UidBound,
       UnchangedRemote, clusters
<1>14. CASE Activate
  <2>1. At("service") \in Workers
    BY <1>at, <1>step
  <2>2. obj' \in Instances /\ w' \in Workers
    BY <1>14, <2>1, <1>t, <1>e, StatusType DEF Activate
  <2> QED
    BY <1>14, <2>2, <1>f DEF Activate
<1>15. ASSUME NEW k \in RemoteKinds, NEW s \in ObjectStates, NEW p \in Steps,
              w.pc \in Provisioning, CreateRemote(k, s, p)
       PROVE  TypeOK' /\ UidBound'
  <2>1. w.api \in Apis
    BY <1>15, <1>t DEF WorkerInv
  <2>2. Created(k, remote[w.api], s) \in [RemoteKinds -> ObjectStates]
    BY <2>1, <1>r, ObjectTypes, ZenonT(30)
  <2>3. remote' \in [Apis -> [RemoteKinds -> ObjectStates]]
    BY <1>15, <1>r, <2>2, ZenonT(30) DEF CreateRemote
  <2> QED
    BY <1>15, <2>3, <1>g, <1>m, <1>at DEF CreateRemote, Go, clusters
<1>16. ASSUME NEW k \in ManagedKinds, NEW p \in Steps, w.pc \in Provisioning, CreateManaged(k, p)
       PROVE  TypeOK' /\ UidBound'
  <2>1. w.id \in TargetIds /\ "pending" \in ObjectStates
    BY <1>16, <1>t DEF WorkerInv, ObjectStates
  <2>2. Created(k, managed[w.id], "pending") \in [ManagedKinds -> ObjectStates]
    BY <2>1, <1>m, ObjectTypes, ZenonT(30)
  <2>3. managed' \in [TargetIds -> [ManagedKinds -> ObjectStates]]
    BY <1>16, <1>m, <2>2, ZenonT(30) DEF CreateManaged
  <2> QED
    BY <1>16, <2>3, <1>g, <1>r, <1>at DEF CreateManaged, Go, clusters
<1>17. ASSUME GiveUp PROVE TypeOK' /\ UidBound'
  BY <1>17, <1>t, <1>f, <1>o, FailType DEF GiveUp
<1>k. /\ {"Service", "Deployment", "TLS"} = RemoteKinds /\ {"DNS", "Certificate"} = ManagedKinds
      /\ "pending" \in ObjectStates /\ "ready" \in ObjectStates
  BY DEF RemoteKinds, ManagedKinds, ObjectStates
<1>18. CASE ReconcileService
  BY <1>18, <1>15, <1>17, <1>k, <1>step DEF ReconcileService, Provisioning
<1>19. CASE ReconcileCertificate
  BY <1>19, <1>16, <1>17, <1>k, <1>step DEF ReconcileCertificate, Provisioning
<1>20. CASE ReconcileDNS
  BY <1>20, <1>16, <1>17, <1>k, <1>step DEF ReconcileDNS, Provisioning
<1>21. CASE ReconcileTLSSecret
  BY <1>21, <1>15, <1>17, <1>k, <1>step DEF ReconcileTLSSecret, Provisioning
<1>22. CASE ReconcileDeployment
  BY <1>22, <1>15, <1>17, <1>k, <1>step DEF ReconcileDeployment, Provisioning
<1>23. CASE EvaluateReadiness
  <2>1. obj' \in Instances /\ w' \in Workers
    BY <1>23, <1>t, <1>e, <1>o, IdleType, StatusType, FailType DEF EvaluateReadiness
  <2> QED
    BY <1>23, <2>1, <1>f DEF EvaluateReadiness
<1>24. CASE ReconcileHosted
  <2>1. obj' \in Instances /\ w' \in Workers
    BY <1>24, <1>t, <1>e, IdleType, StatusType DEF ReconcileHosted
  <2> QED
    BY <1>24, <2>1, <1>f DEF ReconcileHosted
<1>25. CASE SyncCreds
  BY <1>25, <1>t DEF SyncCreds, TypeOK, UidBound, UnchangedRemote, clusters
<1>26. CASE CollectCreds
  BY <1>26, <1>t DEF CollectCreds, WriteCreds, TypeOK, UidBound, UnchangedRemote, clusters
<1>27. ASSUME NEW a \in Apis, NEW k \in RemoteKinds, RemoteProgress(a, k)
       PROVE  TypeOK' /\ UidBound'
  <2>1. Progress(remote[a][k]) \in ObjectStates
    BY <1>r, <1>k, ObjectTypes
  <2>2. remote' \in [Apis -> [RemoteKinds -> ObjectStates]]
    BY <1>27, <1>r, <2>1 DEF RemoteProgress
  <2> QED
    BY <1>27, <2>2, <1>g, <1>m, <1>w DEF RemoteProgress, clusters
<1>28. ASSUME NEW t \in TargetIds, NEW k \in ManagedKinds, ManagedProgress(t, k)
       PROVE  TypeOK' /\ UidBound'
  <2>1. Progress(managed[t][k]) \in ObjectStates
    BY <1>m, <1>k, ObjectTypes
  <2>2. managed' \in [TargetIds -> [ManagedKinds -> ObjectStates]]
    BY <1>28, <1>m, <2>1 DEF ManagedProgress
  <2> QED
    BY <1>28, <2>2, <1>g, <1>r, <1>w DEF ManagedProgress, clusters
<1>29. ASSUME NEW a \in Apis, ClusterUp(a) PROVE TypeOK' /\ UidBound'
  BY <1>29, <1>t DEF ClusterUp, TypeOK, UidBound, UnchangedSecrets
<1>30. CASE Others
  BY <1>30, <1>25, <1>26, <1>27, <1>28, <1>29 DEF Others
<1>31. ASSUME NEW o \in Instances, EditInstance(o)
       PROVE  obj' \in Instances /\ w' \in Workers
  BY <1>31, <1>w, ZenonT(30) DEF EditInstance, Workers
<1>32. ASSUME SpendEdit
       PROVE  /\ budget' \in [refs : SUBSET Refs, edits : Nat, faults : 0 .. MaxUid]
              /\ budget'.faults = budget.faults
  BY <1>32, <1>b DEF SpendEdit
<1>33. CASE User
  <2>1. ASSUME NEW o \in Instances, EditInstance(o), SpendEdit \/ UNCHANGED budget
        PROVE  TypeOK' /\ UidBound'
    BY <2>1, <1>t, <1>31, <1>32, ZenonT(30) DEF EditInstance, TypeOK, UidBound, UnchangedRemote,
       UnchangedSecrets, clusters
  <2>2. ASSUME NEW r \in budget.refs \cup {None}, SetClusterRef(r) PROVE TypeOK' /\ UidBound'
    <3>1. [obj EXCEPT !.ref = r, !.observed = FALSE] \in Instances
      BY <1>o, <1>b, ZenonT(30) DEF Instances
    <3> QED
      BY <2>1, <2>2, <3>1 DEF SetClusterRef
  <2>3. CASE SetModelSettings
    <3>1. [obj EXCEPT !.valid = ~@, !.observed = FALSE] \in Instances
      BY <1>o, ZenonT(30) DEF Instances
    <3> QED
      BY <2>1, <2>3, <3>1 DEF SetModelSettings
  <2>4. CASE DeleteInstance
    <3>1. [obj EXCEPT !.deleting = TRUE, !.exists = obj.finalizer,
                      !.observed = FALSE] \in Instances
      BY <1>o, ZenonT(30) DEF Instances
    <3> QED
      BY <2>1, <2>4, <3>1 DEF DeleteInstance
  <2>5. ASSUME NEW r \in budget.refs, NEW a \in Apis \cup {None}, SetKubeconfig(r, a)
        PROVE  TypeOK' /\ UidBound'
    BY <2>5, <1>t, <1>32 DEF SetKubeconfig, TypeOK, UidBound, UnchangedRemote, clusters
  <2> QED
    BY <1>33, <2>2, <2>3, <2>4, <2>5 DEF User
<1>34. ASSUME SpendFault
       PROVE  /\ budget' \in [refs : SUBSET Refs, edits : Nat, faults : 0 .. MaxUid]
              /\ budget'.faults = budget.faults - 1
              /\ \A a \in Apis : uid[a] + 1 <= MaxUid
              /\ \A a \in Apis : uid[a] + budget'.faults + 1 <= MaxUid
  BY <1>34, <1>b, <1>c, <1>t DEF SpendFault, UidBound
<1>35. CASE Failures
  <2>1. ASSUME w' \in Workers, SpendFault, UNCHANGED obj, UnchangedRemote, UnchangedSecrets
        PROVE  TypeOK' /\ UidBound'
    <3>1. UidBound'
      BY <2>1, <1>34, <1>c, <1>b DEF UidBound, UnchangedRemote, clusters
    <3> QED
      BY <2>1, <3>1, <1>t, <1>34 DEF TypeOK, UnchangedRemote, UnchangedSecrets, clusters
  <2>2. CASE Restart
    BY <2>1, <2>2, IdleType DEF Restart
  <2>3. CASE CallFails
    BY <2>1, <2>3, <1>t, FailType DEF CallFails
  <2>4. ASSUME NEW a \in Apis, ClusterDown(a) PROVE TypeOK' /\ UidBound'
    <3>1. UidBound'
      BY <2>4, <1>34, <1>c, <1>b DEF ClusterDown, UidBound
    <3> QED
      BY <2>4, <3>1, <1>t, <1>34 DEF ClusterDown, TypeOK, UnchangedSecrets
  <2>5. ASSUME NEW a \in Apis, ReplaceCluster(a) PROVE TypeOK' /\ UidBound'
    <3>1. uid' \in [Apis -> 0 .. MaxUid]
      BY <2>5, <1>34, <1>c, <1>b DEF ReplaceCluster
    <3>2. UidBound'
      BY <2>5, <1>34, <1>c, <1>b DEF ReplaceCluster, UidBound
    <3>3. remote' \in [Apis -> [RemoteKinds -> ObjectStates]]
      BY <2>5, <1>r DEF ReplaceCluster, ObjectStates
    <3> QED
      BY <2>5, <3>1, <3>2, <3>3, <1>t, <1>34 DEF ReplaceCluster, TypeOK, UnchangedSecrets
  <2> QED
    BY <1>35, <2>2, <2>3, <2>4, <2>5 DEF Failures
<1> QED
  BY <1>1, <1>2, <1>3, <1>4, <1>5, <1>6, <1>7, <1>8, <1>9, <1>10, <1>11, <1>12, <1>13, <1>14,
     <1>18, <1>19, <1>20, <1>21, <1>22, <1>23, <1>24, <1>30, <1>33, <1>35 DEF Next, Controller
-----------------------------------------------------------------------------
(* The invariant is kept.                                                    *)

(* No object comes into being.                                               *)
NoneAppears ==
  /\ \A t \in TargetIds : ManagedLeft(t)' => ManagedLeft(t)
  /\ \A a \in Apis : RemoteLeft(a)' => RemoteLeft(a)

(* A step that leaves the objects alone makes none.                          *)
LEMMA SameObjects ==
  ASSUME UNCHANGED <<remote, managed>>
  PROVE  NoneAppears
BY DEF NoneAppears, ManagedLeft, RemoteLeft

(* Deletion and progress make no object either.                              *)
LEMMA DeletedKeeps ==
  ASSUME NEW K, NEW o \in [K -> ObjectStates], NEW k \in K, NEW j \in K
  PROVE  (Deleted(k, o)[j] = "absent") = (o[j] = "absent")
BY DEF Deleted

(* A failed call, with or without a status write to follow, keeps Core.      *)
LEMMA FailCore ==
  ASSUME TypeOK, Core, w.pc # "idle", Fail, UNCHANGED obj, NoneAppears
  PROVE  Core'
<1>1. ObjectsAreRecorded' /\ RecordInv' /\ (NothingLeft => NothingLeft')
  BY DEF Core, ObjectsAreRecorded, RecordInv, NoneAppears, NothingLeft
<1>2. CASE w' = Idle
  BY <1>1, <1>2 DEF Core, WorkerInv, AheadInv, FreshInv, Idle, Provisioning, Cleaning
<1>3. CASE w' = At("failed") /\ ~w.final /\ w.pc \notin {"reject", "finalizer", "hosted", "failed"}
  <2>1. /\ w'.pc = "failed" /\ w'.active = w.active /\ w'.target = w.target
        /\ w'.ref = w.ref /\ w'.fresh = w.fresh /\ w'.final = w.final
    BY <1>3 DEF TypeOK, At, Workers
  <2>2. WorkerInv'
    BY <1>3, <2>1 DEF Core, WorkerInv, Provisioning, Cleaning
  <2>3. FreshInv'
    BY <1>3, <2>1 DEF Core, WorkerInv, FreshInv
  <2>4. Synced \/ Forgetting \/ Recording
    BY <1>3 DEF Core, WorkerInv, AheadInv
  <2>5. AheadInv'
    BY <1>1, <2>1, <2>4 DEF AheadInv, Synced, Forgetting, Recording
  <2> QED
    BY <1>1, <2>2, <2>3, <2>5 DEF Core
<1> QED
  BY <1>2, <1>3 DEF Fail, Go

(* Steps of others that leave instance and worker alone keep Core.           *)
LEMMA QuietCore ==
  ASSUME TypeOK, Core, UNCHANGED <<obj, w>>, NoneAppears
  PROVE  Core'
<1>1. ObjectsAreRecorded' /\ RecordInv' /\ (NothingLeft => NothingLeft')
  BY DEF Core, ObjectsAreRecorded, RecordInv, NoneAppears, NothingLeft
<1>2. WorkerInv'
  BY <1>1 DEF Core, WorkerInv, Synced, NoneAppears, Cleaning
<1>3. AheadInv' /\ FreshInv'
  BY <1>1 DEF Core, AheadInv, FreshInv, Synced, Forgetting, Recording
<1> QED
  BY <1>1, <1>2, <1>3 DEF Core

(* The worker at rest knows nothing.                                         *)
LEMMA IdleCore ==
  ASSUME ObjectsAreRecorded', RecordInv', w' = Idle
  PROVE  Core'
BY DEF Core, WorkerInv, AheadInv, FreshInv, Idle, Provisioning, Cleaning

(* A status write that ends the pass keeps Core: what it changes of the      *)
(* record is either nothing or concerns no object.                           *)
LEMMA StatusIdleCore ==
  ASSUME TypeOK, Core, NEW e, w.pc # "idle", UNCHANGED <<remote, managed>>,
         UpdateStatus(e, Idle), Synced \/ Forgetting \/ Recording,
         obj.finalizer \/ (Synced /\ e = None)
  PROVE  Core'
<1>1. CASE ~w.fresh
  BY <1>1, FailCore, SameObjects DEF UpdateStatus
<1>2. CASE w.fresh
  <2>1. /\ w' = Idle
        /\ obj'.active = w.active /\ obj'.target = w.target /\ obj'.endpoint = e
        /\ obj'.exists = obj.exists /\ obj'.finalizer = obj.finalizer
    BY <1>2, ZenonT(30) DEF UpdateStatus, Stored, TypeOK, Instances
  <2>2. RecordInv'
    BY <2>1, Targets DEF Core, RecordInv, Synced, Forgetting, Recording
  <2>3. ObjectsAreRecorded'
    <3>1. CASE Synced
      BY <2>1, <3>1 DEF Core, ObjectsAreRecorded, ManagedLeft, RemoteLeft, Synced
    <3>2. CASE Forgetting
      BY <3>2 DEF ObjectsAreRecorded, Forgetting, NothingLeft, ManagedLeft, RemoteLeft
    <3>3. CASE Recording
      BY <3>3 DEF Core, ObjectsAreRecorded, Recording, ManagedLeft, RemoteLeft
    <3> QED
      BY <3>1, <3>2, <3>3
  <2> QED
    BY <2>1, <2>2, <2>3, IdleCore
<1> QED
  BY <1>1, <1>2

(* The first steps of a pass.                                                *)
LEMMA DispatchCore ==
  ASSUME TypeOK, Core,
         Reconcile \/ RejectModelSettings \/ EnsureFinalizer \/ FailStatus
         \/ EvaluateReadiness \/ ReconcileHosted
  PROVE  Core'
<1>1. CASE Reconcile
  <2>1. /\ UNCHANGED <<obj, remote, managed>> /\ obj.exists
        /\ w'.ref = obj.ref /\ w'.active = obj.active /\ w'.target = obj.target
        /\ w'.fresh /\ w'.final = obj.deleting
        /\ w'.pc \in {"idle", "cleanTLS", "release", "reject", "finalizer", "changed",
                      "connect", "hosted"}
        /\ w'.pc = "idle" => obj.deleting
        /\ w'.pc \in {"cleanTLS", "release"} => obj.deleting /\ obj.finalizer
        /\ w'.pc \in {"cleanTLS", "changed"} => obj.active # None
        /\ w'.pc \in {"changed", "connect", "hosted"} => ~obj.deleting /\ obj.finalizer
        /\ w'.pc \in {"reject", "finalizer"} => ~obj.deleting
        /\ w'.pc \in {"release", "connect", "hosted"} => obj.active = None
        /\ w'.pc = "connect" => obj.ref # None
        /\ w'.pc = "hosted" => obj.ref = None
    BY <1>1 DEF Reconcile, Idle, UnchangedRemote
  <2>2. ObjectsAreRecorded' /\ RecordInv' /\ (NothingLeft => NothingLeft')
    BY <2>1, SameObjects, ZenonT(30)
    DEF Core, ObjectsAreRecorded, RecordInv, NoneAppears, NothingLeft
  <2>3. obj.active = None => NothingLeft
    BY DEF Core, ObjectsAreRecorded, NothingLeft
  <2>4. obj.active # None => obj.target \in TargetIds
    BY DEF Core, RecordInv, TypeOK, Instances
  <2>5. obj.ref \in Refs \cup {None}
    BY DEF TypeOK, Instances
  <2>6. WorkerInv'
    BY <2>1, <2>2, <2>3, <2>4, <2>5 DEF WorkerInv, Synced, Provisioning, Cleaning
  <2>7. AheadInv' /\ FreshInv'
    BY <2>1 DEF AheadInv, FreshInv
  <2> QED
    BY <2>2, <2>6, <2>7 DEF Core
<1>2. CASE RejectModelSettings
  <2>1. Synced
    BY <1>2 DEF RejectModelSettings, Core, WorkerInv
  <2> QED
    BY <1>2, <2>1, StatusIdleCore DEF RejectModelSettings, UnchangedRemote
<1>3. CASE EnsureFinalizer
  <2>1. w.fresh => obj.exists
    BY <1>3 DEF EnsureFinalizer, Core, FreshInv
  <2>2. /\ obj'.exists = obj.exists /\ obj'.active = obj.active /\ obj'.target = obj.target
        /\ obj'.endpoint = obj.endpoint /\ (obj.finalizer => obj'.finalizer)
    BY <1>3 DEF EnsureFinalizer, TypeOK, Instances
  <2>3. ObjectsAreRecorded' /\ RecordInv'
    BY <1>3, <2>2 DEF EnsureFinalizer, Core, ObjectsAreRecorded, RecordInv, ManagedLeft,
       RemoteLeft, UnchangedRemote
  <2> QED
    BY <1>3, <2>3, IdleCore DEF EnsureFinalizer
<1>4. CASE FailStatus
  <2>1. obj.finalizer /\ (Synced \/ Forgetting \/ Recording)
    BY <1>4 DEF FailStatus, Core, WorkerInv, AheadInv
  <2> QED
    BY <1>4, <2>1, StatusIdleCore DEF FailStatus, UnchangedRemote
<1>5. CASE EvaluateReadiness
  <2>1. obj.finalizer /\ Synced
    BY <1>5 DEF EvaluateReadiness, Core, WorkerInv
  <2> QED
    BY <1>5, <2>1, StatusIdleCore, FailCore, SameObjects DEF EvaluateReadiness, UnchangedRemote
<1>6. CASE ReconcileHosted
  <2>1. obj.finalizer /\ Synced
    BY <1>6 DEF ReconcileHosted, Core, WorkerInv
  <2> QED
    BY <1>6, <2>1, StatusIdleCore DEF ReconcileHosted, UnchangedRemote
<1> QED
  BY <1>1, <1>2, <1>3, <1>4, <1>5, <1>6

(* A pass that goes on without touching the record or the objects.           *)
LEMMA GoOn ==
  ASSUME Core, UNCHANGED <<obj, remote, managed>>
  PROVE  /\ ObjectsAreRecorded' /\ RecordInv' /\ (NothingLeft => NothingLeft')
         /\ \A t \in TargetIds : ManagedLeft(t)' = ManagedLeft(t)
BY DEF Core, ObjectsAreRecorded, RecordInv, NothingLeft, ManagedLeft, RemoteLeft

(* cleanupChangedBYOCTarget and cleanupBYOC.                                 *)
LEMMA CleanupCore ==
  ASSUME TypeOK, Core, CheckTarget \/ WithdrawEndpoint \/ CleanupManagedTLS \/ CleanupRemote
  PROVE  Core'
<1>w. /\ w \in Workers /\ w.ref \in Refs \cup {None} /\ w.active \in Refs \cup {None}
      /\ w.target \in TargetIds \cup {None}
      /\ cCreds \in Apis \cup {None} /\ w.api \in Apis \cup {None}
  BY DEF TypeOK, Workers
<1>i. WorkerInv /\ RecordInv /\ FreshInv
  BY DEF Core
<1>at. \A p \in Steps : /\ At(p).pc = p /\ At(p).ref = w.ref /\ At(p).active = w.active
                        /\ At(p).target = w.target /\ At(p).api = w.api /\ At(p).id = w.id
                        /\ At(p).fresh = w.fresh /\ At(p).final = w.final
  BY <1>w DEF At, Workers
<1>s. {"cleanTLS", "cleanRemote", "dropCreds", "forget"} \subseteq Steps
  BY DEF Steps
<1>1. CASE CheckTarget
  <2>0. w.pc = "changed" /\ UNCHANGED <<obj, remote, managed>>
    BY <1>1 DEF CheckTarget, UnchangedRemote
  <2>1. CASE Fail
    BY <1>1, <2>0, <2>1, FailCore, SameObjects
  <2>2. CASE ~Fail
    <3>1. /\ w'.api = cCreds /\ cCreds \in Apis /\ w'.pc \in {"connect", "withdraw"}
          /\ w'.pc = "connect" => w.ref # None /\ w.ref = w.active
          /\ w'.ref = w.ref /\ w'.active = w.active /\ w'.target = w.target
          /\ w'.fresh = w.fresh /\ w'.final = w.final
      BY <1>1, <2>2, <1>w, ZenonT(30) DEF CheckTarget, Workers
    <3>2. WorkerInv'
      BY <2>0, <3>1, <1>i, <1>w, GoOn, ZenonT(30) DEF WorkerInv, Synced, Provisioning, Cleaning
    <3>3. AheadInv' /\ FreshInv'
      BY <2>0, <3>1, <1>i, ZenonT(30) DEF AheadInv, FreshInv
    <3> QED
      BY <2>0, <3>2, <3>3, GoOn DEF Core
  <2> QED
    BY <2>1, <2>2
<1>2. CASE WithdrawEndpoint
  <2>0. w.pc = "withdraw" /\ UNCHANGED <<remote, managed>>
    BY <1>2 DEF WithdrawEndpoint, UnchangedRemote
  <2>1. CASE ~w.fresh
    BY <1>2, <2>0, <2>1, FailCore, SameObjects DEF WithdrawEndpoint, UpdateStatus
  <2>2. CASE w.fresh
    <3>1. /\ w' = At("cleanTLS")
          /\ obj'.active = w.active /\ obj'.target = w.target /\ obj'.endpoint = None
          /\ obj'.exists = obj.exists /\ obj'.finalizer = obj.finalizer
          /\ obj'.deleting = obj.deleting /\ obj'.ref = obj.ref
      BY <1>2, <2>2, ZenonT(30) DEF WithdrawEndpoint, UpdateStatus, Stored, TypeOK, Instances
    <3>2. Synced
      BY <2>0, <1>i DEF WorkerInv
    <3>3. ObjectsAreRecorded' /\ RecordInv'
      BY <2>0, <3>1, <3>2 DEF Core, ObjectsAreRecorded, RecordInv, ManagedLeft, RemoteLeft, Synced
    <3>4. WorkerInv'
      BY <2>0, <3>1, <3>2, <1>i, <1>at, <1>s, ZenonT(30)
      DEF WorkerInv, Synced, Provisioning, Cleaning
    <3>5. AheadInv' /\ FreshInv'
      BY <2>0, <2>2, <3>1, <1>i, <1>at, <1>s, ZenonT(30) DEF AheadInv, FreshInv
    <3> QED
      BY <3>3, <3>4, <3>5 DEF Core
  <2> QED
    BY <2>1, <2>2
<1>3. CASE CleanupManagedTLS
  <2>0. w.pc = "cleanTLS" /\ UNCHANGED <<obj, remote>> /\ w.target \in TargetIds
    BY <1>3, <1>i, ZenonT(30) DEF CleanupManagedTLS, WorkerInv, Cleaning
  <2>m. managed \in [TargetIds -> [ManagedKinds -> ObjectStates]]
    BY DEF TypeOK
  <2>1. ASSUME NEW k \in ManagedKinds, Fail,
               managed' = [managed EXCEPT ![w.target] = Deleted(k, managed[w.target])]
        PROVE  Core'
    <3>1. \A j \in ManagedKinds :
            (Deleted(k, managed[w.target])[j] = "absent") = (managed[w.target][j] = "absent")
      BY <2>0, <2>m, DeletedKeeps
    <3>2. NoneAppears
      BY <2>0, <2>m, <2>1, <3>1 DEF NoneAppears, ManagedLeft, RemoteLeft
    <3> QED
      BY <2>0, <2>1, <3>2, FailCore
  <2>2. CASE /\ managed[w.target]["DNS"] = "absent" /\ managed[w.target]["Certificate"] = "absent"
             /\ w' = At("cleanRemote") /\ UNCHANGED managed
    <3>1. ~ManagedLeft(w.target)
      BY <2>2 DEF ManagedLeft, ManagedKinds
    <3>a. /\ w'.pc = "cleanRemote" /\ w'.ref = w.ref /\ w'.active = w.active
          /\ w'.target = w.target /\ w'.api = w.api /\ w'.final = w.final
      BY <2>2, <1>at, <1>s
    <3>b. /\ obj.exists /\ obj.finalizer /\ Synced /\ (w.final => obj.deleting)
          /\ w.final \/ w.api \in Apis
          /\ w.final \/ obj.endpoint = None
      BY <2>0, <1>i DEF WorkerInv
    <3>c. Synced' /\ ~ManagedLeft(w.target)'
      BY <2>0, <2>2, <3>1, <3>a, <3>b DEF Synced, ManagedLeft
    <3>2. WorkerInv'
      BY <2>0, <3>a, <3>b, <3>c DEF WorkerInv, Provisioning, Cleaning
    <3>3. AheadInv' /\ FreshInv'
      BY <2>0, <2>2, <1>i, <1>at, <1>s, ZenonT(30) DEF AheadInv, FreshInv
    <3> QED
      BY <2>0, <2>2, <3>2, <3>3, GoOn, ZenonT(30) DEF Core
  <2>3. "DNS" \in ManagedKinds /\ "Certificate" \in ManagedKinds
    BY DEF ManagedKinds
  <2> QED
    BY <1>3, <2>1, <2>2, <2>3 DEF CleanupManagedTLS, Go
<1>4. CASE CleanupRemote
  <2> DEFINE a == IF w.final THEN cCreds ELSE w.api
  <2>0. w.pc = "cleanRemote" /\ UNCHANGED <<obj, managed>> /\ w.target \in TargetIds
    BY <1>4, <1>i, ZenonT(30) DEF CleanupRemote, WorkerInv, Cleaning
  <2>a. a \in Apis \cup {None}
    BY <1>w
  <2>r. remote \in [Apis -> [RemoteKinds -> ObjectStates]]
    BY DEF TypeOK
  <2>1. CASE Fail /\ UNCHANGED remote
    BY <2>0, <2>1, FailCore, SameObjects
  <2>2. ASSUME a \in Apis, Fail, NEW o \in [RemoteKinds -> ObjectStates],
               \A j \in RemoteKinds : (o[j] = "absent") = (remote[a][j] = "absent"),
               remote' = [remote EXCEPT ![a] = o]
        PROVE  Core'
    <3> HIDE DEF a
    <3>1. NoneAppears
      BY <2>0, <2>r, <2>2 DEF NoneAppears, ManagedLeft, RemoteLeft
    <3> QED
      BY <2>0, <2>2, <3>1, FailCore
  <2>3. ASSUME a \in Apis
        PROVE  LET D(k) == Deleted(k, remote[a])
                   DD == Deleted("Service", Deleted("Deployment", remote[a]))
               IN /\ D("TLS") \in [RemoteKinds -> ObjectStates]
                  /\ DD \in [RemoteKinds -> ObjectStates]
                  /\ \A j \in RemoteKinds : (D("TLS")[j] = "absent") = (remote[a][j] = "absent")
                  /\ \A j \in RemoteKinds : (DD[j] = "absent") = (remote[a][j] = "absent")
    <3>1. remote[a] \in [RemoteKinds -> ObjectStates]
      BY <2>r, <2>3
    <3>2. {"Service", "Deployment", "TLS"} = RemoteKinds /\ "absent" \in ObjectStates
      BY DEF RemoteKinds, ObjectStates
    <3> HIDE DEF a
    <3>3. /\ Deleted("Deployment", remote[a]) \in [RemoteKinds -> ObjectStates]
          /\ Deleted("TLS", remote[a]) \in [RemoteKinds -> ObjectStates]
      BY <3>1, <3>2, ObjectTypes, ZenonT(30)
    <3>4. Deleted("Service", Deleted("Deployment", remote[a])) \in [RemoteKinds -> ObjectStates]
      BY <3>2, <3>3, ObjectTypes, ZenonT(30)
    <3> QED
      BY <3>1, <3>2, <3>3, <3>4, DeletedKeeps
  <2>4. CASE /\ a # None /\ Identity(a) = w.target
             /\ \A k \in RemoteKinds : remote[a][k] = "absent"
             /\ w' = IF w.final THEN At("dropCreds")
                     ELSE [At("forget") EXCEPT !.active = None, !.target = None]
             /\ UNCHANGED remote
    <3>1. obj.target = w.target /\ w.target[1] = a /\ ~ManagedLeft(w.target)
      BY <2>0, <2>4, <1>i DEF WorkerInv, Synced, Identity
    <3>2. NothingLeft
      BY <2>4, <3>1 DEF NothingLeft, Core, ObjectsAreRecorded, RemoteLeft
    <3>3. w.active # None /\ Synced
      BY <2>0, <1>i, Targets DEF WorkerInv, RecordInv, Synced
    <3>4. CASE w.final
      <4>1. WorkerInv'
        BY <2>0, <2>4, <3>2, <3>3, <3>4, <1>i, <1>at, <1>s, GoOn, ZenonT(30)
        DEF WorkerInv, Synced, Provisioning, Cleaning
      <4>2. AheadInv' /\ FreshInv'
        BY <2>0, <2>4, <3>4, <1>i, <1>at, <1>s, ZenonT(30) DEF AheadInv, FreshInv
      <4> QED
        BY <2>0, <2>4, <4>1, <4>2, GoOn DEF Core
    <3>5. CASE ~w.final
      <4>0. /\ w'.pc = "forget" /\ w'.ref = w.ref /\ w'.active = None /\ w'.target = None
            /\ w'.fresh = w.fresh /\ w'.final = w.final
        BY <2>4, <3>5, <1>w DEF At, Workers
      <4>1. WorkerInv'
        BY <2>0, <2>4, <4>0, <3>2, <3>5, <1>i, GoOn DEF WorkerInv, Provisioning, Cleaning
      <4>2. AheadInv' /\ FreshInv'
        BY <2>0, <2>4, <4>0, <3>2, <3>3, <3>5, <1>i, GoOn
        DEF AheadInv, FreshInv, Forgetting, WorkerInv, Synced
      <4> QED
        BY <2>0, <2>4, <4>1, <4>2, GoOn DEF Core
    <3> QED
      BY <3>4, <3>5
  <2> DEFINE Workload == Deleted("Service", Deleted("Deployment", remote[a]))
             Route == Deleted("TLS", remote[a])
  <2>5. \/ Fail /\ UNCHANGED remote
        \/ a \in Apis /\ Fail /\ remote' = [remote EXCEPT ![a] = Workload]
        \/ a \in Apis /\ Fail /\ remote' = [remote EXCEPT ![a] = Route]
        \/ /\ a # None /\ Identity(a) = w.target
           /\ \A k \in RemoteKinds : remote[a][k] = "absent"
           /\ w' = IF w.final THEN At("dropCreds")
                   ELSE [At("forget") EXCEPT !.active = None, !.target = None]
           /\ UNCHANGED remote
    BY <1>4, <2>a, Zenon DEF CleanupRemote
  <2>6. ASSUME a \in Apis, Fail, remote' = [remote EXCEPT ![a] = Workload] PROVE Core'
    BY <2>2, <2>3, <2>6, ZenonT(30)
  <2>7. ASSUME a \in Apis, Fail, remote' = [remote EXCEPT ![a] = Route] PROVE Core'
    BY <2>2, <2>3, <2>7, ZenonT(30)
  <2> HIDE DEF a, Workload, Route
  <2> QED
    BY <2>1, <2>4, <2>5, <2>6, <2>7
<1> QED
  BY <1>1, <1>2, <1>3, <1>4

(* The end of a cleanup.                                                     *)
LEMMA ReleaseCore ==
  ASSUME TypeOK, Core, ForgetTarget \/ DeleteCachedCredentials \/ ReleaseInstance
  PROVE  Core'
<1>w. w \in Workers /\ w.ref \in Refs \cup {None}
  BY DEF TypeOK, Workers
<1>i. WorkerInv /\ RecordInv /\ FreshInv /\ AheadInv
  BY DEF Core
<1>at. \A p \in Steps : /\ At(p).pc = p /\ At(p).ref = w.ref /\ At(p).active = w.active
                        /\ At(p).target = w.target /\ At(p).api = w.api /\ At(p).id = w.id
                        /\ At(p).fresh = w.fresh /\ At(p).final = w.final
  BY <1>w DEF At, Workers
<1>s. {"dropCreds", "release", "connect", "hosted"} \subseteq Steps
  BY DEF Steps
<1>1. CASE ForgetTarget
  <2>0. w.pc = "forget" /\ UNCHANGED <<remote, managed>> /\ Forgetting /\ ~w.final
    BY <1>1, <1>i DEF ForgetTarget, UnchangedRemote, AheadInv, WorkerInv
  <2>1. CASE ~w.fresh
    BY <1>1, <2>0, <2>1, FailCore, SameObjects DEF ForgetTarget, UpdateStatus
  <2>2. CASE w.fresh
    <3>1. /\ w' = At("dropCreds")
          /\ obj'.active = None /\ obj'.target = None /\ obj'.endpoint = None
          /\ obj'.exists = obj.exists /\ obj'.finalizer = obj.finalizer
          /\ obj'.deleting = obj.deleting /\ obj'.ref = obj.ref
      BY <1>1, <2>0, <2>2, ZenonT(30)
      DEF ForgetTarget, UpdateStatus, Stored, TypeOK, Instances, Forgetting
    <3>2. NothingLeft'
      BY <2>0 DEF Forgetting, NothingLeft, ManagedLeft, RemoteLeft
    <3>3. ObjectsAreRecorded' /\ RecordInv'
      BY <3>1, <3>2 DEF ObjectsAreRecorded, NothingLeft, RecordInv
    <3>4. WorkerInv'
      BY <2>0, <3>1, <3>2, <1>i, <1>at, <1>s, ZenonT(30)
      DEF WorkerInv, Synced, Provisioning, Cleaning, Forgetting
    <3>5. AheadInv' /\ FreshInv'
      BY <2>0, <2>2, <3>1, <1>i, <1>at, <1>s, ZenonT(30) DEF AheadInv, FreshInv
    <3> QED
      BY <3>3, <3>4, <3>5 DEF Core
  <2> QED
    BY <2>1, <2>2
<1>2. CASE DeleteCachedCredentials
  <2>0. /\ w.pc = "dropCreds" /\ UNCHANGED <<obj, remote, managed>> /\ NothingLeft
        /\ w' = At(IF w.final THEN "release" ELSE IF w.ref # None THEN "connect" ELSE "hosted")
    BY <1>2, <1>i, ZenonT(30) DEF DeleteCachedCredentials, UnchangedRemote, WorkerInv, Go
  <2>1. WorkerInv'
    BY <2>0, <1>w, <1>i, <1>at, <1>s, GoOn, ZenonT(30) DEF WorkerInv, Synced, Provisioning, Cleaning
  <2>2. AheadInv' /\ FreshInv'
    BY <2>0, <1>i, <1>at, <1>s, ZenonT(30) DEF AheadInv, FreshInv
  <2> QED
    BY <2>0, <2>1, <2>2, GoOn DEF Core
<1>3. CASE ReleaseInstance
  <2>0. w.pc = "release" /\ UNCHANGED <<remote, managed>> /\ NothingLeft
    BY <1>3, <1>i DEF ReleaseInstance, UnchangedRemote, WorkerInv
  <2>1. CASE w.fresh
    <3>1. w' = Idle /\ ~obj'.exists /\ obj'.active = obj.active /\ obj'.target = obj.target
      BY <1>3, <2>1, ZenonT(30) DEF ReleaseInstance, TypeOK, Instances
    <3>2. ObjectsAreRecorded' /\ RecordInv'
      BY <2>0, <3>1, <1>i
      DEF ObjectsAreRecorded, NothingLeft, RecordInv, ManagedLeft, RemoteLeft
    <3> QED
      BY <3>1, <3>2, IdleCore
  <2>2. CASE ~w.fresh /\ w' = Idle
    BY <1>3, <2>0, <2>2, IdleCore, GoOn DEF ReleaseInstance
  <2>3. CASE ~w.fresh /\ w' = [w EXCEPT !.fresh = TRUE, !.tries = w.tries + 1]
    <3>1. /\ w'.pc = "release" /\ w'.active = w.active /\ w'.target = w.target
          /\ w'.ref = w.ref /\ w'.final = w.final /\ UNCHANGED obj
      BY <1>3, <2>0, <2>3, <1>w DEF ReleaseInstance, Workers
    <3>2. WorkerInv'
      BY <2>0, <3>1, <1>i, GoOn, ZenonT(30) DEF WorkerInv, Synced, Provisioning, Cleaning
    <3>3. AheadInv' /\ FreshInv'
      BY <3>1 DEF AheadInv, FreshInv
    <3> QED
      BY <2>0, <3>1, <3>2, <3>3, GoOn DEF Core
  <2> QED
    BY <1>3, <2>1, <2>2, <2>3 DEF ReleaseInstance
<1> QED
  BY <1>1, <1>2, <1>3

(* reconcileBYOC up to the record of the target.                             *)
LEMMA ConnectCore ==
  ASSUME TypeOK, Core, Connect \/ EnsureCachedCredentials \/ Activate
  PROVE  Core'
<1>w. /\ w \in Workers /\ w.ref \in Refs \cup {None} /\ w.target \in TargetIds \cup {None}
      /\ w.active \in Refs \cup {None}
      /\ src \in [Refs -> Apis \cup {None}] /\ uid \in [Apis -> 0 .. MaxUid]
  BY DEF TypeOK, Workers
<1>i. WorkerInv /\ RecordInv /\ FreshInv /\ AheadInv
  BY DEF Core
<1>at. \A p \in Steps : /\ At(p).pc = p /\ At(p).ref = w.ref /\ At(p).active = w.active
                        /\ At(p).target = w.target /\ At(p).api = w.api /\ At(p).id = w.id
                        /\ At(p).fresh = w.fresh /\ At(p).final = w.final
  BY <1>w DEF At, Workers
<1>s. {"service", "failed"} \subseteq Steps
  BY DEF Steps
<1>1. CASE Connect
  <2>0. w.pc = "connect" /\ UNCHANGED <<obj, remote, managed>> /\ w.ref \in Refs /\ ~w.final
    BY <1>1, <1>i DEF Connect, UnchangedRemote, WorkerInv
  <2>1. CASE Fail
    BY <2>0, <2>1, FailCore, SameObjects
  <2>2. CASE Go("failed")
    <3>1. Fail
      BY <2>0, <2>2 DEF Fail
    <3> QED
      BY <2>0, <3>1, FailCore, SameObjects
  <2>3. CASE ~Fail /\ ~Go("failed")
    <3>1. /\ src[w.ref] \in Apis /\ w.target \in {None, Identity(src[w.ref])}
          /\ w'.pc = "cacheCreds" /\ w'.api = src[w.ref] /\ w'.id = Identity(src[w.ref])
          /\ w'.ref = w.ref /\ w'.active = w.active /\ w'.target = w.target
          /\ w'.fresh = w.fresh /\ w'.final = w.final
      BY <1>1, <2>0, <2>3, <1>w, ZenonT(30) DEF Connect, At, Workers
    <3>2. w'.id \in TargetIds /\ w'.id[1] = w'.api
      BY <3>1, <1>w, Targets DEF Identity
    <3>3. WorkerInv'
      BY <2>0, <3>1, <3>2, <1>i, <1>w, GoOn, ZenonT(30)
      DEF WorkerInv, Synced, Provisioning, Cleaning
    <3>4. AheadInv' /\ FreshInv'
      BY <2>0, <3>1, <1>i, ZenonT(30) DEF AheadInv, FreshInv
    <3> QED
      BY <2>0, <3>3, <3>4, GoOn DEF Core
  <2> QED
    BY <2>1, <2>2, <2>3
<1>2. CASE EnsureCachedCredentials
  <2>0. w.pc = "cacheCreds" /\ UNCHANGED <<obj, remote, managed>> /\ w.ref \in Refs /\ ~w.final
    BY <1>2, <1>i DEF EnsureCachedCredentials, UnchangedRemote, WorkerInv
  <2>1. CASE Fail
    BY <2>0, <2>1, FailCore, SameObjects
  <2>2. CASE /\ w.active # w.ref \/ w.target = None
             /\ w' = [At("activate") EXCEPT !.active = w.ref, !.target = w.id]
    <3>1. /\ w'.pc = "activate" /\ w'.active = w.ref /\ w'.target = w.id
          /\ w'.ref = w.ref /\ w'.api = w.api /\ w'.id = w.id
          /\ w'.fresh = w.fresh /\ w'.final = w.final
      BY <2>2, <1>w DEF At, Workers
    <3>2. obj.active = None
      BY <2>0, <2>2, <1>i DEF WorkerInv, RecordInv, Synced
    <3>3. WorkerInv'
      BY <2>0, <3>1, <1>i, GoOn, ZenonT(30) DEF WorkerInv, Provisioning, Cleaning
    <3>4. AheadInv' /\ FreshInv'
      BY <2>0, <3>1, <3>2, <1>i, ZenonT(30) DEF AheadInv, FreshInv, Recording, WorkerInv
    <3> QED
      BY <2>0, <3>3, <3>4, GoOn DEF Core
  <2>3. CASE w.active = w.ref /\ w.target # None /\ w' = At("service")
    <3>a. /\ w'.pc = "service" /\ w'.ref = w.ref /\ w'.active = w.active
          /\ w'.target = w.target /\ w'.api = w.api /\ w'.id = w.id /\ w'.final = w.final
      BY <2>3, <1>at, <1>s
    <3>b. /\ obj.exists /\ obj.finalizer /\ Synced /\ w.target = w.id
          /\ w.api \in Apis /\ w.id \in TargetIds /\ w.id[1] = w.api
      BY <2>0, <2>3, <1>i, ZenonT(30) DEF WorkerInv
    <3>c. w.active # None /\ Synced'
      BY <2>0, <2>3, <3>a, <3>b, Targets DEF Synced
    <3>1. WorkerInv'
      BY <2>0, <3>a, <3>b, <3>c, ZenonT(30) DEF WorkerInv, Provisioning, Cleaning
    <3>2. AheadInv' /\ FreshInv'
      BY <2>0, <2>3, <1>i, <1>at, <1>s, ZenonT(30) DEF AheadInv, FreshInv
    <3> QED
      BY <2>0, <3>1, <3>2, GoOn DEF Core
  <2> QED
    BY <1>2, <2>1, <2>2, <2>3 DEF EnsureCachedCredentials
<1>3. CASE Activate
  <2>0. w.pc = "activate" /\ UNCHANGED <<remote, managed>> /\ Recording /\ w.target = w.id
    BY <1>3, <1>i, ZenonT(30) DEF Activate, UnchangedRemote, AheadInv
  <2>1. CASE ~w.fresh
    BY <1>3, <2>0, <2>1, FailCore, SameObjects DEF Activate, UpdateStatus
  <2>2. CASE w.fresh
    <3>1. /\ w' = At("service")
          /\ obj'.active = w.active /\ obj'.target = w.target /\ obj'.endpoint = None
          /\ obj'.exists = obj.exists /\ obj'.finalizer = obj.finalizer
          /\ obj'.deleting = obj.deleting /\ obj'.ref = obj.ref
      BY <1>3, <2>2, ZenonT(30) DEF Activate, UpdateStatus, Stored, TypeOK, Instances
    <3>2. w.active # None /\ w.target # None
      BY <2>0, Targets DEF Recording
    <3>f. obj.finalizer
      BY <2>0, <1>i DEF WorkerInv
    <3>3. ObjectsAreRecorded' /\ RecordInv'
      BY <2>0, <3>1, <3>2, <3>f
      DEF Core, Recording, ObjectsAreRecorded, RecordInv, ManagedLeft, RemoteLeft
    <3>4. WorkerInv'
      BY <2>0, <3>1, <3>2, <1>i, <1>at, <1>s, ZenonT(30)
      DEF WorkerInv, Synced, Provisioning, Cleaning
    <3>5. AheadInv' /\ FreshInv'
      BY <2>0, <2>2, <3>1, <1>i, <1>at, <1>s, ZenonT(30) DEF AheadInv, FreshInv
    <3> QED
      BY <3>3, <3>4, <3>5 DEF Core
  <2> QED
    BY <2>1, <2>2
<1> QED
  BY <1>1, <1>2, <1>3

(* reconcileBYOCWorkload creates objects of the recorded target only.        *)
LEMMA ProvisionCore ==
  ASSUME TypeOK, Core,
         ReconcileService \/ ReconcileCertificate \/ ReconcileDNS \/ ReconcileTLSSecret
         \/ ReconcileDeployment
  PROVE  Core'
<1>w. w \in Workers /\ managed \in [TargetIds -> [ManagedKinds -> ObjectStates]]
      /\ remote \in [Apis -> [RemoteKinds -> ObjectStates]]
  BY DEF TypeOK, Workers
<1>i. WorkerInv /\ RecordInv /\ FreshInv /\ AheadInv
  BY DEF Core
<1>at. \A p \in Steps : /\ At(p).pc = p /\ At(p).ref = w.ref /\ At(p).active = w.active
                        /\ At(p).target = w.target /\ At(p).api = w.api /\ At(p).id = w.id
                        /\ At(p).fresh = w.fresh /\ At(p).final = w.final
  BY <1>w DEF At, Workers
<1>s. Provisioning \subseteq Steps
  BY DEF Steps, Provisioning
<1>1. w.pc \in Provisioning
  BY DEF Provisioning, ReconcileService, ReconcileCertificate, ReconcileDNS,
     ReconcileTLSSecret, ReconcileDeployment
<1>2. /\ obj.exists /\ obj.finalizer /\ obj.active # None /\ obj.target = w.id
      /\ w.api \in Apis /\ w.id \in TargetIds /\ w.id[1] = w.api
  BY <1>1, <1>i, ZenonT(30) DEF WorkerInv, Provisioning, Synced
<1>3. ASSUME NEW p \in Provisioning, Go(p), UNCHANGED obj, ObjectsAreRecorded'
      PROVE  Core'
  <2>a. /\ w'.pc = p /\ w'.ref = w.ref /\ w'.active = w.active /\ w'.target = w.target
        /\ w'.api = w.api /\ w'.id = w.id /\ w'.final = w.final
    BY <1>3, <1>at, <1>s DEF Go
  <2>b. /\ obj.exists /\ obj.finalizer /\ Synced /\ ~w.final /\ w.ref \in Refs
        /\ w.api \in Apis /\ w.id \in TargetIds /\ w.id[1] = w.api
        /\ w.active # None /\ w.target = w.id
    BY <1>1, <1>i DEF WorkerInv, Provisioning
  <2>c. Synced' /\ obj'.exists /\ obj'.finalizer
    BY <1>3, <2>a, <2>b DEF Synced
  <2>1. WorkerInv'
    BY <1>3, <2>a, <2>b, <2>c, ZenonT(30) DEF WorkerInv, Provisioning, Cleaning
  <2>2. AheadInv' /\ FreshInv' /\ RecordInv'
    BY <1>1, <1>3, <1>i, <1>at, <1>s, ZenonT(30) DEF AheadInv, FreshInv, RecordInv, Go, Provisioning
  <2> QED
    BY <1>3, <2>1, <2>2 DEF Core
<1>4. ASSUME NEW k \in RemoteKinds, NEW s, NEW p \in Provisioning, CreateRemote(k, s, p)
      PROVE  Core'
  <2>1. \A a \in Apis : RemoteLeft(a)' => RemoteLeft(a) \/ a = w.api
    BY <1>4, <1>w DEF CreateRemote, RemoteLeft
  <2>2. ObjectsAreRecorded'
    BY <1>2, <1>4, <2>1 DEF Core, ObjectsAreRecorded, CreateRemote, ManagedLeft
  <2> QED
    BY <1>3, <1>4, <2>2 DEF CreateRemote
<1>5. ASSUME NEW k \in ManagedKinds, NEW p \in Provisioning, CreateManaged(k, p)
      PROVE  Core'
  <2>1. \A t \in TargetIds : ManagedLeft(t)' => ManagedLeft(t) \/ t = w.id
    BY <1>5, <1>w DEF CreateManaged, ManagedLeft
  <2>2. ObjectsAreRecorded'
    BY <1>2, <1>5, <2>1, ZenonT(30) DEF Core, ObjectsAreRecorded, CreateManaged, RemoteLeft
  <2> QED
    BY <1>3, <1>5, <2>2 DEF CreateManaged
<1>6. ASSUME GiveUp PROVE Core'
  BY <1>1, <1>6, FailCore, SameObjects DEF GiveUp, UnchangedRemote, Provisioning
<1>k. /\ {"Service", "Deployment", "TLS"} = RemoteKinds /\ {"DNS", "Certificate"} = ManagedKinds
      /\ {"certificate", "dns", "tls", "deployment", "readiness"} \subseteq Provisioning
  BY DEF RemoteKinds, ManagedKinds, Provisioning
<1>7. CASE ReconcileService
  BY <1>4, <1>6, <1>7, <1>k DEF ReconcileService
<1>8. CASE ReconcileCertificate
  BY <1>5, <1>6, <1>8, <1>k DEF ReconcileCertificate
<1>9. CASE ReconcileDNS
  BY <1>5, <1>6, <1>9, <1>k DEF ReconcileDNS
<1>10. CASE ReconcileTLSSecret
  BY <1>4, <1>6, <1>10, <1>k DEF ReconcileTLSSecret
<1>11. CASE ReconcileDeployment
  BY <1>4, <1>6, <1>11, <1>k DEF ReconcileDeployment
<1> QED
  BY <1>7, <1>8, <1>9, <1>10, <1>11

(* Cache, other controllers and the cluster's return.                        *)
LEMMA OthersCore ==
  ASSUME TypeOK, Core, Others
  PROVE  Core'
<1>w. managed \in [TargetIds -> [ManagedKinds -> ObjectStates]]
      /\ remote \in [Apis -> [RemoteKinds -> ObjectStates]]
  BY DEF TypeOK
<1>1. CASE SyncCreds \/ CollectCreds
  BY <1>1, QuietCore, SameObjects DEF SyncCreds, CollectCreds, UnchangedRemote
<1>2. ASSUME NEW a \in Apis, ClusterUp(a) PROVE Core'
  BY <1>2, QuietCore, SameObjects DEF ClusterUp
<1>3. ASSUME NEW a \in Apis, NEW k \in RemoteKinds, RemoteProgress(a, k) PROVE Core'
  <2>1. NoneAppears
    BY <1>3, <1>w DEF RemoteProgress, NoneAppears, RemoteLeft, ManagedLeft
  <2> QED
    BY <1>3, <2>1, QuietCore DEF RemoteProgress
<1>4. ASSUME NEW t \in TargetIds, NEW k \in ManagedKinds, ManagedProgress(t, k) PROVE Core'
  <2>1. NoneAppears
    BY <1>4, <1>w DEF ManagedProgress, NoneAppears, RemoteLeft, ManagedLeft
  <2> QED
    BY <1>4, <2>1, QuietCore DEF ManagedProgress
<1> QED
  BY <1>1, <1>2, <1>3, <1>4 DEF Others

(* The user changes what is asked for, never the record; the outdated copy   *)
(* of a handler at work is refused later.                                    *)
LEMMA UserCore ==
  ASSUME TypeOK, Core, User
  PROVE  Core'
<1>w. w \in Workers /\ obj \in Instances
  BY DEF TypeOK
<1>1. ASSUME NEW r, NEW a, SetKubeconfig(r, a) PROVE Core'
  BY <1>1, QuietCore, SameObjects DEF SetKubeconfig, UnchangedRemote
<1>2. ASSUME NEW o, EditInstance(o),
             /\ o.active = obj.active /\ o.target = obj.target /\ o.endpoint = obj.endpoint
             /\ o.finalizer = obj.finalizer /\ (obj.deleting => o.deleting)
             /\ o.exists = obj.exists \/ (o.exists = obj.finalizer)
      PROVE  Core'
  <2>1. /\ w'.pc = w.pc /\ w'.ref = w.ref /\ w'.active = w.active /\ w'.target = w.target
        /\ w'.api = w.api /\ w'.id = w.id /\ w'.final = w.final /\ ~w'.fresh
        /\ obj' = o /\ obj.exists /\ UNCHANGED <<remote, managed>>
    BY <1>2, <1>w DEF EditInstance, Workers, UnchangedRemote
  <2>2. /\ \A t \in TargetIds : ManagedLeft(t)' = ManagedLeft(t)
        /\ \A a \in Apis : RemoteLeft(a)' = RemoteLeft(a)
        /\ NothingLeft' = NothingLeft
    BY <2>1 DEF ManagedLeft, RemoteLeft, NothingLeft
  <2>3. ObjectsAreRecorded' /\ RecordInv'
    BY <1>2, <2>1, <2>2, ZenonT(30) DEF Core, ObjectsAreRecorded, RecordInv
  <2>4. WorkerInv'
    <3>1. obj.finalizer => o.exists
      BY <1>2, <2>1, ZenonT(30) DEF EditInstance
    <3>2. w.pc = "cleanRemote" => ~ManagedLeft(w.target)'
      BY <2>1, <2>2, ZenonT(30) DEF Core, WorkerInv, Cleaning
    <3>3. w.pc \in {"forget", "dropCreds", "release"} => NothingLeft'
      BY <2>2, ZenonT(30) DEF Core, WorkerInv
    <3>4. Synced => Synced'
      BY <1>2, <2>1, ZenonT(30) DEF Synced
    <3>5. /\ obj.finalizer => obj'.finalizer /\ obj'.exists
          /\ obj.deleting => obj'.deleting
          /\ obj'.endpoint = obj.endpoint
      BY <1>2, <2>1, <3>1
    <3>6. WorkerInv
      BY DEF Core
    <3>7. /\ w.pc \notin {"idle", "reject", "finalizer"} => obj'.exists /\ obj'.finalizer
          /\ w.pc \notin {"idle", "forget", "activate", "failed"} => Synced'
          /\ w.pc # "idle" /\ w.final => obj'.deleting
          /\ w.pc \in {"cleanTLS", "cleanRemote", "forget"} => w.final \/ obj'.endpoint = None
      BY <3>4, <3>5, <3>6, ZenonT(30) DEF WorkerInv
    <3>8. /\ w'.pc \in {"idle", "cleanTLS", "cleanRemote", "dropCreds", "release"} \/ ~w'.final
          /\ w'.pc = "release" => w'.final
          /\ w'.pc \in Cleaning => w'.target \in TargetIds
          /\ w'.pc \in {"withdraw", "cleanTLS", "cleanRemote"} => w'.final \/ w'.api \in Apis
          /\ w'.pc = "hosted" => w'.ref = None /\ w'.active = None
          /\ w'.pc = "dropCreds" => w'.final \/ w'.active = None
      BY <2>1, <3>6, ZenonT(30) DEF WorkerInv
    <3>9. /\ w'.pc \in {"connect", "cacheCreds", "activate"} \cup Provisioning => w'.ref \in Refs
          /\ w'.pc \in {"connect", "cacheCreds"} => w'.active \in {None, w'.ref}
          /\ w'.pc \in {"cacheCreds", "activate"} \cup Provisioning =>
               w'.api \in Apis /\ w'.id \in TargetIds /\ w'.id[1] = w'.api
          /\ w'.pc = "cacheCreds" => w'.target \in {None, w'.id}
          /\ w'.pc \in Provisioning => w'.active # None /\ w'.target = w'.id
      BY <2>1, <3>6, ZenonT(30) DEF WorkerInv
    <3> QED
      BY <2>1, <3>2, <3>3, <3>7, <3>8, <3>9, ZenonT(30) DEF WorkerInv, Cleaning, Provisioning
  <2>5. AheadInv' /\ FreshInv'
    BY <1>2, <2>1, <2>2, ZenonT(30) DEF Core, AheadInv, FreshInv, Synced, Forgetting, Recording
  <2> QED
    BY <2>3, <2>4, <2>5 DEF Core
<1>3. ASSUME NEW r, SetClusterRef(r) PROVE Core'
  <2> DEFINE o == [obj EXCEPT !.ref = r, !.observed = FALSE]
  <2>1. /\ o.active = obj.active /\ o.target = obj.target /\ o.endpoint = obj.endpoint
        /\ o.finalizer = obj.finalizer /\ o.deleting = obj.deleting /\ o.exists = obj.exists
    BY <1>w DEF Instances
  <2>2. EditInstance(o)
    BY <1>3 DEF SetClusterRef
  <2> HIDE DEF o
  <2> QED
    BY <1>2, <2>1, <2>2
<1>4. CASE SetModelSettings
  <2> DEFINE o == [obj EXCEPT !.valid = ~@, !.observed = FALSE]
  <2>1. /\ o.active = obj.active /\ o.target = obj.target /\ o.endpoint = obj.endpoint
        /\ o.finalizer = obj.finalizer /\ o.deleting = obj.deleting /\ o.exists = obj.exists
    BY <1>w DEF Instances
  <2>2. EditInstance(o)
    BY <1>4 DEF SetModelSettings
  <2> HIDE DEF o
  <2> QED
    BY <1>2, <2>1, <2>2
<1>5. CASE DeleteInstance
  <2> DEFINE o == [obj EXCEPT !.deleting = TRUE, !.exists = obj.finalizer, !.observed = FALSE]
  <2>1. /\ o.active = obj.active /\ o.target = obj.target /\ o.endpoint = obj.endpoint
        /\ o.finalizer = obj.finalizer /\ o.deleting /\ o.exists = obj.finalizer
    BY <1>w DEF Instances
  <2>2. EditInstance(o)
    BY <1>5 DEF DeleteInstance
  <2> HIDE DEF o
  <2> QED
    BY <1>2, <2>1, <2>2
<1> QED
  BY <1>1, <1>3, <1>4, <1>5 DEF User

(* A crash loses the handler's copy, a replaced cluster its objects.         *)
LEMMA FailuresCore ==
  ASSUME TypeOK, Core, Failures
  PROVE  Core'
<1>1. CASE Restart
  BY <1>1, GoOn, IdleCore DEF Restart, UnchangedRemote
<1>2. CASE CallFails
  BY <1>2, FailCore, SameObjects DEF CallFails, UnchangedRemote
<1>3. ASSUME NEW a \in Apis, ClusterDown(a) PROVE Core'
  BY <1>3, QuietCore, SameObjects DEF ClusterDown
<1>4. ASSUME NEW a \in Apis, ReplaceCluster(a) PROVE Core'
  <2>1. NoneAppears
    BY <1>4 DEF ReplaceCluster, NoneAppears, RemoteLeft, ManagedLeft, TypeOK
  <2> QED
    BY <1>4, <2>1, QuietCore DEF ReplaceCluster
<1> QED
  BY <1>1, <1>2, <1>3, <1>4 DEF Failures

(* A new instance has no record and no endpoint.                             *)
LEMMA NewInstance ==
  ASSUME Init
  PROVE  /\ obj.exists /\ ~obj.deleting /\ obj.active = None /\ obj.target = None
         /\ obj.endpoint = None /\ w = Idle
<1>1. PICK r : obj = [exists |-> TRUE, deleting |-> FALSE, finalizer |-> FALSE,
                      valid |-> TRUE, ref |-> r, active |-> None, target |-> None,
                      endpoint |-> None, observed |-> FALSE]
  BY Zenon DEF Init
<1>2. w = Idle
  BY Zenon DEF Init
<1> QED
  BY <1>1, <1>2

(* The initial state satisfies the invariant.                                *)
LEMMA InitIInv == Init => IInv
<1> SUFFICES ASSUME Init PROVE IInv
  OBVIOUS
<1>1. ObjectsAreRecorded
  BY DEF Init, ObjectsAreRecorded, ManagedLeft, RemoteLeft
<1>2. w = Idle /\ RecordInv
  BY NewInstance, ZenonT(30) DEF RecordInv
<1>3. WorkerInv /\ AheadInv /\ FreshInv
  BY <1>2 DEF WorkerInv, AheadInv, FreshInv, Idle, Provisioning, Cleaning
<1> QED
  BY <1>1, <1>2, <1>3, InitType DEF IInv, Core

(* Every step keeps the invariant.                                           *)
LEMMA StepIInv == IInv /\ [Next]_vars => IInv'
<1> SUFFICES ASSUME IInv, [Next]_vars PROVE IInv'
  OBVIOUS
<1>0. TypeOK /\ Core
  BY DEF IInv
<1>1. CASE UNCHANGED vars
  <2>1. TypeOK' /\ UidBound'
    BY <1>1 DEF vars, IInv, TypeOK, UidBound
  <2>2. Core'
    BY <1>0, <1>1, QuietCore, SameObjects DEF vars
  <2> QED
    BY <2>1, <2>2 DEF IInv
<1>2. CASE Next
  <2>1. ASSUME Controller PROVE Core'
    BY <1>0, <2>1, DispatchCore, CleanupCore, ReleaseCore, ConnectCore, ProvisionCore
    DEF Controller
  <2>2. Core'
    BY <1>0, <1>2, <2>1, OthersCore, UserCore, FailuresCore DEF Next
  <2> QED
    BY <1>2, <2>2, StepType DEF IInv
<1> QED
  BY <1>1, <1>2

(* IInv holds in every state of the lifecycle.                               *)
LEMMA Inductive == Spec => []IInv
BY InitIInv, StepIInv, PTL DEF Spec

-----------------------------------------------------------------------------
(* Results.                                                                  *)

(* The state is well typed whatever the user and the failures do.            *)
THEOREM TypeCorrect == Spec => []TypeOK
BY Inductive, PTL DEF IInv

(* Nothing is left behind: every object of an instance, on a customer        *)
(* cluster or for one in the operator's cluster, belongs to the target that  *)
(* the instance still records under its finalizer.                           *)
THEOREM NothingLeftBehind == Spec => []ObjectsAreRecorded
BY Inductive, PTL DEF IInv, Core

(* Only cleanupBYOC's deletion of the remote objects takes any of them down. *)
LEMMA OnlyCleanupTakesDown ==
  ASSUME TypeOK, Next, NEW a \in Apis, NEW k \in RemoteKinds, TakeDown(a, k)
  PROVE  CleanupRemote
<1>r. remote \in [Apis -> [RemoteKinds -> ObjectStates]]
  BY DEF TypeOK
<1>1. remote[a][k] \in {"pending", "ready"} /\ remote'[a][k] \in {"aborted", "deleting"}
  BY DEF TakeDown, Alive, Deleting
<1>2. remote' # remote
  BY <1>1
<1>3. ASSUME NEW j, NEW s, NEW p, CreateRemote(j, s, p) PROVE FALSE
  BY <1>1, <1>3, <1>r DEF CreateRemote, Created
<1>4. ASSUME NEW j, NEW p, CreateManaged(j, p) PROVE FALSE
  BY <1>2, <1>4 DEF CreateManaged
<1>5. ~GiveUp
  BY <1>2 DEF GiveUp, UnchangedRemote
<1>6. ~ReconcileService /\ ~ReconcileTLSSecret /\ ~ReconcileDeployment
  BY <1>3, <1>5, ZenonT(30) DEF ReconcileService, ReconcileTLSSecret, ReconcileDeployment
<1>7. ~ReconcileCertificate /\ ~ReconcileDNS
  BY <1>4, <1>5, ZenonT(30) DEF ReconcileCertificate, ReconcileDNS
<1>8. /\ ~Reconcile /\ ~RejectModelSettings /\ ~EnsureFinalizer /\ ~FailStatus
      /\ ~CheckTarget /\ ~WithdrawEndpoint /\ ~CleanupManagedTLS
  BY <1>2 DEF Reconcile, RejectModelSettings, EnsureFinalizer, FailStatus, CheckTarget,
     WithdrawEndpoint, CleanupManagedTLS, UnchangedRemote
<1>9. /\ ~ForgetTarget /\ ~DeleteCachedCredentials /\ ~ReleaseInstance /\ ~Connect
      /\ ~EnsureCachedCredentials /\ ~Activate /\ ~EvaluateReadiness /\ ~ReconcileHosted
  BY <1>2 DEF ForgetTarget, DeleteCachedCredentials, ReleaseInstance, Connect,
     EnsureCachedCredentials, Activate, EvaluateReadiness, ReconcileHosted, UnchangedRemote
<1>10. ASSUME NEW b \in Apis, NEW j \in RemoteKinds, RemoteProgress(b, j) PROVE FALSE
  BY <1>1, <1>10, <1>r DEF RemoteProgress, Progress, Deleting
<1>11. ~Others
  BY <1>2, <1>10 DEF Others, SyncCreds, CollectCreds, ClusterUp, ManagedProgress, UnchangedRemote
<1>12. ~User
  BY <1>2, ZenonT(30) DEF User, SetClusterRef, SetModelSettings, DeleteInstance, SetKubeconfig,
     EditInstance, UnchangedRemote
<1>13. ASSUME NEW b \in Apis, ReplaceCluster(b) PROVE FALSE
  BY <1>1, <1>13, <1>r DEF ReplaceCluster
<1>14. ~Failures
  BY <1>2, <1>13 DEF Failures, Restart, CallFails, ClusterDown, UnchangedRemote
<1> QED
  BY <1>6, <1>7, <1>8, <1>9, <1>11, <1>12, <1>14 DEF Next, Controller

(* Cleanup takes nothing down on the customer's cluster before a live        *)
(* instance has its endpoint withdrawn and the DNSEntry and Certificate of   *)
(* the target are gone.                                                      *)
THEOREM TeardownOrdered == Spec => TeardownInOrder
<1> DEFINE Ordered == \A a \in Apis, k \in RemoteKinds : TakeDown(a, k) =>
                        /\ obj.deleting \/ obj.endpoint = None
                        /\ obj.target = Identity(a) /\ ~ManagedLeft(Identity(a))
<1>1. IInv /\ [Next]_vars => [Ordered]_vars
  <2> SUFFICES ASSUME IInv, Next, NEW a \in Apis, NEW k \in RemoteKinds, TakeDown(a, k)
               PROVE  /\ obj.deleting \/ obj.endpoint = None
                      /\ obj.target = Identity(a) /\ ~ManagedLeft(Identity(a))
    OBVIOUS
  <2>1. TypeOK /\ WorkerInv
    BY DEF IInv, Core
  <2>2. CleanupRemote
    BY <2>1, OnlyCleanupTakesDown
  <2>3. remote'[a][k] # remote[a][k] /\ remote \in [Apis -> [RemoteKinds -> ObjectStates]]
    BY <2>1 DEF TakeDown, Alive, Deleting, TypeOK
  <2>4. Identity(a) = w.target
    BY <2>2, <2>3 DEF CleanupRemote
  <2>5. /\ w.pc = "cleanRemote" /\ obj.target = w.target /\ ~ManagedLeft(w.target)
        /\ obj.deleting \/ obj.endpoint = None
    BY <2>1, <2>2 DEF CleanupRemote, WorkerInv, Synced
  <2> QED
    BY <2>4, <2>5
<1> QED
  BY <1>1, Inductive, PTL DEF Spec, TeardownInOrder

-----------------------------------------------------------------------------
(* The credentials of a cluster outlive the objects on it.                   *)

(* From the moment ensureCachedCredentials has succeeded to the end of the   *)
(* pass, the copy reaches the cluster that is provisioned.                   *)
Holding == {"activate"} \cup Provisioning

CredentialsInv ==
  /\ CredentialsKept
  /\ w.pc \in Holding => creds = w.api \/ misled

(* The worker comes to hold credentials in ensureCachedCredentials only, and *)
(* keeps to their cluster.                                                   *)
LEMMA HoldingSteps ==
  ASSUME TypeOK, Next, w'.pc \in Holding, ~EnsureCachedCredentials
  PROVE  w.pc \in Holding /\ w'.api = w.api
<1>1. w \in Workers
  BY DEF TypeOK
<1>2. ASSUME NEW p
      PROVE  At(p).pc = p /\ At(p).api = w.api
  BY <1>1 DEF At, Workers
<1>3. ~Fail /\ w' # Idle
  <2>1. Idle.pc \notin Holding
    BY DEF Idle, Holding, Provisioning
  <2>2. "failed" \notin Holding
    BY DEF Holding, Provisioning
  <2> QED
    BY <1>2, <2>1, <2>2, ZenonT(30) DEF Fail, Go
<1>4. ASSUME NEW p \in {"cleanTLS", "dropCreds", "connect", "hosted", "release",
                        "cleanRemote", "failed"}
      PROVE  w' # At(p)
  <2>1. p \notin Holding
    BY DEF Holding, Provisioning
  <2> QED
    BY <1>2, <2>1, ZenonT(30)
<1>5. CASE Controller
  <2>1. ~Reconcile
    <3>1. \A p : [Idle EXCEPT !.pc = p, !.ref = obj.ref, !.active = obj.active,
                       !.target = obj.target, !.fresh = TRUE, !.final = obj.deleting].pc = p
      BY DEF Idle
    <3>2. Reconcile => w'.pc \in {"idle", "cleanTLS", "release", "reject", "finalizer",
                                  "changed", "connect", "hosted"}
      BY <3>1 DEF Reconcile
    <3> QED
      BY <3>2 DEF Holding, Provisioning
  <2>2. /\ ~RejectModelSettings /\ ~EnsureFinalizer /\ ~FailStatus
        /\ ~WithdrawEndpoint /\ ~ForgetTarget /\ ~ReconcileHosted
    BY <1>3, <1>4, ZenonT(30) DEF RejectModelSettings, EnsureFinalizer, FailStatus,
       WithdrawEndpoint, ForgetTarget, ReconcileHosted, UpdateStatus
  <2>3. ~CheckTarget
    <3>1. ASSUME NEW p \in {"connect", "withdraw"}
          PROVE  w' # [w EXCEPT !.api = cCreds, !.pc = p]
      BY <1>1, ZenonT(30) DEF Workers, Holding, Provisioning
    <3> QED
      BY <1>3, <3>1, ZenonT(30) DEF CheckTarget
  <2>4. ~CleanupManagedTLS /\ ~DeleteCachedCredentials
    BY <1>3, <1>4 DEF CleanupManagedTLS, DeleteCachedCredentials, Go
  <2>5. ~CleanupRemote
    <3>1. w' # [At("forget") EXCEPT !.active = None, !.target = None]
      BY <1>1, ZenonT(30) DEF At, Workers, Holding, Provisioning
    <3>2. ASSUME CleanupRemote
          PROVE  Fail \/ w' \in {At("dropCreds"),
                                 [At("forget") EXCEPT !.active = None, !.target = None]}
      BY <3>2, ZenonT(30) DEF CleanupRemote
    <3> QED
      BY <1>3, <1>4, <3>1, <3>2, ZenonT(30)
  <2>6. ~ReleaseInstance
    <3>1. w.pc = "release" => w' # [w EXCEPT !.fresh = TRUE, !.tries = w.tries + 1]
      BY <1>1, ZenonT(30) DEF Workers, Holding, Provisioning
    <3> QED
      BY <1>3, <3>1, ZenonT(30) DEF ReleaseInstance
  <2>7. ~Connect
    <3>1. ASSUME NEW a, NEW i
          PROVE  w' # [At("cacheCreds") EXCEPT !.api = a, !.id = i]
      BY <1>1, ZenonT(30) DEF At, Workers, Holding, Provisioning
    <3> QED
      BY <1>3, <1>4, <3>1, ZenonT(30) DEF Connect, Go
  <2>8. ASSUME Activate
        PROVE  w.pc \in Holding /\ w'.api = w.api
    <3>1. w.pc = "activate" /\ w' = At("service")
      BY <1>3, <2>8, ZenonT(30) DEF Activate, UpdateStatus
    <3> QED
      BY <1>2, <3>1 DEF Holding
  <2>9. ASSUME \/ ReconcileService \/ ReconcileCertificate \/ ReconcileDNS
               \/ ReconcileTLSSecret \/ ReconcileDeployment
        PROVE  w.pc \in Holding /\ w'.api = w.api
    <3>1. w.pc \in Provisioning
      BY <2>9 DEF ReconcileService, ReconcileCertificate, ReconcileDNS,
         ReconcileTLSSecret, ReconcileDeployment, Provisioning
    <3>2. \E p : w' = At(p)
      BY <1>3, <2>9, ZenonT(30) DEF ReconcileService, ReconcileCertificate, ReconcileDNS,
         ReconcileTLSSecret, ReconcileDeployment, CreateRemote, CreateManaged, GiveUp, Go
    <3> QED
      BY <1>2, <3>1, <3>2 DEF Holding
  <2>10. ~EvaluateReadiness
    BY <1>3, ZenonT(30) DEF EvaluateReadiness, UpdateStatus
  <2> QED
    BY <1>5, <2>1, <2>2, <2>3, <2>4, <2>5, <2>6, <2>7, <2>8, <2>9, <2>10, ZenonT(30)
       DEF Controller
<1>6. CASE w' = w \/ w' = [w EXCEPT !.fresh = FALSE]
  BY <1>1, <1>6 DEF Workers
<1>7. CASE Others
  BY <1>6, <1>7, ZenonT(30) DEF Others, SyncCreds, CollectCreds, ClusterUp, RemoteProgress,
     ManagedProgress
<1>8. CASE User
  BY <1>6, <1>8, ZenonT(30) DEF User, SetClusterRef, SetModelSettings, DeleteInstance,
     EditInstance, SetKubeconfig
<1>9. CASE Failures
  BY <1>3, <1>6, <1>9, ZenonT(30) DEF Failures, Restart, CallFails, ClusterDown,
     ReplaceCluster
<1> QED
  BY <1>5, <1>7, <1>8, <1>9 DEF Next

(* Objects appear on the cluster that is provisioned only.                   *)
LEMMA RemoteAppears ==
  ASSUME TypeOK, Next, NEW a \in Apis, RemoteLeft(a)', ~RemoteLeft(a)
  PROVE  a = w.api /\ w.pc \in Provisioning
<1>1. remote \in [Apis -> [RemoteKinds -> ObjectStates]]
  BY DEF TypeOK
<1>2. PICK k \in RemoteKinds : remote'[a][k] # "absent" /\ remote[a][k] = "absent"
  BY ZenonT(30) DEF RemoteLeft
<1>3. remote' # remote
  BY <1>2
<1>4. ASSUME NEW j, NEW s, NEW p, CreateRemote(j, s, p) PROVE a = w.api
  BY <1>1, <1>2, <1>4 DEF CreateRemote
<1>5. ASSUME NEW j, NEW p, CreateManaged(j, p) PROVE FALSE
  BY <1>3, <1>5, ZenonT(30) DEF CreateManaged
<1>6. ~GiveUp
  BY <1>3, ZenonT(30) DEF GiveUp, UnchangedRemote
<1>7. ASSUME ReconcileService \/ ReconcileTLSSecret \/ ReconcileDeployment
      PROVE  a = w.api /\ w.pc \in Provisioning
  <2>1. \E j, s, p : CreateRemote(j, s, p)
    BY <1>6, <1>7, ZenonT(30) DEF ReconcileService, ReconcileTLSSecret, ReconcileDeployment
  <2>2. w.pc \in Provisioning
    BY <1>7, ZenonT(30) DEF ReconcileService, ReconcileTLSSecret, ReconcileDeployment,
       Provisioning
  <2> QED
    BY <1>4, <2>1, <2>2
<1>8. ~ReconcileCertificate /\ ~ReconcileDNS
  BY <1>5, <1>6, ZenonT(30) DEF ReconcileCertificate, ReconcileDNS
<1>9. /\ ~Reconcile /\ ~RejectModelSettings /\ ~EnsureFinalizer /\ ~FailStatus
      /\ ~CheckTarget /\ ~WithdrawEndpoint /\ ~CleanupManagedTLS
  BY <1>3, ZenonT(30) DEF Reconcile, RejectModelSettings, EnsureFinalizer, FailStatus,
     CheckTarget, WithdrawEndpoint, CleanupManagedTLS, UnchangedRemote
<1>10. /\ ~ForgetTarget /\ ~DeleteCachedCredentials /\ ~ReleaseInstance /\ ~Connect
       /\ ~EnsureCachedCredentials /\ ~Activate /\ ~EvaluateReadiness /\ ~ReconcileHosted
  BY <1>3, ZenonT(30) DEF ForgetTarget, DeleteCachedCredentials, ReleaseInstance, Connect,
     EnsureCachedCredentials, Activate, EvaluateReadiness, ReconcileHosted, UnchangedRemote
<1>11. ~CleanupRemote
  <2>1. \A b : remote' # [remote EXCEPT ![b] =
                            Deleted("Service", Deleted("Deployment", remote[b]))]
    BY <1>1, <1>2 DEF Deleted
  <2>2. \A b : remote' # [remote EXCEPT ![b] = Deleted("TLS", remote[b])]
    BY <1>1, <1>2 DEF Deleted
  <2> QED
    BY <1>3, <2>1, <2>2, ZenonT(30) DEF CleanupRemote
<1>12. ASSUME NEW b \in Apis, NEW j \in RemoteKinds, RemoteProgress(b, j) PROVE FALSE
  BY <1>1, <1>2, <1>12 DEF RemoteProgress
<1>13. ~Others
  BY <1>3, <1>12, ZenonT(30) DEF Others, SyncCreds, CollectCreds, ClusterUp,
     ManagedProgress, UnchangedRemote
<1>14. ~User
  BY <1>3, ZenonT(30) DEF User, SetClusterRef, SetModelSettings, DeleteInstance,
     SetKubeconfig, EditInstance, UnchangedRemote
<1>15. ASSUME NEW b \in Apis, ReplaceCluster(b) PROVE FALSE
  BY <1>1, <1>2, <1>15 DEF ReplaceCluster
<1>16. ~Failures
  BY <1>3, <1>15, ZenonT(30) DEF Failures, Restart, CallFails, ClusterDown, UnchangedRemote
<1> QED
  BY <1>7, <1>8, <1>9, <1>10, <1>11, <1>13, <1>14, <1>16, ZenonT(30) DEF Next, Controller

(* The copy is written by ensureCachedCredentials, dropped by the cleanup    *)
(* and collected after the instance.                                         *)
LEMMA CredentialSteps ==
  ASSUME Next
  PROVE  \/ UNCHANGED <<creds, misled>>
         \/ EnsureCachedCredentials
         \/ (DeleteCachedCredentials \/ CollectCreds) /\ misled' = misled
<1>1. ASSUME Controller
      PROVE  UnchangedSecrets \/ EnsureCachedCredentials \/ DeleteCachedCredentials
  BY <1>1, ZenonT(30) DEF Controller, Reconcile, RejectModelSettings, EnsureFinalizer,
     FailStatus, CheckTarget, WithdrawEndpoint, CleanupManagedTLS, CleanupRemote,
     ForgetTarget, ReleaseInstance, Connect, Activate, ReconcileService,
     ReconcileCertificate, ReconcileDNS, ReconcileTLSSecret, ReconcileDeployment,
     EvaluateReadiness, ReconcileHosted, CreateRemote, CreateManaged, GiveUp
<1>2. ASSUME Others \/ User \/ Failures
      PROVE  UNCHANGED <<creds, misled>> \/ CollectCreds
  BY <1>2, ZenonT(30) DEF Others, SyncCreds, ClusterUp, RemoteProgress, ManagedProgress,
     User, SetClusterRef, SetModelSettings, DeleteInstance, EditInstance, SetKubeconfig,
     Failures, Restart, CallFails, ClusterDown, ReplaceCluster, UnchangedSecrets
<1>3. DeleteCachedCredentials \/ CollectCreds => misled' = misled
  BY ZenonT(30) DEF DeleteCachedCredentials, CollectCreds, WriteCreds, UnchangedSecrets
<1> QED
  BY <1>1, <1>2, <1>3, ZenonT(30) DEF Next, UnchangedSecrets

(* ensureCachedCredentials leaves a copy that reaches the cluster or knows   *)
(* that the cache misled it.  Objects that are there already are those of    *)
(* the target the copy was checked against.                                  *)
LEMMA EnsureCredentials ==
  ASSUME IInv, CredentialsInv, EnsureCachedCredentials
  PROVE  CredentialsInv'
<1>1. w \in Workers /\ w.pc = "cacheCreds" /\ UNCHANGED <<obj, remote>>
  BY ZenonT(30) DEF IInv, TypeOK, EnsureCachedCredentials, UnchangedRemote
<1>2. CASE UnchangedSecrets /\ Fail
  <2>1. CredentialsKept'
    BY <1>1, <1>2 DEF CredentialsInv, CredentialsKept, RemoteLeft, UnchangedSecrets
  <2>2. w'.pc \notin Holding
    BY <1>1, <1>2 DEF Fail, Go, At, Idle, Workers, Holding, Provisioning
  <2> QED
    BY <2>1, <2>2 DEF CredentialsInv
<1>3. CASE ~(UnchangedSecrets /\ Fail)
  <2>1. creds' = w.api \/ misled'
    BY <1>3, ZenonT(30) DEF EnsureCachedCredentials, WriteCreds
  <2>2. misled => misled'
    BY <1>3, ZenonT(30) DEF EnsureCachedCredentials, WriteCreds
  <2>3. w'.api = w.api
    <3>1. \/ w' = [At("activate") EXCEPT !.active = w.ref, !.target = w.id]
          \/ w' = At("service")
      BY <1>3, ZenonT(30) DEF EnsureCachedCredentials
    <3> QED
      BY <1>1, <3>1, ZenonT(30) DEF At, Workers
  <2>4. ASSUME NEW a \in Apis, RemoteLeft(a) PROVE a = w.api
    <3>1. obj.active # None /\ obj.target[1] = a
      BY <2>4, ZenonT(30) DEF IInv, Core, ObjectsAreRecorded
    <3>2. obj.target # None
      BY <3>1 DEF IInv, Core, RecordInv
    <3>3. obj.target \in {None, w.id} /\ w.id[1] = w.api
      <4>1. WorkerInv
        BY DEF IInv, Core
      <4> QED
        BY <1>1, <4>1 DEF WorkerInv, Synced
    <3> QED
      BY <3>1, <3>2, <3>3
  <2>5. CredentialsKept'
    BY <1>1, <2>1, <2>4, ZenonT(30) DEF CredentialsKept, RemoteLeft
  <2> QED
    BY <2>1, <2>3, <2>5, ZenonT(30) DEF CredentialsInv
<1> QED
  BY <1>2, <1>3

(* Every step keeps the credentials.                                         *)
LEMMA StepCredentials ==
  ASSUME IInv, CredentialsInv, [Next]_vars
  PROVE  CredentialsInv'
<1>1. CASE UNCHANGED vars
  BY <1>1 DEF vars, CredentialsInv, CredentialsKept, RemoteLeft
<1>2. CASE Next /\ UNCHANGED <<creds, misled>> /\ ~EnsureCachedCredentials
  <2>1. w'.pc \in Holding => creds' = w'.api \/ misled'
    BY <1>2, HoldingSteps, ZenonT(30) DEF CredentialsInv, IInv
  <2>2. ASSUME NEW a \in Apis, RemoteLeft(a)' PROVE creds' = a \/ misled'
    <3>1. CASE RemoteLeft(a)
      BY <1>2, <3>1, ZenonT(30) DEF CredentialsInv, CredentialsKept
    <3>2. CASE ~RemoteLeft(a)
      <4>1. a = w.api /\ w.pc \in Holding
        BY <1>2, <2>2, <3>2, RemoteAppears, ZenonT(30) DEF IInv, Holding
      <4> QED
        BY <1>2, <4>1, ZenonT(30) DEF CredentialsInv
    <3> QED
      BY <3>1, <3>2
  <2> QED
    BY <2>1, <2>2, ZenonT(30) DEF CredentialsInv, CredentialsKept
<1>3. CASE EnsureCachedCredentials
  BY <1>3, EnsureCredentials
<1>4. CASE Next /\ (DeleteCachedCredentials \/ CollectCreds) /\ misled' = misled
  <2>1. ASSUME NEW a \in Apis PROVE ~RemoteLeft(a)
    <3>1. CASE DeleteCachedCredentials
      BY <3>1, ZenonT(30) DEF DeleteCachedCredentials, IInv, Core, WorkerInv, NothingLeft
    <3>2. CASE CollectCreds
      BY <3>2, ZenonT(30) DEF CollectCreds, IInv, Core, ObjectsAreRecorded
    <3> QED
      BY <1>4, <3>1, <3>2
  <2>2. UNCHANGED remote
    BY <1>4, ZenonT(30) DEF DeleteCachedCredentials, CollectCreds, UnchangedRemote
  <2>3. w.pc \notin Holding
    <3>1. CASE DeleteCachedCredentials
      BY <3>1 DEF DeleteCachedCredentials, Holding, Provisioning
    <3>2. CASE CollectCreds
      <4>1. w.pc \in {"idle", "reject", "finalizer"}
        BY <3>2, ZenonT(30) DEF CollectCreds, IInv, Core, WorkerInv
      <4> QED
        BY <4>1 DEF Holding, Provisioning
    <3> QED
      BY <1>4, <3>1, <3>2
  <2>4. w'.pc \notin Holding
    <3>1. ~EnsureCachedCredentials
      BY <1>4
      DEF DeleteCachedCredentials, CollectCreds, EnsureCachedCredentials, IInv, Core,
          WorkerInv
    <3> QED
      BY <1>4, <2>3, <3>1, HoldingSteps, ZenonT(30) DEF IInv
  <2> QED
    BY <2>1, <2>2, <2>4, ZenonT(30) DEF CredentialsInv, CredentialsKept, RemoteLeft
<1> QED
  BY <1>1, <1>2, <1>3, <1>4, CredentialSteps, ZenonT(30)

(* While a customer cluster holds objects of the instance, the protected     *)
(* copy of its kubeconfig is there and reaches it, unless a stale cache has  *)
(* misled ensureCachedCredentials: cleanup can always go where it has to.    *)
THEOREM CredentialsOutliveObjects == Spec => []CredentialsKept
<1>1. Init => CredentialsInv
  <2> SUFFICES ASSUME Init PROVE CredentialsInv
    OBVIOUS
  <2>1. CredentialsKept
    BY DEF Init, CredentialsKept, RemoteLeft
  <2>2. w.pc \notin Holding
    BY DEF Init, Idle, Holding, Provisioning
  <2> QED
    BY <2>1, <2>2 DEF CredentialsInv
<1>2. IInv /\ CredentialsInv /\ [Next]_vars => CredentialsInv'
  BY StepCredentials
<1>3. CredentialsInv => CredentialsKept
  BY DEF CredentialsInv
<1> QED
  BY <1>1, <1>2, <1>3, Inductive, PTL DEF Spec

-----------------------------------------------------------------------------
(* The token controller sees InstanceView.                                   *)

ViewStep == [View!Next]_(View!view)

(* What InstanceView shows of an instance is a function of the instance.     *)
LEMMA SameView ==
  ASSUME /\ obj'.exists = obj.exists /\ obj'.deleting = obj.deleting
         /\ (obj'.ref = None) = (obj.ref = None)
         /\ obj'.active = obj.active /\ obj'.target = obj.target,
         (obj'.endpoint # None /\ obj'.observed) = (obj.endpoint # None /\ obj.observed)
  PROVE  UNCHANGED View!view
BY DEF View!view

(* The same, but the endpoint is withdrawn or its status outdated.           *)
LEMMA UnreadyView ==
  ASSUME /\ obj'.exists = obj.exists /\ obj'.deleting = obj.deleting
         /\ (obj'.ref = None) = (obj.ref = None)
         /\ obj'.active = obj.active /\ obj'.target = obj.target,
         obj'.endpoint = None \/ ~obj'.observed
  PROVE  ViewStep
<1>1. CASE obj.exists /\ obj.endpoint # None /\ obj.observed
  <2>1. View!BecomeUnready
    BY <1>1 DEF View!BecomeUnready
  <2> QED
    BY <2>1 DEF ViewStep, View!Next
<1>2. CASE ~(obj.exists /\ obj.endpoint # None /\ obj.observed)
  BY <1>2 DEF ViewStep, View!view
<1> QED
  BY <1>1, <1>2

(* A status write without an endpoint records a target, gives one up, or     *)
(* withdraws what was published.                                             *)
LEMMA ClearView ==
  ASSUME IInv, NEW x, UpdateStatus(None, x), w.pc \notin {"idle", "release"},
         Synced \/ Forgetting \/ Recording
  PROVE  ViewStep
<1>1. CASE ~w.fresh
  BY <1>1, SameView DEF UpdateStatus, ViewStep
<1>2. CASE w.fresh
  <2>1. /\ obj'.active = w.active /\ obj'.target = w.target /\ obj'.endpoint = None
        /\ obj'.exists = obj.exists /\ obj'.deleting = obj.deleting /\ obj'.ref = obj.ref
    BY <1>2, ZenonT(30) DEF UpdateStatus, Stored, IInv, TypeOK, Instances
  <2>2. CASE Synced
    BY <2>1, <2>2, UnreadyView, ZenonT(30) DEF Synced
  <2>3. obj.exists /\ obj.ref = w.ref /\ obj.deleting = w.final
    BY <1>2 DEF IInv, Core, FreshInv
  <2>4. ASSUME ~Synced PROVE ~obj.deleting
    <3>1. w.pc \in {"forget", "activate", "failed"}
      BY <2>4, ZenonT(30) DEF IInv, Core, WorkerInv
    <3>2. ~w.final
      BY <3>1, ZenonT(30) DEF IInv, Core, WorkerInv
    <3> QED
      BY <2>3, <3>2
  <2>5. CASE ~Synced /\ Forgetting
    <3>1. View!ReleaseTarget
      BY <2>1, <2>3, <2>4, <2>5, ZenonT(30) DEF Forgetting, View!ReleaseTarget
    <3> QED
      BY <3>1 DEF ViewStep, View!Next
  <2>6. CASE ~Synced /\ Recording
    <3>1. w.target \in TargetIds /\ w.active # None /\ obj.ref # None
      BY <2>3, <2>6, Targets, ZenonT(30) DEF Recording
    <3>2. obj.active = None /\ obj.target = None
      BY <2>6 DEF Recording, IInv, Core, RecordInv
    <3>3. View!ActivateTarget(w.target)
      BY <2>1, <2>3, <2>4, <2>6, <3>1, <3>2, ZenonT(30) DEF View!ActivateTarget
    <3> QED
      BY <3>1, <3>3 DEF ViewStep, View!Next
  <2> QED
    BY <2>2, <2>5, <2>6
<1> QED
  BY <1>1, <1>2

(* A status write with an endpoint publishes that of the recorded target or  *)
(* the hosted one.                                                           *)
LEMMA PublishView ==
  ASSUME IInv, NEW e, NEW x, UpdateStatus(e, x), e # None, Synced,
         w.pc \notin {"idle", "release"}, ~w.final,
         (w.active # None) = (w.ref # None)
  PROVE  ViewStep
<1>1. CASE ~w.fresh
  BY <1>1, SameView DEF UpdateStatus, ViewStep
<1>2. CASE w.fresh
  <2>1. /\ obj'.active = obj.active /\ obj'.target = obj.target /\ obj'.endpoint = e
        /\ obj'.exists = obj.exists /\ obj'.deleting = obj.deleting /\ obj'.ref = obj.ref
        /\ obj'.observed
    BY <1>2, ZenonT(30) DEF UpdateStatus, Stored, IInv, TypeOK, Instances, Synced
  <2>2. obj.exists /\ obj.ref = w.ref /\ ~obj.deleting
    BY <1>2 DEF IInv, Core, FreshInv
  <2>3. CASE obj.endpoint # None /\ obj.observed
    BY <2>1, <2>3, SameView DEF ViewStep
  <2>4. CASE ~(obj.endpoint # None /\ obj.observed)
    <3>1. (obj.active # None) = (obj.ref # None) /\ (obj.active = None) = (obj.target = None)
      BY <2>2, ZenonT(30) DEF IInv, Core, RecordInv, Synced
    <3>2. View!BecomeReady
      BY <2>1, <2>2, <2>4, <3>1, ZenonT(30) DEF View!BecomeReady
    <3> QED
      BY <3>2 DEF ViewStep, View!Next
  <2> QED
    BY <2>3, <2>4
<1> QED
  BY <1>1, <1>2

(* The handlers take steps of InstanceView.                                  *)
LEMMA ControllerView ==
  ASSUME IInv, Controller
  PROVE  ViewStep
<1>i. WorkerInv /\ AheadInv /\ obj \in Instances
  BY DEF IInv, Core, TypeOK
<1>1. ASSUME UNCHANGED obj PROVE ViewStep
  BY <1>1, SameView DEF ViewStep
<1>2. CASE RejectModelSettings
  <2>1. Synced /\ w.pc \notin {"idle", "release"}
    BY <1>2, <1>i, ZenonT(30) DEF RejectModelSettings, WorkerInv
  <2> QED
    BY <1>2, <2>1, ClearView DEF RejectModelSettings
<1>3. CASE EnsureFinalizer
  <2>1. /\ obj'.exists = obj.exists /\ obj'.deleting = obj.deleting /\ obj'.ref = obj.ref
        /\ obj'.active = obj.active /\ obj'.target = obj.target
        /\ obj'.endpoint = obj.endpoint /\ obj'.observed = obj.observed
    BY <1>3, <1>i DEF EnsureFinalizer, Instances
  <2> QED
    BY <2>1, SameView DEF ViewStep
<1>4. CASE FailStatus
  <2>1. (Synced \/ Forgetting \/ Recording) /\ w.pc \notin {"idle", "release"}
    BY <1>4, <1>i DEF FailStatus, AheadInv
  <2> QED
    BY <1>4, <2>1, ClearView DEF FailStatus
<1>5. CASE WithdrawEndpoint
  <2>1. Synced /\ w.pc \notin {"idle", "release"}
    BY <1>5, <1>i, ZenonT(30) DEF WithdrawEndpoint, WorkerInv
  <2> QED
    BY <1>5, <2>1, ClearView DEF WithdrawEndpoint
<1>6. CASE ForgetTarget
  <2>1. Forgetting /\ w.pc \notin {"idle", "release"}
    BY <1>6, <1>i DEF ForgetTarget, AheadInv
  <2> QED
    BY <1>6, <2>1, ClearView DEF ForgetTarget
<1>7. CASE Activate
  <2>1. Recording /\ w.pc \notin {"idle", "release"}
    BY <1>7, <1>i DEF Activate, AheadInv
  <2> QED
    BY <1>7, <2>1, ClearView DEF Activate
<1>8. CASE ReleaseInstance
  <2>1. CASE w.fresh
    <3>1. obj.exists /\ obj.deleting
      BY <1>8, <1>i DEF ReleaseInstance, WorkerInv
    <3>2. ~obj'.exists
      BY <1>8, <2>1, <1>i, ZenonT(30) DEF ReleaseInstance, Instances
    <3>3. View!Remove
      BY <3>1, <3>2 DEF View!Remove
    <3> QED
      BY <3>3 DEF ViewStep, View!Next
  <2> QED
    BY <1>1, <1>8, <2>1 DEF ReleaseInstance
<1>9. CASE EvaluateReadiness
  <2>1. /\ Synced /\ w.pc \notin {"idle", "release"} /\ ~w.final
        /\ w.active # None /\ w.ref # None /\ w.id # None
    BY <1>9, <1>i, Targets, ZenonT(30) DEF EvaluateReadiness, WorkerInv, Provisioning
  <2> QED
    BY <1>1, <1>9, <2>1, PublishView DEF EvaluateReadiness
<1>10. CASE ReconcileHosted
  <2>1. /\ Synced /\ w.pc \notin {"idle", "release"} /\ ~w.final
        /\ w.active = None /\ w.ref = None /\ Hosted # None
    BY <1>10, <1>i, LifecycleAssumption, ZenonT(30) DEF ReconcileHosted, WorkerInv
  <2> QED
    BY <1>10, <2>1, PublishView DEF ReconcileHosted
<1>11. CASE \/ Reconcile \/ CheckTarget \/ CleanupManagedTLS \/ CleanupRemote
            \/ DeleteCachedCredentials \/ Connect \/ EnsureCachedCredentials
  BY <1>1, <1>11, ZenonT(30) DEF Reconcile, CheckTarget, CleanupManagedTLS, CleanupRemote,
     DeleteCachedCredentials, Connect, EnsureCachedCredentials
<1>12. CASE \/ ReconcileService \/ ReconcileCertificate \/ ReconcileDNS
            \/ ReconcileTLSSecret \/ ReconcileDeployment
  BY <1>1, <1>12, ZenonT(30) DEF ReconcileService, ReconcileCertificate, ReconcileDNS,
     ReconcileTLSSecret, ReconcileDeployment, CreateRemote, CreateManaged, GiveUp
<1> QED
  BY <1>2, <1>3, <1>4, <1>5, <1>6, <1>7, <1>8, <1>9, <1>10, <1>11, <1>12 DEF Controller

(* So does the user.                                                         *)
LEMMA UserView ==
  ASSUME IInv, User
  PROVE  ViewStep
<1>i. RecordInv /\ obj \in Instances
  BY DEF IInv, Core, TypeOK
<1>1. ASSUME NEW r, SetClusterRef(r) PROVE ViewStep
  <2>1. /\ obj'.exists = obj.exists /\ obj'.deleting = obj.deleting /\ obj'.ref = r
        /\ obj'.active = obj.active /\ obj'.target = obj.target /\ ~obj'.observed
        /\ obj.exists
    BY <1>1, <1>i, ZenonT(30) DEF SetClusterRef, EditInstance, Instances
  <2>2. CASE (r = None) = (obj.ref = None)
    BY <2>1, <2>2, UnreadyView
  <2>3. CASE (r = None) # (obj.ref = None)
    <3>1. View!SwitchMode
      BY <2>1, <2>3, ZenonT(30) DEF View!SwitchMode
    <3> QED
      BY <3>1 DEF ViewStep, View!Next
  <2> QED
    BY <2>2, <2>3
<1>2. CASE SetModelSettings
  <2>1. /\ obj'.exists = obj.exists /\ obj'.deleting = obj.deleting /\ obj'.ref = obj.ref
        /\ obj'.active = obj.active /\ obj'.target = obj.target /\ ~obj'.observed
    BY <1>2, <1>i, ZenonT(30) DEF SetModelSettings, EditInstance, Instances
  <2> QED
    BY <2>1, UnreadyView
<1>3. CASE DeleteInstance
  <2>1. /\ obj.exists /\ ~obj.deleting /\ obj'.deleting /\ obj'.ref = obj.ref
        /\ obj'.exists = obj.finalizer /\ ~obj'.observed
        /\ obj'.active = obj.active /\ obj'.target = obj.target
    BY <1>3, <1>i DEF DeleteInstance, EditInstance, Instances
  <2>2. CASE obj.finalizer
    <3>1. View!Delete
      BY <2>1, <2>2, ZenonT(30) DEF View!Delete
    <3> QED
      BY <3>1 DEF ViewStep, View!Next
  <2>3. CASE ~obj.finalizer
    <3>1. obj.active = None /\ obj.endpoint = None
      BY <2>1, <2>3, <1>i DEF RecordInv
    <3>2. View!Remove
      BY <2>1, <2>3, <3>1 DEF View!Remove
    <3> QED
      BY <3>2 DEF ViewStep, View!Next
  <2> QED
    BY <2>2, <2>3
<1>4. ASSUME NEW r, NEW a, SetKubeconfig(r, a) PROVE ViewStep
  BY <1>4, SameView DEF SetKubeconfig, ViewStep
<1> QED
  BY <1>1, <1>2, <1>3, <1>4 DEF User

(* The lifecycle of an instance, with its crashes, stale caches and lost     *)
(* clusters, implements what the token controller and the auth server rely   *)
(* on: no target is recorded or given up while an endpoint is published, and *)
(* none is published but that of the record or the hosted one.               *)
THEOREM LifecycleImplementsView == Spec => ImplementsView
<1>1. Init => View!Init
  <2> SUFFICES ASSUME Init PROVE View!Init
    OBVIOUS
  <2> QED
    BY NewInstance DEF View!Init
<1>2. IInv /\ [Next]_vars => ViewStep
  <2> SUFFICES ASSUME IInv, [Next]_vars PROVE ViewStep
    OBVIOUS
  <2>1. ASSUME UNCHANGED obj PROVE ViewStep
    BY <2>1, SameView DEF ViewStep
  <2>2. CASE UNCHANGED vars
    BY <2>1, <2>2 DEF vars
  <2>3. CASE Others
    BY <2>1, <2>3 DEF Others, SyncCreds, CollectCreds, ClusterUp, RemoteProgress, ManagedProgress
  <2>4. CASE Failures
    BY <2>1, <2>4 DEF Failures, Restart, CallFails, ClusterDown, ReplaceCluster
  <2> QED
    BY <2>2, <2>3, <2>4, ControllerView, UserView DEF Next
<1> QED
  BY <1>1, <1>2, Inductive, PTL DEF Spec, ImplementsView, View!Spec, ViewStep
============================================================================
