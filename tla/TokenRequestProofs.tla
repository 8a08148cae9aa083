------------------------ MODULE TokenRequestProofs -------------------------
(* Proofs about TokenRequest: type correctness, that a key always belongs to *)
(* the binding its Secret claims, and what the controller may do to Secrets. *)
EXTENDS TokenRequest, TLAPS

-----------------------------------------------------------------------------
(* Types of the values the handlers compute.                                 *)

(* The worker at rest is a worker.                                           *)
LEMMA IdleType == Idle \in Workers
<1>1. AnyName \in Names
  BY ConstantsAssumption DEF AnyName
<1>2. NoRequest(AnyName, 0, 0) \in Requests
  BY <1>1 DEF NoRequest, Requests
<1>3. NoInstance(<<AnyName, 0>>) \in Instances
  BY <1>1 DEF NoInstance, Instances, Uids, TargetIds
<1> QED
  BY <1>2, <1>3 DEF Idle, Workers, Steps

(* Absent objects are objects.                                               *)
LEMMA AbsentTypes ==
  ASSUME TypeOK
  PROVE  RemovedTr \in Requests /\ RemovedSec \in Secrets
<1>1. RemovedTr \in Requests
  BY DEF TypeOK, RemovedTr, NoRequest, Requests
<1>2. RemovedSec \in Secrets
  BY DEF TypeOK, RemovedSec, NoSecret, Secrets, TargetIds
<1> QED
  BY <1>1, <1>2

(* The binding and the names of an instance.                                 *)
LEMMA BindingType ==
  ASSUME NEW i \in Instances
  PROVE  /\ i.uid \in Uids /\ NameOf(i) \in Names /\ Slug(i) \in Uids
         /\ Binding(i) \in Bindings /\ Endpoint(i) \in Bindings
         /\ Binding(i)[1] \in TargetIds /\ Binding(i)[2] = i.uid
  BY DEF Instances, Uids, TargetIds, Bindings, Binding, Endpoint, NameOf, Slug

(* rotateTokenForTarget and its two callers compute Secrets.                 *)
LEMMA DesiredTypes ==
  ASSUME TypeOK, NEW s \in Secrets, NEW i \in Instances
  PROVE  /\ Invalidated(s, i) \in Secrets
         /\ Published(s, i) \in Secrets
         /\ Invalidated(s, i).key # s.key => Invalidated(s, i).iuid \in Uids
         /\ Published(s, i).key # s.key => Published(s, i).iuid \in Uids
<1>1. ASSUME NEW x \in BOOLEAN, NEW y
      PROVE  /\ RotateTokenForTarget(s, i, x, y) \in Secrets
             /\ RotateTokenForTarget(s, i, x, y).key # s.key
                  => RotateTokenForTarget(s, i, x, y).iuid \in Uids
  <2>1. Len(mint) + 1 \in Nat
    BY DEF TypeOK
  <2> QED
    BY <2>1, BindingType, ZenonT(30) DEF RotateTokenForTarget, Secrets
<1>2. /\ Invalidated(s, i) \in Secrets
      /\ Invalidated(s, i).key # s.key => Invalidated(s, i).iuid \in Uids
  BY <1>1, BindingType, ZenonT(30) DEF Invalidated, Secrets
<1>3. /\ Published(s, i) \in Secrets
      /\ Published(s, i).key # s.key => Published(s, i).iuid \in Uids
  BY <1>1, BindingType, ZenonT(30) DEF Published, Secrets
<1> QED
  BY <1>1, <1>2, <1>3

-----------------------------------------------------------------------------
(* Type correctness.                                                         *)

(* Every state the program starts in is well typed.                          *)
LEMMA InitType == Init => TypeOK
<1> SUFFICES ASSUME Init PROVE TypeOK
  OBVIOUS
<1>1. ASSUME NEW n \in Names PROVE SettledInstances(n) \subseteq Instances
  <2> DEFINE i == [NoInstance(<<n, 1>>) EXCEPT !.exists = TRUE, !.ready = TRUE]
  <2>1. NoInstance(<<n, 0>>) \in Instances /\ NoInstance(<<n, 1>>) \in Instances
    BY DEF NoInstance, Instances, Uids, TargetIds
  <2>2. i \in Instances
    BY <2>1, ZenonT(30) DEF Instances
  <2> HIDE DEF i
  <2>3. \A t \in Targets :
          [i EXCEPT !.byoc = TRUE, !.active = TRUE, !.target = t] \in Instances
    BY <2>2, ZenonT(30) DEF Instances, TargetIds
  <2> QED
    BY <2>1, <2>2, <2>3, ZenonT(30) DEF SettledInstances, i
<1>2. inst \in [Names -> Instances] /\ cInst \in [Names -> Instances]
  BY <1>1 DEF Init
<1>3. /\ tr \in Requests /\ sec \in Secrets
      /\ mint \in Seq(Bindings \cup {Legacy})
  <2>1. CASE InitFresh
    <3>1. AnyName \in Names
      BY ConstantsAssumption DEF AnyName
    <3> QED
      BY <2>1, <3>1 DEF InitFresh, NoRequest, NoSecret, Requests, Secrets, TargetIds
  <2>2. CASE InitLegacy
    <3>1. PICK n \in Names :
            /\ tr = [NoRequest(n, 1, 1) EXCEPT !.exists = TRUE, !.gen = 1, !.finalizer = TRUE,
                        !.phase = "Ready", !.secret = TRUE, !.observed = 1]
            /\ sec = [NoSecret(1) EXCEPT !.exists = TRUE, !.owner = 1, !.key = 1, !.label = n,
                        !.slug = inst[n].uid, !.url = Endpoint(inst[n])]
      BY <2>2, ZenonT(30) DEF InitLegacy
    <3>2. tr \in Requests
      BY <3>1, ZenonT(30) DEF NoRequest, Requests
    <3>3. inst[n] \in Instances
      BY <1>2
    <3>4. sec \in Secrets
      BY <3>1, <3>3, BindingType, ZenonT(30) DEF NoSecret, Secrets, TargetIds
    <3>5. mint \in Seq(Bindings \cup {Legacy})
      BY <2>2 DEF InitLegacy
    <3> QED
      BY <3>2, <3>4, <3>5
  <2> QED
    BY <2>1, <2>2 DEF Init
<1>4. budget \in Bounds
  BY ConstantsAssumption DEF Init
<1> QED
  BY <1>2, <1>3, <1>4, IdleType DEF Init, TypeOK

(* Every handler of the controller keeps the state well typed.               *)
LEMMA ControllerType ==
  ASSUME TypeOK, Controller
  PROVE  TypeOK'
<1> DEFINE Minted == Seq(Bindings \cup {Legacy})
<1>a. tr \in Requests /\ cTr \in Requests
  BY DEF TypeOK
<1>b. sec \in Secrets /\ cSec \in Secrets
  BY DEF TypeOK
<1>c. w \in Workers /\ w.tr \in Requests /\ w.inst \in Instances
  BY DEF TypeOK, Workers
<1>d. queued \in BOOLEAN
  BY DEF TypeOK
<1>e. mint \in Minted
  BY DEF TypeOK
<1>f. RemovedTr \in Requests /\ RemovedSec \in Secrets
  BY AbsentTypes
<1>v. tr.rv + 1 \in Nat
  BY <1>a DEF Requests
<1>g. /\ [tr EXCEPT !.finalizer = TRUE, !.rv = @ + 1] \in Requests
      /\ [tr EXCEPT !.finalizer = FALSE, !.rv = @ + 1] \in Requests
  BY <1>a, <1>v, ZenonT(30) DEF Requests
<1> HIDE DEF Minted
<1>r. ASSUME NEW q \in BOOLEAN, Return(q) PROVE w' \in Workers /\ queued' \in BOOLEAN
  BY <1>d, <1>r, IdleType DEF Return
<1>1. CASE Reconcile
  <2>1. cInst[cTr.name] \in Instances
    BY <1>a DEF TypeOK, Requests
  <2>2. w' \in Workers
    <3> DEFINE Call(step) == [Idle EXCEPT !.pc = step, !.tr = cTr]
               With(step) == [Call(step) EXCEPT !.inst = cInst[cTr.name]]
    <3>1. \A step \in Steps : Call(step) \in Workers /\ With(step) \in Workers
      BY <1>a, <2>1, IdleType, ZenonT(30) DEF Workers
    <3>2. w' \in {Idle, Call("finalize"), Call("ensureFinalizer"),
                  With("ensureSecret"), With("invalidate")}
      BY <1>1, <1>a DEF Reconcile, Requests
    <3> QED
      BY <3>1, <3>2, IdleType DEF Steps
  <2> QED
    BY <1>1, <2>2, ZenonT(30) DEF Reconcile, TypeOK, objects, caches
<1>2. CASE EnsureFinalizer
  <2>1. tr' \in Requests
    BY <1>2, <1>a, <1>g DEF EnsureFinalizer
  <2>2. w' \in Workers /\ queued' \in BOOLEAN
    BY <1>2, <1>r, ZenonT(30) DEF EnsureFinalizer
  <2> QED
    BY <1>2, <2>1, <2>2 DEF EnsureFinalizer, TypeOK, caches
<1>3. CASE FinalizeTokenRequest
  <2>1. sec' \in Secrets
    BY <1>3, <1>b, <1>f DEF FinalizeTokenRequest
  <2>2. w' \in Workers
    BY <1>3, <1>c DEF FinalizeTokenRequest, Workers, Steps
  <2> QED
    BY <1>3, <2>1, <2>2 DEF FinalizeTokenRequest, TypeOK, caches
<1>4. CASE RemoveFinalizer
  <2>1. tr' \in Requests
    BY <1>4, <1>a, <1>f, <1>g, ZenonT(30) DEF RemoveFinalizer
  <2>2. w' \in Workers /\ queued' \in BOOLEAN
    <3>1. CASE \E q \in BOOLEAN : Return(q)
      BY <3>1, <1>r
    <3>2. CASE w.tries < 2 /\ w' = [w EXCEPT !.tr = cTr, !.tries = @ + 1] /\ queued' = queued
      <4>1. w.tries + 1 \in 0 .. 2
        BY <3>2, <1>c DEF Workers
      <4> QED
        BY <3>2, <4>1, <1>a, <1>c, <1>d, ZenonT(30) DEF Workers
    <3> QED
      BY <1>4, <3>1, <3>2, ZenonT(30) DEF RemoveFinalizer
  <2> QED
    BY <1>4, <2>1, <2>2 DEF RemoveFinalizer, TypeOK, caches
<1>5. ASSUME NEW d \in Secrets, NEW p \in {"Pending", "Ready"}, WriteSecret(d, p),
             d.key # cSec.key => d.iuid \in Uids
      PROVE  sec' \in Secrets /\ mint' \in Minted /\ w' \in Workers /\ queued' \in BOOLEAN
  <2>1. sec' \in Secrets
    <3>1. [d EXCEPT !.rv = @ + 1] \in Secrets
      BY DEF Secrets
    <3> QED
      BY <1>5, <1>b, <3>1, ZenonT(30) DEF WriteSecret
  <2>2. mint' \in Minted
    <3>1. d.key # cSec.key => <<d.target, d.iuid>> \in Bindings \cup {Legacy}
      BY <1>5 DEF Secrets, Bindings
    <3>2. d.key # cSec.key => Append(mint, <<d.target, d.iuid>>) \in Minted
      BY <1>e, <3>1 DEF Minted
    <3> QED
      BY <1>5, <1>e, <3>2, ZenonT(30) DEF WriteSecret
  <2>3. w' \in Workers /\ queued' \in BOOLEAN
    <3>1. ASSUME NEW v \in Nat PROVE [w EXCEPT !.pc = "touch", !.ver = v, !.phase = p] \in Workers
      BY <1>c, ZenonT(30) DEF Workers, Steps
    <3>2. cSec.rv \in Nat /\ cSec.rv + 1 \in Nat
      BY <1>b DEF Secrets
    <3>3. CASE Return(TRUE)
      BY <3>3, <1>r, ZenonT(30)
    <3>4. CASE queued' = queued /\ \E v \in Nat :
                 w' = [w EXCEPT !.pc = "touch", !.ver = v, !.phase = p]
      BY <3>1, <3>4, <1>d, ZenonT(30)
    <3> QED
      BY <1>5, <3>2, <3>3, <3>4, ZenonT(30) DEF WriteSecret
  <2> QED
    BY <2>1, <2>2, <2>3
<1>6. CASE InvalidateTokenEndpoint
  <2>1. LET d == Invalidated(cSec, w.inst)
        IN d \in Secrets /\ (d.key # cSec.key => d.iuid \in Uids)
    BY <1>b, <1>c, DesiredTypes
  <2>2. [w EXCEPT !.pc = "status", !.phase = "Pending"] \in Workers
    BY <1>c, ZenonT(30) DEF Workers, Steps
  <2>3. sec' \in Secrets /\ mint' \in Minted /\ w' \in Workers /\ queued' \in BOOLEAN
    BY <1>6, <1>5, <1>b, <1>d, <1>e, <1>r, <2>1, <2>2, ZenonT(30) DEF InvalidateTokenEndpoint
  <2> QED
    BY <1>6, <2>3 DEF InvalidateTokenEndpoint, TypeOK, caches, Minted
<1>7. CASE EnsureSecret
  <2>1. LET d == Published(cSec, w.inst)
        IN d \in Secrets /\ (d.key # cSec.key => d.iuid \in Uids)
    BY <1>b, <1>c, DesiredTypes
  <2>2. CreatedSecret(w.tr, w.inst) \in Secrets
    <3>1. sec.rv + 1 \in Nat /\ Len(mint) + 1 \in Nat /\ w.tr.uid \in Nat
      BY <1>b, <1>c, <1>e DEF Secrets, Requests, Minted
    <3> QED
      BY <3>1, <1>c, BindingType DEF CreatedSecret, Secrets
  <2>3. Append(mint, Binding(w.inst)) \in Minted
    <3>1. Binding(w.inst) \in Bindings \cup {Legacy}
      BY <1>c, BindingType
    <3> QED
      BY <1>e, <3>1 DEF Minted
  <2>4. [w EXCEPT !.pc = "status", !.phase = "Ready"] \in Workers
    BY <1>c, ZenonT(30) DEF Workers, Steps
  <2>5. sec' \in Secrets /\ mint' \in Minted /\ w' \in Workers /\ queued' \in BOOLEAN
    BY <1>7, <1>5, <1>b, <1>d, <1>e, <1>r, <2>1, <2>2, <2>3, <2>4, ZenonT(30) DEF EnsureSecret
  <2> QED
    BY <1>7, <2>5 DEF EnsureSecret, TypeOK, caches, Minted
<1>8. CASE TouchAPITokenRequest
  <2>1. tr' \in Requests
    <3>1. w.ver \in Nat
      BY <1>c DEF Workers
    <3>2. [tr EXCEPT !.version = w.ver, !.rv = @ + 1] \in Requests
      BY <3>1, <1>a, <1>v, ZenonT(30) DEF Requests
    <3> QED
      BY <1>8, <1>a, <3>2, ZenonT(30) DEF TouchAPITokenRequest
  <2>2. w' \in Workers /\ queued' \in BOOLEAN
    <3> DEFINE Status(t) == [w EXCEPT !.pc = "status",
                                      !.tr = [t EXCEPT !.secret = @ \/ w.phase = "Pending"]]
    <3>1. ASSUME NEW t \in Requests PROVE Status(t) \in Workers
      <4>1. [t EXCEPT !.secret = @ \/ w.phase = "Pending"] \in Requests
        BY ZenonT(30) DEF Requests
      <4> QED
        BY <4>1, <1>c, ZenonT(30) DEF Workers, Steps
    <3>2. Return(TRUE) \/ (queued' = queued /\ (w' = Status(w.tr) \/ w' = Status(tr')))
      BY <1>8, ZenonT(30) DEF TouchAPITokenRequest
    <3> HIDE DEF Status
    <3> QED
      BY <3>1, <3>2, <2>1, <1>c, <1>d, <1>r, ZenonT(30)
  <2> QED
    BY <1>8, <2>1, <2>2 DEF TouchAPITokenRequest, TypeOK, caches
<1>9. CASE UpdateStatus
  <2>1. tr' \in Requests
    <3> DEFINE new == [tr EXCEPT !.phase = w.phase, !.observed = tr.gen,
                                 !.secret = w.tr.secret \/ w.phase = "Ready"]
    <3>1. w.phase \in {"Unset", "Pending", "Ready"}
      BY <1>c DEF Workers
    <3>2. new \in Requests
      BY <3>1, <1>a, ZenonT(30) DEF Requests
    <3>3. tr' = tr \/ tr' = [new EXCEPT !.rv = @ + 1]
      BY <1>9 DEF UpdateStatus
    <3> HIDE DEF new
    <3>4. [new EXCEPT !.rv = @ + 1] \in Requests
      BY <3>2 DEF Requests
    <3> QED
      BY <1>a, <3>3, <3>4
  <2>2. budget' \in Bounds
    <3>1. budget' = budget \/ (budget.fault > 0 /\ budget' = [budget EXCEPT !.fault = @ - 1])
      BY <1>9, ZenonT(30) DEF UpdateStatus
    <3>2. budget \in Bounds
      BY DEF TypeOK
    <3> QED
      BY <3>1, <3>2 DEF Bounds
  <2>3. w' \in Workers /\ queued' \in BOOLEAN
    BY <1>9, <1>r, ZenonT(30) DEF UpdateStatus
  <2> QED
    BY <1>9, <2>1, <2>2, <2>3 DEF UpdateStatus, TypeOK, caches
<1> QED
  BY <1>1, <1>2, <1>3, <1>4, <1>6, <1>7, <1>8, <1>9 DEF Controller

(* Informers, faults, users and instances keep the state well typed.         *)
LEMMA OtherType ==
  ASSUME TypeOK, SyncTr \/ SyncSec \/ SyncInst \/ Restart \/ CallFails \/ Environment
  PROVE  TypeOK'
<1>a. tr \in Requests /\ tr.rv + 1 \in Nat /\ tr.gen + 1 \in Nat /\ tr.uid + 1 \in Nat
  BY DEF TypeOK, Requests
<1>b. sec \in Secrets /\ sec.rv + 1 \in Nat
  BY DEF TypeOK, Secrets
<1>c. w \in Workers
  BY DEF TypeOK
<1>d. RemovedTr \in Requests /\ RemovedSec \in Secrets
  BY AbsentTypes
<1>e. SpendTr \/ SpendSec \/ SpendInst => budget' \in Bounds
  <2>1. budget \in Bounds
    BY DEF TypeOK
  <2>2. CASE SpendTr
    BY <2>1, <2>2 DEF Bounds, SpendTr
  <2>3. CASE SpendSec
    BY <2>1, <2>3 DEF Bounds, SpendSec
  <2>4. CASE SpendInst
    BY <2>1, <2>4 DEF Bounds, SpendInst
  <2> QED
    BY <2>2, <2>3, <2>4
<1>f. budget.fault > 0 => [budget EXCEPT !.fault = @ - 1] \in Bounds
  BY DEF TypeOK, Bounds
<1>1. CASE SyncTr \/ SyncSec \/ SyncInst
  BY <1>1, ZenonT(30) DEF SyncTr, SyncSec, SyncInst, TypeOK, objects
<1>2. CASE Restart
  BY <1>2, <1>f, IdleType DEF Restart, TypeOK, objects
<1>3. CASE CallFails
  <2>1. [w EXCEPT !.pc = "removeFinalizer"] \in Workers
    BY <1>c DEF Workers, Steps
  <2>2. w' \in Workers /\ queued' \in BOOLEAN
    BY <1>3, <2>1, IdleType, ZenonT(30) DEF CallFails, Return, TypeOK
  <2> QED
    BY <1>3, <1>f, <2>2 DEF CallFails, TypeOK, objects, caches
<1>4. ASSUME NEW n \in Names, CreateRequest(n) \/ Retarget(n) PROVE TypeOK'
  <2>1. [NoRequest(n, tr.uid + 1, tr.rv + 1) EXCEPT !.exists = TRUE, !.gen = 1] \in Requests
    BY <1>a, ZenonT(30) DEF NoRequest, Requests
  <2>2. [tr EXCEPT !.name = n, !.gen = @ + 1, !.rv = @ + 1] \in Requests
    BY <1>a, ZenonT(30) DEF Requests
  <2> QED
    BY <1>4, <1>e, <2>1, <2>2 DEF CreateRequest, Retarget, TypeOK, caches
<1>5. CASE DeleteRequest
  <2>1. [tr EXCEPT !.deleting = TRUE, !.gen = @ + 1, !.rv = @ + 1] \in Requests
    BY <1>a, ZenonT(30) DEF Requests
  <2> QED
    BY <1>5, <1>d, <1>e, <2>1 DEF DeleteRequest, TypeOK, caches
<1>6. CASE ReplaceKey
  <2>1. mint \in Seq(Bindings \cup {Legacy}) /\ Len(mint) + 1 \in Nat
    BY DEF TypeOK
  <2>2. [sec EXCEPT !.key = Len(mint) + 1, !.rv = @ + 1] \in Secrets
    BY <1>b, <2>1, ZenonT(30) DEF Secrets
  <2>3. \A x \in Bindings \cup {Legacy} : Append(mint, x) \in Seq(Bindings \cup {Legacy})
    BY <2>1
  <2>4. sec.iuid # None => <<sec.target, sec.iuid>> \in Bindings
    BY <1>b DEF Secrets, Bindings
  <2>5. mint' \in Seq(Bindings \cup {Legacy})
    BY <1>6, <2>3, <2>4, ZenonT(30) DEF ReplaceKey
  <2> QED
    BY <1>6, <1>e, <2>2, <2>5 DEF ReplaceKey, TypeOK, caches
<1>7. CASE DeleteSecret \/ CreateForeignSecret \/ CollectSecret
  <2>1. [NoSecret(sec.rv + 1) EXCEPT !.exists = TRUE] \in Secrets
    BY <1>b, ZenonT(30) DEF NoSecret, Secrets, TargetIds
  <2> QED
    BY <1>7, <1>d, <1>e, <2>1, ZenonT(30)
    DEF DeleteSecret, CreateForeignSecret, CollectSecret, TypeOK, caches
<1>8. ASSUME NEW n \in Names,
             \/ CreateInstance(n) \/ SwitchMode(n) \/ ReleaseTarget(n) \/ BecomeReady(n)
             \/ BecomeUnready(n) \/ DeleteInstance(n) \/ RemoveInstance(n)
             \/ \E t \in Targets : ActivateTarget(n, t)
      PROVE  TypeOK'
  <2>1. inst[n] \in Instances /\ inst[n].uid \in Uids /\ <<n, inst[n].uid[2] + 1>> \in Uids
    BY DEF TypeOK, Instances, Uids
  <2>2. ASSUME NEW u \in Uids PROVE NoInstance(u) \in Instances
    BY DEF NoInstance, Instances, TargetIds
  <2>3. ASSUME NEW i \in Instances, SetInst(n, i) PROVE TypeOK'
    <3>1. inst' \in [Names -> Instances]
      BY <2>3 DEF SetInst, TypeOK
    <3> QED
      BY <2>3, <3>1, <1>e DEF SetInst, TypeOK, caches
  <2>4. CASE CreateInstance(n)
    <3>1. PICK b \in BOOLEAN :
            SetInst(n, [NoInstance(<<n, inst[n].uid[2] + 1>>) EXCEPT !.exists = TRUE, !.byoc = b])
      BY <2>4, ZenonT(30) DEF CreateInstance
    <3>2. [NoInstance(<<n, inst[n].uid[2] + 1>>) EXCEPT !.exists = TRUE, !.byoc = b] \in Instances
      BY <2>1, ZenonT(30) DEF NoInstance, Instances, TargetIds
    <3> QED
      BY <2>3, <3>1, <3>2
  <2>5. CASE \E t \in Targets : ActivateTarget(n, t)
    <3>1. PICK t \in Targets :
            SetInst(n, [inst[n] EXCEPT !.active = TRUE, !.target = t, !.ready = FALSE])
      BY <2>5, ZenonT(30) DEF ActivateTarget
    <3>2. [inst[n] EXCEPT !.active = TRUE, !.target = t, !.ready = FALSE] \in Instances
      BY <2>1, ZenonT(30) DEF Instances, TargetIds
    <3> QED
      BY <2>3, <3>1, <3>2
  <2>6. CASE RemoveInstance(n)
    BY <2>1, <2>2, <2>3, <2>6 DEF RemoveInstance
  <2>7. /\ [inst[n] EXCEPT !.byoc = ~@, !.ready = FALSE] \in Instances
        /\ [inst[n] EXCEPT !.active = FALSE, !.target = None] \in Instances
        /\ [inst[n] EXCEPT !.ready = TRUE] \in Instances
        /\ [inst[n] EXCEPT !.ready = FALSE] \in Instances
        /\ [inst[n] EXCEPT !.deleting = TRUE, !.ready = FALSE] \in Instances
    BY <2>1, ZenonT(30) DEF Instances, TargetIds
  <2>8. CASE \/ SwitchMode(n) \/ ReleaseTarget(n) \/ BecomeReady(n)
             \/ BecomeUnready(n) \/ DeleteInstance(n)
    BY <2>3, <2>7, <2>8
    DEF SwitchMode, ReleaseTarget, BecomeReady, BecomeUnready, DeleteInstance
  <2> QED
    BY <1>8, <2>4, <2>5, <2>6, <2>8
<1>9. budget.names \subseteq Names
  BY DEF TypeOK, Bounds
<1> QED
  BY <1>1, <1>2, <1>3, <1>4, <1>5, <1>6, <1>7, <1>8, <1>9 DEF Environment

(* A step of the system keeps the state well typed.                          *)
LEMMA NextType == TypeOK /\ [Next]_vars => TypeOK'
<1>1. ASSUME TypeOK, Next PROVE TypeOK'
  BY <1>1, ControllerType, OtherType DEF Next
<1>2. ASSUME TypeOK, UNCHANGED vars PROVE TypeOK'
  BY <1>2 DEF TypeOK, vars
<1> QED
  BY <1>1, <1>2

(* The state is well typed in every reachable state, for any set of instance *)
(* names, any set of clusters and any number of edits and faults.            *)
THEOREM TypeCorrect == Spec => []TypeOK
  BY InitType, NextType, PTL DEF Spec

-----------------------------------------------------------------------------
(* Keys and bindings.                                                        *)

(* What KeyFollowsBinding and EndpointMatchesKey say of one Secret, when m   *)
(* is the history of minted keys.                                            *)
Good(s, m) ==
  s.exists /\ s.owner # 0 =>
    /\ s.key \in 1 .. Len(m)
    /\ m[s.key] = <<s.target, s.iuid>> \/ (m[s.key] = Legacy /\ s.target = None)
    /\ s.url # None /\ s.iuid # None => s.url = <<s.target, s.iuid>>

(* What an update may make of a Secret s: keep the key and its binding,      *)
(* backfill the instance of an unbound hosted key, or mint a key for another *)
(* binding.                                                                  *)
Derived(s, d) ==
  /\ d.exists = s.exists /\ d.owner = s.owner /\ d.rv = s.rv
  /\ \/ d.key = Len(mint) + 1 /\ <<d.target, d.iuid>> # <<s.target, s.iuid>>
     \/ d.key = s.key /\ d.target = s.target /\ d.iuid = s.iuid
     \/ d.key = s.key /\ d.target = s.target /\ s.target = None /\ s.iuid = None
  /\ d.url = None \/ d.url = <<d.target, d.iuid>>

(* rotateTokenForTarget keeps, backfills or mints, and when it may bind the  *)
(* result is bound to the instance.                                          *)
LEMMA RotateDerives ==
  ASSUME NEW s \in Secrets, NEW i \in Instances, NEW h \in BOOLEAN, NEW g, TypeOK
  PROVE  LET r == RotateTokenForTarget(s, i, h, g)
         IN /\ r.exists = s.exists /\ r.owner = s.owner /\ r.rv = s.rv
            /\ \/ r.key = Len(mint) + 1 /\ <<r.target, r.iuid>> # <<s.target, s.iuid>>
               \/ r.key = s.key /\ r.target = s.target /\ r.iuid = s.iuid
               \/ r.key = s.key /\ r.target = s.target /\ s.target = None /\ s.iuid = None
            /\ MayBind(i, h) => <<r.target, r.iuid>> = Binding(i)
            /\ r \in Secrets
<1> DEFINE r == RotateTokenForTarget(s, i, h, g)
<1>1. CASE ~MayBind(i, h) \/ <<s.target, s.iuid>> = Binding(i)
  BY <1>1 DEF RotateTokenForTarget
<1>2. CASE MayBind(i, h) /\ <<s.target, s.iuid>> # Binding(i) /\ Backfills(s, i, g)
  <2>1. r = [s EXCEPT !.iuid = i.uid] /\ ~IsByoc(i) /\ s.target = None /\ s.iuid = None
    BY <1>2 DEF RotateTokenForTarget, Backfills
  <2>2. Binding(i) = <<None, i.uid>>
    BY <2>1 DEF Binding
  <2> QED
    BY <2>1, <2>2, BindingType DEF Secrets
<1>3. CASE MayBind(i, h) /\ <<s.target, s.iuid>> # Binding(i) /\ ~Backfills(s, i, g)
  <2>1. r = [s EXCEPT !.key = Len(mint) + 1, !.target = Binding(i)[1], !.iuid = i.uid]
    BY <1>3 DEF RotateTokenForTarget
  <2>2. Binding(i) = <<Binding(i)[1], i.uid>>
    BY DEF Binding
  <2>3. Len(mint) + 1 \in Nat
    BY DEF TypeOK
  <2>4. /\ r \in Secrets /\ r.exists = s.exists /\ r.owner = s.owner /\ r.rv = s.rv
        /\ r.key = Len(mint) + 1 /\ r.target = Binding(i)[1] /\ r.iuid = i.uid
    BY <2>1, <2>3, BindingType, ZenonT(30) DEF Secrets
  <2>5. <<r.target, r.iuid>> = Binding(i)
    BY <2>2, <2>4
  <2> QED
    BY <1>3, <2>4, <2>5
<1> QED
  BY <1>1, <1>2, <1>3, ZenonT(30)

(* Both callers publish no URL, or the endpoint of the binding they leave.   *)
LEMMA DesiredDerives ==
  ASSUME NEW s \in Secrets, NEW i \in Instances, TypeOK
  PROVE  /\ Derived(s, Invalidated(s, i))
         /\ i.exists /\ Serving(i) => Derived(s, Published(s, i))
<1>1. Derived(s, Invalidated(s, i))
  <2> DEFINE r == RotateTokenForTarget(s, i, FALSE, None)
  <2>1. /\ r \in Secrets /\ r.exists = s.exists /\ r.owner = s.owner /\ r.rv = s.rv
        /\ \/ r.key = Len(mint) + 1 /\ <<r.target, r.iuid>> # <<s.target, s.iuid>>
           \/ r.key = s.key /\ r.target = s.target /\ r.iuid = s.iuid
           \/ r.key = s.key /\ r.target = s.target /\ s.target = None /\ s.iuid = None
    BY RotateDerives, ZenonT(30)
  <2> DEFINE d == [r EXCEPT !.label = IF i.exists /\ IsByoc(i) /\ i.target # None
                                      THEN NameOf(i) ELSE @,
                            !.url = None]
  <2>2. Invalidated(s, i) = d
    BY DEF Invalidated
  <2> HIDE DEF r
  <2>3. /\ d.exists = r.exists /\ d.owner = r.owner /\ d.rv = r.rv /\ d.key = r.key
        /\ d.target = r.target /\ d.iuid = r.iuid /\ d.url = None
    BY <2>1 DEF Secrets
  <2> QED
    BY <2>1, <2>2, <2>3 DEF Derived
<1>2. ASSUME i.exists, Serving(i) PROVE Derived(s, Published(s, i))
  <2> DEFINE r == RotateTokenForTarget(s, i, TRUE, Slug(i))
             d == [r EXCEPT !.label = NameOf(i), !.slug = Slug(i), !.url = Endpoint(i)]
  <2>1. MayBind(i, TRUE)
    BY <1>2 DEF MayBind, Serving
  <2>2. /\ r \in Secrets /\ r.exists = s.exists /\ r.owner = s.owner /\ r.rv = s.rv
        /\ \/ r.key = Len(mint) + 1 /\ <<r.target, r.iuid>> # <<s.target, s.iuid>>
           \/ r.key = s.key /\ r.target = s.target /\ r.iuid = s.iuid
           \/ r.key = s.key /\ r.target = s.target /\ s.target = None /\ s.iuid = None
        /\ <<r.target, r.iuid>> = Binding(i)
    BY <2>1, RotateDerives, ZenonT(30)
  <2>3. Published(s, i) = d
    BY DEF Published
  <2> HIDE DEF r
  <2>4. /\ d.exists = r.exists /\ d.owner = r.owner /\ d.rv = r.rv /\ d.key = r.key
        /\ d.target = r.target /\ d.iuid = r.iuid /\ d.url = Endpoint(i)
    BY <2>2 DEF Secrets
  <2> QED
    BY <2>2, <2>3, <2>4 DEF Derived, Endpoint
<1> QED
  BY <1>1, <1>2

(* A minted key is the last of a longer history that agrees with the old one.*)
LEMMA MintGrows ==
  ASSUME TypeOK, NEW x
  PROVE  /\ Len(Append(mint, x)) = Len(mint) + 1
         /\ \A k \in 1 .. Len(mint) : Append(mint, x)[k] = mint[k]
         /\ Append(mint, x)[Len(mint) + 1] = x
  BY DEF TypeOK

(* Minting a key for one Secret disturbs no other.                           *)
LEMMA GoodStays ==
  ASSUME TypeOK, NEW x, NEW s, Good(s, mint)
  PROVE  Good(s, Append(mint, x))
<1>1. Len(mint) \in Nat
  BY DEF TypeOK
<1> QED
  BY <1>1, MintGrows DEF Good

(* The invariant, with its two properties stated per Secret.                 *)
LEMMA InvByGood ==
  TokenInv <=> /\ TypeOK
               /\ cSec.rv <= sec.rv /\ (cSec.rv = sec.rv => cSec = sec)
               /\ w.pc = "ensureSecret" => w.inst.exists /\ Serving(w.inst)
               /\ Good(sec, mint) /\ Good(cSec, mint)
<1>1. KeyFollowsBinding /\ EndpointMatchesKey <=> \A s \in {sec, cSec} : Good(s, mint)
  BY Zenon DEF KeyFollowsBinding, EndpointMatchesKey, Good, Keys
<1> QED
  BY <1>1 DEF TokenInv

(* The shared tail of ensureSecret and invalidateTokenEndpoint.              *)
LEMMA WriteKeepsGood ==
  ASSUME TokenInv, NEW d \in Secrets, Derived(cSec, d), cSec.exists,
         OwnsTokenSecret(w.tr, cSec), NEW p \in {"Pending", "Ready"}, WriteSecret(d, p)
  PROVE  /\ Good(sec', mint') /\ Good(cSec, mint')
         /\ cSec.rv <= sec'.rv /\ (cSec.rv = sec'.rv => cSec = sec')
         /\ w'.pc # "ensureSecret"
<1>1. /\ TypeOK /\ Good(sec, mint) /\ Good(cSec, mint)
      /\ cSec.rv <= sec.rv /\ (cSec.rv = sec.rv => cSec = sec)
  BY InvByGood
<1>2. w \in Workers /\ cSec \in Secrets /\ sec \in Secrets
  BY <1>1 DEF TypeOK
<1>3. w'.pc # "ensureSecret"
  <2>1. Return(TRUE) => w'.pc = "idle"
    BY DEF Return, Idle
  <2>2. \A v : [w EXCEPT !.pc = "touch", !.ver = v, !.phase = p].pc = "touch"
    BY <1>2 DEF Workers
  <2> QED
    BY <2>1, <2>2, ZenonT(30) DEF WriteSecret
<1>4. CASE sec' = sec /\ mint' = mint
  BY <1>1, <1>3, <1>4
<1>5. CASE /\ sec' = [d EXCEPT !.rv = @ + 1]
           /\ mint' = IF d.key # cSec.key
                      THEN Append(mint, <<d.target, d.iuid>>) ELSE mint
  <2>1. cSec.rv \in Nat /\ d.rv = cSec.rv /\ sec'.rv = cSec.rv + 1
    BY <1>2, <1>5 DEF Secrets, Derived
  <2>2. /\ sec'.exists = d.exists /\ sec'.owner = d.owner /\ sec'.key = d.key
        /\ sec'.target = d.target /\ sec'.iuid = d.iuid /\ sec'.url = d.url
    BY <1>5 DEF Secrets
  <2>3. /\ cSec.key \in 1 .. Len(mint)
        /\ \/ mint[cSec.key] = <<cSec.target, cSec.iuid>>
           \/ mint[cSec.key] = Legacy /\ cSec.target = None
    BY <1>1 DEF Good, OwnsTokenSecret
  <2>4. Len(mint) \in Nat /\ cSec.key # Len(mint) + 1
    BY <1>1, <2>3 DEF TypeOK
  <2>5. CASE d.key = Len(mint) + 1
    <3>1. mint' = Append(mint, <<d.target, d.iuid>>)
      BY <1>5, <2>4, <2>5
    <3>2. Len(mint') = Len(mint) + 1 /\ mint'[d.key] = <<d.target, d.iuid>>
      BY <1>1, <2>5, <3>1, MintGrows
    <3>3. d.url = None \/ d.url = <<d.target, d.iuid>>
      BY DEF Derived
    <3>4. Good(sec', mint')
      BY <2>2, <2>4, <2>5, <3>2, <3>3 DEF Good
    <3>5. Good(cSec, mint')
      BY <1>1, <3>1, GoodStays
    <3> QED
      BY <1>3, <2>1, <3>4, <3>5
  <2>6. CASE d.key = cSec.key
    <3>1. mint' = mint
      BY <1>5, <2>6
    <3>2. mint[cSec.key] \in Bindings \cup {Legacy}
      BY <1>1, <2>3 DEF TypeOK
    <3>3. \/ mint[d.key] = <<d.target, d.iuid>>
          \/ mint[d.key] = Legacy /\ d.target = None
      <4>1. CASE d.target = cSec.target /\ d.iuid = cSec.iuid
        BY <2>3, <2>6, <4>1
      <4>2. CASE d.target = cSec.target /\ cSec.target = None /\ cSec.iuid = None
        <5>1. <<None, None>> \notin Bindings
          BY ConstantsAssumption DEF Bindings, Uids
        <5> QED
          BY <2>3, <2>6, <3>2, <4>2, <5>1
      <4> QED
        BY <2>4, <2>6, <4>1, <4>2 DEF Derived
    <3>4. Good(sec', mint')
      BY <2>2, <2>3, <2>6, <3>1, <3>3 DEF Good, Derived
    <3> QED
      BY <1>1, <1>3, <2>1, <3>1, <3>4
  <2> QED
    BY <2>5, <2>6 DEF Derived
<1> QED
  BY <1>4, <1>5, ZenonT(30) DEF WriteSecret

(* The invariant holds initially.                                            *)
LEMMA InitInv == Init => TokenInv
<1> SUFFICES ASSUME Init PROVE TokenInv
  OBVIOUS
<1>1. TypeOK
  BY InitType
<1>2. Good(sec, mint)
  <2>1. CASE InitFresh
    BY <2>1 DEF InitFresh, NoSecret, Good
  <2>2. CASE InitLegacy
    <3>1. PICK n \in Names :
            sec = [NoSecret(1) EXCEPT !.exists = TRUE, !.owner = 1, !.key = 1, !.label = n,
                      !.slug = inst[n].uid, !.url = Endpoint(inst[n])]
      BY <2>2, ZenonT(30) DEF InitLegacy
    <3>2. sec.key = 1 /\ sec.target = None /\ sec.iuid = None
      BY <3>1 DEF NoSecret
    <3>3. mint = <<Legacy>>
      BY <2>2 DEF InitLegacy
    <3> QED
      BY <3>2, <3>3 DEF Good
  <2> QED
    BY <2>1, <2>2 DEF Init
<1>3. cSec = sec /\ sec.rv \in Nat /\ w.pc = "idle"
  BY <1>1 DEF Init, Idle, TypeOK, Secrets
<1> QED
  BY <1>1, <1>2, <1>3, InvByGood

(* Every step preserves the invariant.                                       *)
LEMMA NextInv == TokenInv /\ [Next]_vars => TokenInv'
<1> SUFFICES ASSUME TokenInv, [Next]_vars PROVE TokenInv'
  OBVIOUS
<1> DEFINE Versions == cSec.rv <= sec.rv /\ (cSec.rv = sec.rv => cSec = sec)
           Checked == w.pc = "ensureSecret" => w.inst.exists /\ Serving(w.inst)
<1>1. TypeOK /\ Versions /\ Checked /\ Good(sec, mint) /\ Good(cSec, mint)
  BY InvByGood
<1>2. TypeOK'
  BY <1>1, NextType
<1>3. SUFFICES Versions' /\ Checked' /\ Good(sec', mint') /\ Good(cSec', mint')
  BY <1>2, <1>3, InvByGood DEF TokenInv, KeyFollowsBinding, EndpointMatchesKey, Good, Keys
<1>4. w \in Workers /\ sec \in Secrets /\ cSec \in Secrets /\ sec.rv \in Nat /\ cSec.rv \in Nat
  BY <1>1 DEF TypeOK, Secrets
<1>5. Idle.pc = "idle"
  BY DEF Idle
<1>6. /\ RemovedSec.rv = sec.rv + 1 /\ RemovedSec.exists = FALSE
      /\ \A m : Good(RemovedSec, m)
  BY DEF RemovedSec, NoSecret, Good
<1>7. ASSUME UNCHANGED <<sec, cSec, mint>>, w' = w \/ w'.pc # "ensureSecret"
      PROVE  Versions' /\ Checked' /\ Good(sec', mint') /\ Good(cSec', mint')
  BY <1>1, <1>7
<1>8. ASSUME sec' = RemovedSec, UNCHANGED <<cSec, mint>>, w' = w \/ w'.pc # "ensureSecret"
      PROVE  Versions' /\ Checked' /\ Good(sec', mint') /\ Good(cSec', mint')
  BY <1>1, <1>4, <1>6, <1>8
<1>9. CASE Reconcile
  <2>1. UNCHANGED <<sec, cSec, mint>>
    BY <1>9 DEF Reconcile, objects, caches
  <2>2. Checked'
    <3> DEFINE i == cInst[cTr.name]
               Call(step) == [Idle EXCEPT !.pc = step, !.tr = cTr]
               With(step) == [Call(step) EXCEPT !.inst = i]
    <3>1. \/ w' \in {Idle, Call("finalize"), Call("ensureFinalizer"), With("invalidate")}
          \/ w' = With("ensureSecret") /\ i.exists /\ Serving(i)
      BY <1>1, <1>9 DEF Reconcile, TypeOK, Requests
    <3>2. /\ \A step : Call(step).pc = step /\ With(step).pc = step
          /\ With("ensureSecret").inst = i
      BY IdleType DEF Workers
    <3> HIDE DEF i, Call, With
    <3> QED
      BY <1>5, <3>1, <3>2
  <2> QED
    BY <1>1, <2>1, <2>2
<1>10. CASE EnsureFinalizer \/ TouchAPITokenRequest \/ UpdateStatus \/ RemoveFinalizer
  <2>1. UNCHANGED <<sec, cSec, mint>>
    BY <1>10, ZenonT(30)
    DEF EnsureFinalizer, TouchAPITokenRequest, UpdateStatus, RemoveFinalizer, caches
  <2>2. w'.pc # "ensureSecret"
    <3>1. ASSUME NEW q, Return(q) PROVE w'.pc # "ensureSecret"
      BY <3>1, <1>5 DEF Return
    <3>2. ASSUME NEW t PROVE [w EXCEPT !.pc = "status", !.tr = t].pc = "status"
      BY <1>4 DEF Workers
    <3>3. [w EXCEPT !.tr = cTr, !.tries = @ + 1].pc = w.pc
      BY <1>4 DEF Workers
    <3>4. CASE EnsureFinalizer \/ UpdateStatus
      BY <3>1, <3>4, ZenonT(30) DEF EnsureFinalizer, UpdateStatus
    <3>5. CASE TouchAPITokenRequest
      BY <3>1, <3>2, <3>5, ZenonT(30) DEF TouchAPITokenRequest
    <3>6. CASE RemoveFinalizer
      BY <3>1, <3>3, <3>6, ZenonT(30) DEF RemoveFinalizer
    <3> QED
      BY <1>10, <3>4, <3>5, <3>6
  <2> QED
    BY <1>7, <2>1, <2>2
<1>11. CASE FinalizeTokenRequest
  <2>1. w'.pc # "ensureSecret"
    BY <1>4, <1>11 DEF FinalizeTokenRequest, Workers
  <2>2. UNCHANGED <<cSec, mint>> /\ (sec' = sec \/ sec' = RemovedSec)
    BY <1>11 DEF FinalizeTokenRequest, caches
  <2> QED
    BY <1>7, <1>8, <2>1, <2>2
<1>12. CASE InvalidateTokenEndpoint
  <2>1. cSec' = cSec
    BY <1>12 DEF InvalidateTokenEndpoint, caches
  <2>2. CASE ~cSec.exists \/ ~OwnsTokenSecret(w.tr, cSec)
    <3>0. [w EXCEPT !.pc = "status", !.phase = "Pending"].pc = "status"
      BY <1>4 DEF Workers
    <3>1. UNCHANGED <<sec, mint>> /\ w'.pc # "ensureSecret"
      BY <1>5, <1>12, <2>2, <3>0, ZenonT(30) DEF InvalidateTokenEndpoint, Return
    <3> QED
      BY <1>7, <2>1, <3>1
  <2>3. CASE cSec.exists /\ OwnsTokenSecret(w.tr, cSec)
    <3> DEFINE d == Invalidated(cSec, w.inst)
    <3>1. WriteSecret(d, "Pending")
      BY <1>12, <2>3 DEF InvalidateTokenEndpoint
    <3>2. d \in Secrets /\ Derived(cSec, d)
      BY <1>1, <1>4, DesiredTypes, DesiredDerives DEF Workers
    <3> HIDE DEF d
    <3> QED
      BY <2>1, <2>3, <3>1, <3>2, WriteKeepsGood
  <2> QED
    BY <2>2, <2>3
<1>13. CASE EnsureSecret
  <2>1. cSec' = cSec /\ w.inst \in Instances /\ w.inst.exists /\ Serving(w.inst)
    BY <1>1, <1>4, <1>13 DEF EnsureSecret, caches, Workers
  <2>2. CASE ~cSec.exists /\ ~sec.exists
    <3>1. /\ sec' = CreatedSecret(w.tr, w.inst) /\ mint' = Append(mint, Binding(w.inst))
          /\ w' = [w EXCEPT !.pc = "status", !.phase = "Ready"]
      BY <1>13, <2>2, ZenonT(30) DEF EnsureSecret
    <3>2. w'.pc # "ensureSecret"
      BY <1>4, <3>1 DEF Workers
    <3>3. /\ sec'.rv = sec.rv + 1 /\ sec'.key = Len(mint) + 1
          /\ <<sec'.target, sec'.iuid>> = Binding(w.inst) /\ sec'.url = Binding(w.inst)
      BY <3>1 DEF CreatedSecret, Binding, Endpoint
    <3>4. Len(mint) \in Nat
      BY <1>1 DEF TypeOK
    <3>5. Len(mint') = Len(mint) + 1 /\ mint'[Len(mint) + 1] = Binding(w.inst)
      BY <1>1, <3>1, MintGrows
    <3>6. Good(sec', mint')
      BY <3>3, <3>4, <3>5 DEF Good
    <3>7. Good(cSec', mint')
      BY <2>1, <2>2 DEF Good
    <3> QED
      BY <1>1, <1>4, <2>1, <3>2, <3>3, <3>6, <3>7
  <2>3. CASE \/ ~cSec.exists /\ sec.exists
             \/ cSec.exists /\ ~OwnsTokenSecret(w.tr, cSec)
    <3>1. UNCHANGED <<sec, mint>> /\ w'.pc # "ensureSecret"
      BY <1>5, <1>13, <2>3 DEF EnsureSecret, Return
    <3> QED
      BY <1>7, <2>1, <3>1
  <2>4. CASE cSec.exists /\ OwnsTokenSecret(w.tr, cSec)
    <3> DEFINE d == Published(cSec, w.inst)
    <3>1. WriteSecret(d, "Ready")
      BY <1>13, <2>4 DEF EnsureSecret
    <3>2. d \in Secrets /\ Derived(cSec, d)
      BY <1>1, <1>4, <2>1, DesiredTypes, DesiredDerives
    <3> HIDE DEF d
    <3> QED
      BY <2>1, <2>4, <3>1, <3>2, WriteKeepsGood
  <2> QED
    BY <2>2, <2>3, <2>4
<1>14. CASE SyncTr \/ SyncInst \/ CallFails
  <2>1. w' = w \/ w'.pc # "ensureSecret"
    BY <1>4, <1>5, <1>14 DEF SyncTr, SyncInst, CallFails, Return, Workers
  <2> QED
    BY <1>7, <1>14, <2>1, ZenonT(30) DEF SyncTr, SyncInst, CallFails, objects, caches
<1>15. CASE SyncSec \/ Restart
  <2>1. cSec' = sec /\ sec' = sec /\ mint' = mint
    BY <1>15 DEF SyncSec, Restart, objects
  <2>2. w' = w \/ w'.pc # "ensureSecret"
    BY <1>5, <1>15 DEF SyncSec, Restart
  <2> QED
    BY <1>1, <1>4, <2>1, <2>2
<1>16. CASE Environment
  <2>1. w' = w /\ cSec' = cSec
    BY <1>16, ZenonT(30) DEF Environment, CreateRequest, Retarget, DeleteRequest, ReplaceKey,
       DeleteSecret, CreateForeignSecret, CollectSecret, CreateInstance, SwitchMode,
       ReleaseTarget, BecomeReady, BecomeUnready, DeleteInstance, RemoveInstance,
       ActivateTarget, SetInst, caches
  <2>2. CASE ReplaceKey
    <3> DEFINE x == IF sec.iuid = None THEN Legacy ELSE <<sec.target, sec.iuid>>
    <3>1. /\ sec.exists /\ sec.owner # 0
          /\ sec' = [sec EXCEPT !.key = Len(mint) + 1, !.rv = @ + 1]
          /\ mint' = Append(mint, x)
      BY <2>2 DEF ReplaceKey
    <3>2. /\ sec'.rv = sec.rv + 1 /\ sec'.key = Len(mint) + 1 /\ sec'.target = sec.target
          /\ sec'.iuid = sec.iuid /\ sec'.url = sec.url
      BY <1>4, <3>1 DEF Secrets
    <3>3. Len(mint) \in Nat
      BY <1>1 DEF TypeOK
    <3>4. Len(mint') = Len(mint) + 1 /\ mint'[Len(mint) + 1] = x
      BY <1>1, <3>1, MintGrows
    <3>5. sec.iuid = None => sec.target = None
      <4>1. mint[sec.key] \in Bindings \cup {Legacy}
        BY <1>1, <3>1 DEF TypeOK, Good
      <4>2. <<sec.target, None>> \notin Bindings \cup {Legacy}
        BY <1>4, ConstantsAssumption DEF Bindings, Uids, Secrets, TargetIds
      <4>3. mint[sec.key] = <<sec.target, sec.iuid>> \/ sec.target = None
        BY <1>1, <3>1 DEF Good
      <4> QED
        BY <4>1, <4>2, <4>3
    <3>6. sec.url # None /\ sec.iuid # None => sec.url = <<sec.target, sec.iuid>>
      BY <1>1, <3>1 DEF Good
    <3>7. Good(sec', mint')
      BY <3>2, <3>3, <3>4, <3>5, <3>6 DEF Good
    <3>8. Good(cSec', mint')
      BY <1>1, <2>1, <3>1, GoodStays
    <3> QED
      BY <1>1, <1>4, <2>1, <3>2, <3>7, <3>8
  <2>3. CASE CreateForeignSecret
    <3>1. sec'.rv = sec.rv + 1 /\ sec'.owner = 0 /\ mint' = mint
      BY <2>3 DEF CreateForeignSecret, NoSecret
    <3>2. Good(sec', mint')
      BY <3>1 DEF Good
    <3> QED
      BY <1>1, <1>4, <2>1, <3>1, <3>2
  <2>4. CASE DeleteSecret \/ CollectSecret
    BY <1>8, <2>1, <2>4 DEF DeleteSecret, CollectSecret
  <2>5. CASE ~(ReplaceKey \/ CreateForeignSecret \/ DeleteSecret \/ CollectSecret)
    <3>1. UNCHANGED <<sec, mint>>
      BY <1>16, <2>5, ZenonT(30) DEF Environment, CreateRequest, Retarget, DeleteRequest,
         CreateInstance, SwitchMode, ReleaseTarget, BecomeReady, BecomeUnready,
         DeleteInstance, RemoveInstance, ActivateTarget, SetInst
    <3> QED
      BY <1>7, <2>1, <3>1
  <2> QED
    BY <2>2, <2>3, <2>4, <2>5
<1>17. CASE UNCHANGED vars
  BY <1>7, <1>17 DEF vars
<1> QED
  BY <1>9, <1>10, <1>11, <1>12, <1>13, <1>14, <1>15, <1>16, <1>17 DEF Next, Controller

(* TokenInv holds in every reachable state: an update accepted at the cached *)
(* version was computed from the very Secret it replaces, and key, binding   *)
(* and URL of that Secret agree.                                             *)
THEOREM Invariance == Spec => []TokenInv
  BY InitInv, NextInv, PTL DEF Spec

(* In every reachable state the key of a token Secret was generated for the  *)
(* target and the instance UID the Secret claims (or is a legacy hosted key):*)
(* rotateTokenForTarget never leaves an old key under a new binding.         *)
THEOREM KeysFollowBindings == Spec => []KeyFollowsBinding
<1>1. TokenInv => KeyFollowsBinding
  BY DEF TokenInv
<1> QED
  BY <1>1, Invariance, PTL

(* In every reachable state a published URL belongs to the audience of the   *)
(* key beside it: endpoint and key are replaced by one update.               *)
THEOREM EndpointsMatchKeys == Spec => []EndpointMatchesKey
<1>1. TokenInv => EndpointMatchesKey
  BY DEF TokenInv
<1> QED
  BY <1>1, Invariance, PTL

(* What one step of the controller may do to an existing Secret: it works on *)
(* the version it read, which the request it reconciles controls.            *)
LEMMA ControllerWrites ==
  ASSUME TokenInv, Controller, sec.exists, sec' # sec
  PROVE  /\ OwnsTokenSecret(w.tr, sec)
         /\ ~sec'.exists \/ \E d \in Secrets : Derived(sec, d) /\ d # sec
                               /\ sec' = [d EXCEPT !.rv = @ + 1]
<1>1. /\ TypeOK /\ (cSec.rv = sec.rv => cSec = sec)
      /\ w.pc = "ensureSecret" => w.inst.exists /\ Serving(w.inst)
  BY InvByGood
<1>2. IsCurrentSec(cSec) => cSec = sec
  BY <1>1 DEF IsCurrentSec
<1>3. cSec \in Secrets /\ w.inst \in Instances
  BY <1>1 DEF TypeOK, Workers
<1>4. CASE FinalizeTokenRequest
  BY <1>2, <1>4 DEF FinalizeTokenRequest, RemovedSec, NoSecret
<1>5. ASSUME NEW d \in Secrets, Derived(cSec, d), OwnsTokenSecret(w.tr, cSec),
             NEW p, WriteSecret(d, p)
      PROVE  /\ OwnsTokenSecret(w.tr, sec)
             /\ Derived(sec, d) /\ d # sec /\ sec' = [d EXCEPT !.rv = @ + 1]
  BY <1>2, <1>5, ZenonT(30) DEF WriteSecret
<1>6. CASE InvalidateTokenEndpoint
  <2>1. OwnsTokenSecret(w.tr, cSec) /\ WriteSecret(Invalidated(cSec, w.inst), "Pending")
    BY <1>6, ZenonT(30) DEF InvalidateTokenEndpoint
  <2>2. Invalidated(cSec, w.inst) \in Secrets /\ Derived(cSec, Invalidated(cSec, w.inst))
    BY <1>1, <1>3, DesiredTypes, DesiredDerives
  <2> QED
    BY <1>5, <2>1, <2>2
<1>7. CASE EnsureSecret
  <2>1. OwnsTokenSecret(w.tr, cSec) /\ WriteSecret(Published(cSec, w.inst), "Ready")
    BY <1>7, ZenonT(30) DEF EnsureSecret
  <2>2. w.inst.exists /\ Serving(w.inst)
    BY <1>1, <1>7 DEF EnsureSecret
  <2>3. Published(cSec, w.inst) \in Secrets /\ Derived(cSec, Published(cSec, w.inst))
    BY <1>1, <1>3, <2>2, DesiredTypes, DesiredDerives
  <2> QED
    BY <1>5, <2>1, <2>3
<1>8. CASE Reconcile \/ EnsureFinalizer \/ RemoveFinalizer \/ TouchAPITokenRequest \/ UpdateStatus
  BY <1>8, ZenonT(30)
  DEF Reconcile, EnsureFinalizer, RemoveFinalizer, TouchAPITokenRequest, UpdateStatus, objects
<1> QED
  BY <1>4, <1>6, <1>7, <1>8 DEF Controller

(* The controller never changes or deletes a Secret that the request it      *)
(* works on does not control, even when its cached copy is out of date.      *)
THEOREM OnlyOwnSecrets == Spec => OnlyOwnSecretChanged
<1>1. ASSUME TokenInv, [Next]_vars
      PROVE  [Controller /\ sec.exists /\ sec' # sec
                => sec.owner = w.tr.uid /\ sec.owner # 0]_vars
  BY <1>1, ControllerWrites DEF OwnsTokenSecret
<1> QED
  BY <1>1, Invariance, PTL DEF Spec, OnlyOwnSecretChanged

(* The controller replaces a key only together with its binding, so retries, *)
(* restarts and stale reads never rotate a key that is rightly bound.        *)
THEOREM RotationsRebind == Spec => RotationMeansRebinding
<1>1. ASSUME TokenInv, Controller, sec.exists, sec'.exists, sec'.key # sec.key
      PROVE  <<sec'.target, sec'.iuid>> # <<sec.target, sec.iuid>>
  <2>1. PICK d \in Secrets : Derived(sec, d) /\ sec' = [d EXCEPT !.rv = @ + 1]
    BY <1>1, ControllerWrites
  <2>2. sec'.key = d.key /\ sec'.target = d.target /\ sec'.iuid = d.iuid
    BY <2>1 DEF Secrets
  <2> QED
    BY <1>1, <2>1, <2>2 DEF Derived
<1>2. ASSUME TokenInv, [Next]_vars
      PROVE  [Controller /\ sec.exists /\ sec'.exists /\ sec'.key # sec.key
                => <<sec'.target, sec'.iuid>> # <<sec.target, sec.iuid>>]_vars
  BY <1>1, <1>2
<1> QED
  BY <1>2, Invariance, PTL DEF Spec, RotationMeansRebinding
-----------------------------------------------------------------------------
(* Versions.                                                                 *)

(* The shared tail of ensureSecret and invalidateTokenEndpoint writes the    *)
(* Secret that it read, or none.                                             *)
LEMMA WriteSteps ==
  ASSUME TokenInv, NEW d \in Secrets, Derived(cSec, d), cSec.exists,
         OwnsTokenSecret(w.tr, cSec), NEW p, WriteSecret(d, p)
  PROVE  \/ sec' = sec /\ mint' = mint
         \/ /\ cSec = sec /\ sec' = [d EXCEPT !.rv = @ + 1] /\ d # sec
            /\ mint' = mint \/ mint' = Append(mint, <<d.target, d.iuid>>)
<1>1. IsCurrentSec(cSec) => cSec = sec
  BY DEF TokenInv, IsCurrentSec
<1> QED
  BY <1>1, ZenonT(30) DEF WriteSecret

(* Every change of the Secret is a new version.  A Secret that a request     *)
(* controls holds a new key afterwards, or the key it had, for the instance  *)
(* it had it for or for the first one.                                       *)
LEMMA SecretSteps ==
  ASSUME TokenInv, Next, sec' # sec
  PROVE  /\ sec'.rv = sec.rv + 1
         /\ sec'.exists /\ sec'.owner # 0 =>
              \/ sec'.key = Len(mint) + 1
              \/ /\ sec.exists /\ sec.owner # 0 /\ sec'.key = sec.key
                 /\ sec'.iuid = sec.iuid \/ sec.iuid = None
<1>1. TypeOK /\ (w.pc = "ensureSecret" => w.inst.exists /\ Serving(w.inst))
  BY DEF TokenInv
<1>2. sec \in Secrets /\ cSec \in Secrets /\ w.inst \in Instances
  BY <1>1 DEF TypeOK, Workers
<1>3. RemovedSec.rv = sec.rv + 1 /\ RemovedSec.exists = FALSE
  BY DEF RemovedSec, NoSecret
<1>4. ASSUME NEW d \in Secrets, Derived(cSec, d), cSec.exists,
             OwnsTokenSecret(w.tr, cSec), NEW p, WriteSecret(d, p)
      PROVE  /\ sec'.rv = sec.rv + 1
             /\ \/ sec'.key = Len(mint) + 1
                \/ /\ sec.exists /\ sec.owner # 0 /\ sec'.key = sec.key
                   /\ sec'.iuid = sec.iuid \/ sec.iuid = None
  <2>1. cSec = sec /\ sec' = [d EXCEPT !.rv = @ + 1]
    BY <1>4, WriteSteps
  <2>2. sec'.rv = d.rv + 1 /\ sec'.key = d.key /\ sec'.iuid = d.iuid
    BY <2>1 DEF Secrets
  <2> QED
    BY <1>4, <2>1, <2>2 DEF Derived, OwnsTokenSecret
<1>5. CASE FinalizeTokenRequest \/ DeleteSecret \/ CollectSecret
  BY <1>3, <1>5, ZenonT(30) DEF FinalizeTokenRequest, DeleteSecret, CollectSecret
<1>6. CASE InvalidateTokenEndpoint
  <2> DEFINE d == Invalidated(cSec, w.inst)
  <2>1. cSec.exists /\ OwnsTokenSecret(w.tr, cSec) /\ WriteSecret(d, "Pending")
    BY <1>6, ZenonT(30) DEF InvalidateTokenEndpoint
  <2>2. d \in Secrets /\ Derived(cSec, d)
    BY <1>1, <1>2, DesiredTypes, DesiredDerives, ZenonT(30)
  <2> HIDE DEF d
  <2> QED
    BY <1>4, <2>1, <2>2, ZenonT(30)
<1>7. CASE EnsureSecret
  <2>1. CASE ~cSec.exists /\ ~sec.exists
    <3>1. sec' = CreatedSecret(w.tr, w.inst)
      BY <1>7, <2>1, ZenonT(30) DEF EnsureSecret
    <3> QED
      BY <3>1 DEF CreatedSecret
  <2>2. CASE ~(~cSec.exists /\ ~sec.exists)
    <3> DEFINE d == Published(cSec, w.inst)
    <3>1. cSec.exists /\ OwnsTokenSecret(w.tr, cSec) /\ WriteSecret(d, "Ready")
      BY <1>7, <2>2, ZenonT(30) DEF EnsureSecret
    <3>2. w.inst.exists /\ Serving(w.inst)
      BY <1>1, <1>7 DEF EnsureSecret
    <3>3. d \in Secrets /\ Derived(cSec, d)
      BY <1>1, <1>2, <3>2, DesiredTypes, DesiredDerives, ZenonT(30)
    <3> HIDE DEF d
    <3> QED
      BY <1>4, <3>1, <3>3, ZenonT(30)
  <2> QED
    BY <2>1, <2>2
<1>8. CASE ReplaceKey
  <2>1. sec' = [sec EXCEPT !.key = Len(mint) + 1, !.rv = @ + 1]
    BY <1>8 DEF ReplaceKey
  <2> QED
    BY <1>2, <2>1 DEF Secrets
<1>9. CASE CreateForeignSecret
  <2>1. sec' = [NoSecret(sec.rv + 1) EXCEPT !.exists = TRUE]
    BY <1>9 DEF CreateForeignSecret
  <2> QED
    BY <2>1 DEF NoSecret
<1>10. CASE SyncTr \/ SyncSec \/ SyncInst \/ Restart \/ CallFails
  BY <1>10, ZenonT(30) DEF SyncTr, SyncSec, SyncInst, Restart, CallFails, objects
<1>11. CASE Reconcile \/ EnsureFinalizer \/ RemoveFinalizer \/ TouchAPITokenRequest \/ UpdateStatus
  BY <1>11, ZenonT(30)
  DEF Reconcile, EnsureFinalizer, RemoveFinalizer, TouchAPITokenRequest, UpdateStatus, objects
<1>12. CASE Environment /\ ~(ReplaceKey \/ CreateForeignSecret \/ DeleteSecret \/ CollectSecret)
  BY <1>12, ZenonT(30) DEF Environment, CreateRequest, Retarget, DeleteRequest,
     CreateInstance, SwitchMode, ReleaseTarget, BecomeReady, BecomeUnready,
     DeleteInstance, RemoveInstance, ActivateTarget, SetInst
<1> QED
  BY <1>5, <1>6, <1>7, <1>8, <1>9, <1>10, <1>11, <1>12, ZenonT(30) DEF Next, Controller

(* The history of keys only grows.                                           *)
LEMMA MintSteps ==
  ASSUME TokenInv, Next
  PROVE  mint' = mint \/ \E x : mint' = Append(mint, x)
<1>1. ASSUME NEW d, NEW p, WriteSecret(d, p)
      PROVE  mint' = mint \/ \E x : mint' = Append(mint, x)
  BY <1>1, ZenonT(30) DEF WriteSecret
<1>2. CASE InvalidateTokenEndpoint \/ EnsureSecret
  BY <1>1, <1>2, ZenonT(30) DEF InvalidateTokenEndpoint, EnsureSecret
<1>3. CASE ReplaceKey
  BY <1>3, ZenonT(30) DEF ReplaceKey
<1>4. CASE SyncTr \/ SyncSec \/ SyncInst \/ Restart \/ CallFails
  BY <1>4, ZenonT(30) DEF SyncTr, SyncSec, SyncInst, Restart, CallFails
<1>5. CASE \/ Reconcile \/ EnsureFinalizer \/ RemoveFinalizer \/ TouchAPITokenRequest
           \/ UpdateStatus \/ FinalizeTokenRequest
  BY <1>5, ZenonT(30) DEF Reconcile, EnsureFinalizer, RemoveFinalizer, TouchAPITokenRequest,
     UpdateStatus, FinalizeTokenRequest
<1>6. CASE Environment /\ ~ReplaceKey
  BY <1>6, ZenonT(30) DEF Environment, CreateRequest, Retarget, DeleteRequest, DeleteSecret,
     CreateForeignSecret, CollectSecret, CreateInstance, SwitchMode, ReleaseTarget,
     BecomeReady, BecomeUnready, DeleteInstance, RemoveInstance, ActivateTarget, SetInst
<1> QED
  BY <1>2, <1>3, <1>4, <1>5, <1>6, ZenonT(30) DEF Next, Controller
-----------------------------------------------------------------------------
(* A request that reports Ready.                                             *)

(* An instance keeps a UID of its own name.                                  *)
LEMMA InstanceNames ==
  ASSUME TypeOK, VersionInv, Next
  PROVE  \A n \in Names : inst'[n].uid[1] = n /\ cInst'[n].uid[1] = n
<1>1. /\ \A n \in Names : inst[n].uid[1] = n /\ cInst[n].uid[1] = n
      /\ inst \in [Names -> Instances] /\ budget.names \subseteq Names
  BY DEF VersionInv, TypeOK, Bounds
<1>2. ASSUME NEW n \in Names, NEW i, i.uid[1] = n, SetInst(n, i)
      PROVE  \A m \in Names : inst'[m].uid[1] = m /\ cInst'[m].uid[1] = m
  <2>1. inst' = [inst EXCEPT ![n] = i] /\ cInst' = cInst
    BY <1>2 DEF SetInst, caches
  <2> QED
    BY <1>1, <1>2, <2>1
<1>3. ASSUME NEW n \in Names,
             \/ CreateInstance(n) \/ SwitchMode(n) \/ ReleaseTarget(n) \/ BecomeReady(n)
             \/ BecomeUnready(n) \/ DeleteInstance(n) \/ RemoveInstance(n)
             \/ \E t \in Targets : ActivateTarget(n, t)
      PROVE  \E i : i.uid[1] = n /\ SetInst(n, i)
  <2>1. inst[n] \in Instances /\ inst[n].uid[1] = n
    BY <1>1
  <2>2. \A u : NoInstance(u).uid = u
    BY DEF NoInstance
  <2>3. CASE CreateInstance(n)
    <3> DEFINE u == <<n, inst[n].uid[2] + 1>>
    <3>1. PICK b \in BOOLEAN : SetInst(n, [NoInstance(u) EXCEPT !.exists = TRUE, !.byoc = b])
      BY <2>3, ZenonT(30) DEF CreateInstance
    <3>2. [NoInstance(u) EXCEPT !.exists = TRUE, !.byoc = b].uid = u /\ u[1] = n
      BY DEF NoInstance
    <3> QED
      BY <3>1, <3>2, ZenonT(30)
  <2>4. CASE RemoveInstance(n)
    BY <2>1, <2>2, <2>4, ZenonT(30) DEF RemoveInstance
  <2>5. CASE \E t \in Targets : ActivateTarget(n, t)
    <3>1. PICK t \in Targets :
            SetInst(n, [inst[n] EXCEPT !.active = TRUE, !.target = t, !.ready = FALSE])
      BY <2>5, ZenonT(30) DEF ActivateTarget
    <3>2. [inst[n] EXCEPT !.active = TRUE, !.target = t, !.ready = FALSE].uid = inst[n].uid
      BY <2>1, ZenonT(30) DEF Instances
    <3> QED
      BY <2>1, <3>1, <3>2, ZenonT(30)
  <2>6. /\ [inst[n] EXCEPT !.byoc = ~@, !.ready = FALSE].uid = inst[n].uid
        /\ [inst[n] EXCEPT !.active = FALSE, !.target = None].uid = inst[n].uid
        /\ [inst[n] EXCEPT !.ready = TRUE].uid = inst[n].uid
        /\ [inst[n] EXCEPT !.ready = FALSE].uid = inst[n].uid
        /\ [inst[n] EXCEPT !.deleting = TRUE, !.ready = FALSE].uid = inst[n].uid
    BY <2>1, ZenonT(30) DEF Instances
  <2>7. CASE \/ SwitchMode(n) \/ ReleaseTarget(n) \/ BecomeReady(n)
             \/ BecomeUnready(n) \/ DeleteInstance(n)
    BY <2>1, <2>6, <2>7, ZenonT(30)
    DEF SwitchMode, ReleaseTarget, BecomeReady, BecomeUnready, DeleteInstance
  <2> QED
    BY <1>3, <2>3, <2>4, <2>5, <2>7
<1>4. CASE \E n \in budget.names :
             \/ CreateInstance(n) \/ SwitchMode(n) \/ ReleaseTarget(n) \/ BecomeReady(n)
             \/ BecomeUnready(n) \/ DeleteInstance(n) \/ RemoveInstance(n)
             \/ \E t \in Targets : ActivateTarget(n, t)
  BY <1>1, <1>2, <1>3, <1>4, ZenonT(30)
<1>5. CASE /\ Environment
           /\ ~\E n \in budget.names :
                \/ CreateInstance(n) \/ SwitchMode(n) \/ ReleaseTarget(n) \/ BecomeReady(n)
                \/ BecomeUnready(n) \/ DeleteInstance(n) \/ RemoveInstance(n)
                \/ \E t \in Targets : ActivateTarget(n, t)
  <2>1. UNCHANGED <<inst, cInst>>
    BY <1>5, ZenonT(30) DEF Environment, CreateRequest, Retarget, DeleteRequest, ReplaceKey,
       DeleteSecret, CreateForeignSecret, CollectSecret, caches
  <2> QED
    BY <1>1, <2>1, ZenonT(30)
<1>6. CASE SyncInst \/ Restart
  <2>1. inst' = inst /\ cInst' = inst
    BY <1>6, ZenonT(30) DEF SyncInst, Restart, objects
  <2> QED
    BY <1>1, <2>1, ZenonT(30)
<1>7. CASE SyncTr \/ SyncSec \/ CallFails \/ Controller
  <2>1. UNCHANGED <<inst, cInst>>
    BY <1>7, ZenonT(30) DEF SyncTr, SyncSec, CallFails, Controller, Reconcile, EnsureFinalizer,
       FinalizeTokenRequest, RemoveFinalizer, InvalidateTokenEndpoint, EnsureSecret,
       TouchAPITokenRequest, UpdateStatus, objects, caches
  <2> QED
    BY <1>1, <2>1, ZenonT(30)
<1> QED
  BY <1>4, <1>5, <1>6, <1>7, ZenonT(30) DEF Next

(* The numbers that are compared.                                            *)
LEMMA VersionTypes ==
  ASSUME TypeOK
  PROVE  /\ tr.rv \in Nat /\ tr.version \in Nat /\ tr.gen \in Nat /\ tr.observed \in Nat
         /\ cTr.rv \in Nat /\ cTr.version \in Nat /\ sec.rv \in Nat /\ cSec.rv \in Nat
         /\ w.tr.rv \in Nat /\ w.tr.version \in Nat /\ w.ver \in Nat
<1>1. tr \in Requests /\ cTr \in Requests /\ sec \in Secrets /\ cSec \in Secrets /\ w \in Workers
  BY DEF TypeOK
<1>2. w.tr \in Requests /\ w.ver \in Nat
  BY <1>1, ZenonT(30) DEF Workers
<1> QED
  BY <1>1, <1>2, ZenonT(30) DEF Requests, Secrets

(* What has to be shown of a step, beyond the versions.                      *)
LEMMA ReadyStep ==
  ASSUME ReadyInv, Next, tr' = tr \/ tr'.rv = tr.rv + 1,
         cTr' = cTr \/ (cTr' = tr /\ tr' = tr),
         tr'.version <= sec'.rv, tr'.observed <= tr'.gen,
         HandlerInv', ReadyNamesTheInstance'
  PROVE  ReadyInv'
<1>1. TokenInv /\ VersionInv /\ TypeOK /\ TokenInv' /\ TypeOK'
  BY NextInv DEF ReadyInv, TokenInv
<1>2. \A n \in Names : inst'[n].uid[1] = n /\ cInst'[n].uid[1] = n
  BY <1>1, InstanceNames
<1>3. sec' = sec \/ sec'.rv = sec.rv + 1
  BY <1>1, SecretSteps
<1>4. /\ tr.rv \in Nat /\ cTr.rv \in Nat /\ cTr.version \in Nat /\ sec.rv \in Nat
      /\ cTr.rv <= tr.rv /\ (cTr.rv = tr.rv => cTr = tr)
      /\ tr.version <= sec.rv /\ cTr.version <= sec.rv
  BY <1>1, VersionTypes, ZenonT(30) DEF VersionInv
<1>5. cTr'.rv <= tr'.rv /\ (cTr'.rv = tr'.rv => cTr' = tr')
  BY <1>4
<1>6. cTr'.version <= sec'.rv
  BY <1>3, <1>4
<1>7. VersionInv'
  BY <1>2, <1>5, <1>6, ZenonT(30) DEF VersionInv
<1> QED
  BY <1>1, <1>7, ZenonT(30) DEF ReadyInv

(* A handler that does nothing, or has returned, when versions move on.      *)
LEMMA HandlerStays ==
  ASSUME TypeOK, HandlerInv, w' = w \/ w' = Idle,
         tr' = tr \/ tr'.rv = tr.rv + 1, sec' = sec \/ sec'.rv = sec.rv + 1
  PROVE  HandlerInv'
<1>1. CASE w' = Idle
  BY <1>1 DEF HandlerInv, Idle
<1>2. CASE w' = w /\ w.pc # "idle"
  <2>1. /\ tr.rv \in Nat /\ sec.rv \in Nat /\ w.tr.rv \in Nat /\ w.tr.version \in Nat
        /\ w.ver \in Nat /\ w.tr.rv <= tr.rv /\ w.tr.version <= sec.rv /\ w.ver <= sec.rv
    BY <1>2, VersionTypes, ZenonT(30) DEF HandlerInv
  <2>2. w.tr.rv <= tr'.rv /\ (w.tr.rv = tr'.rv => tr' = tr)
    BY <2>1
  <2>3. /\ w.tr.version <= sec'.rv /\ w.ver <= sec'.rv
        /\ sec'.rv = w.ver \/ sec'.rv = w.tr.version => sec' = sec
    BY <2>1
  <2> QED
    BY <1>2, <2>2, <2>3, ZenonT(30) DEF HandlerInv
<1>3. CASE w' = w /\ w.pc = "idle"
  BY <1>3, ZenonT(30) DEF HandlerInv
<1> QED
  BY <1>1, <1>2, <1>3

(* What a request reports stays true when the Secret moves on, and when the  *)
(* request is not about to report Ready, or for another instance.            *)
LEMMA ReadyStays ==
  ASSUME TypeOK, VersionInv, ReadyNamesTheInstance, sec' = sec \/ sec'.rv = sec.rv + 1,
         \/ ~tr'.exists \/ tr'.phase # "Ready" \/ tr'.observed # tr'.gen
         \/ /\ tr'.exists = tr.exists /\ tr'.phase = tr.phase /\ tr'.observed = tr.observed
            /\ tr'.gen = tr.gen /\ tr'.uid = tr.uid /\ tr'.version = tr.version
            /\ tr'.name = tr.name
  PROVE  ReadyNamesTheInstance'
<1>1. tr.version \in Nat /\ sec.rv \in Nat /\ tr.version <= sec.rv
  BY VersionTypes, ZenonT(30) DEF VersionInv
<1>2. sec'.rv = tr.version => sec' = sec
  BY <1>1
<1> QED
  BY <1>2, ZenonT(30) DEF ReadyNamesTheInstance
(* A handler that has just read the request from the cache.                  *)
LEMMA HandlerReads ==
  ASSUME TypeOK, VersionInv, tr' = tr, sec' = sec, w'.tr = cTr, w'.ver <= sec.rv,
         w'.pc \notin {"touch", "status"},
         w'.pc \in {"invalidate", "ensureSecret"} => w'.inst.uid[1] = cTr.name
  PROVE  HandlerInv'
BY ZenonT(30) DEF VersionInv, HandlerInv

(* ensureSecret and invalidateTokenEndpoint know the URL at the version they *)
(* wrote or found.                                                           *)
LEMMA WriteReady ==
  ASSUME ReadyInv, NEW d \in Secrets, Derived(cSec, d), cSec.exists, tr' = tr,
         w.pc \in {"invalidate", "ensureSecret"}, OwnsTokenSecret(w.tr, cSec),
         NEW p \in {"Pending", "Ready"}, WriteSecret(d, p),
         d.url = IF p = "Ready" THEN Endpoint(w.inst) ELSE None
  PROVE  HandlerInv'
<1>1. TypeOK /\ cSec.rv <= sec.rv /\ (cSec.rv = sec.rv => cSec = sec)
  BY DEF ReadyInv, TokenInv
<1>2. /\ w.tr.rv <= tr.rv /\ w.tr.version <= sec.rv /\ w.inst.uid[1] = w.tr.name
      /\ w.tr.rv = tr.rv /\ tr.exists => w.tr.name = tr.name /\ w.tr.version = tr.version
  BY ZenonT(30) DEF ReadyInv, HandlerInv
<1>3. /\ sec.rv \in Nat /\ cSec.rv \in Nat /\ w.tr.version \in Nat /\ w \in Workers
  BY <1>1, VersionTypes DEF TypeOK
<1>4. ASSUME NEW v, w' = [w EXCEPT !.pc = "touch", !.ver = v, !.phase = p],
             sec' = sec \/ sec'.rv = sec.rv + 1, v <= sec'.rv,
             sec'.rv = v => sec'.url = d.url
      PROVE  HandlerInv'
  <2>1. /\ w'.pc = "touch" /\ w'.ver = v /\ w'.phase = p /\ w'.tr = w.tr /\ w'.inst = w.inst
    BY <1>3, <1>4 DEF Workers
  <2>2. w.tr.version <= sec'.rv
    BY <1>2, <1>3, <1>4
  <2>3. Endpoint(w.inst)' = Endpoint(w.inst)
    BY <2>1, ZenonT(30) DEF Endpoint, Binding, IsByoc
  <2> QED
    BY <1>2, <1>4, <2>1, <2>2, <2>3, ZenonT(30) DEF HandlerInv
<1>5. CASE d = cSec
  <2>1. w' = [w EXCEPT !.pc = "touch", !.ver = cSec.rv, !.phase = p] /\ sec' = sec
    BY <1>5, ZenonT(30) DEF WriteSecret
  <2> QED
    BY <1>1, <1>4, <1>5, <2>1, ZenonT(30)
<1>6. CASE d # cSec /\ IsCurrentSec(cSec)
  <2>1. /\ w' = [w EXCEPT !.pc = "touch", !.ver = cSec.rv + 1, !.phase = p]
        /\ sec' = [d EXCEPT !.rv = @ + 1]
    BY <1>6, ZenonT(30) DEF WriteSecret
  <2>2. sec'.rv = cSec.rv + 1 /\ sec'.url = d.url
    BY <2>1 DEF Secrets, Derived
  <2>3. sec'.rv = sec.rv + 1 /\ cSec.rv + 1 <= sec'.rv
    BY <1>3, <1>6, <2>2 DEF IsCurrentSec
  <2> QED
    BY <1>4, <2>1, <2>2, <2>3, ZenonT(30)
<1>7. CASE d # cSec /\ ~IsCurrentSec(cSec)
  <2>1. w' = Idle /\ sec' = sec
    BY <1>7, ZenonT(30) DEF WriteSecret, Return
  <2> QED
    BY <1>1, <2>1, HandlerStays, ZenonT(30) DEF ReadyInv
<1> QED
  BY <1>5, <1>6, <1>7

(* The URL of the Secret that ensureSecret, and invalidateTokenEndpoint,     *)
(* compute.                                                                  *)
LEMMA DesiredUrls ==
  ASSUME TypeOK, NEW s \in Secrets, NEW i \in Instances
  PROVE  Invalidated(s, i).url = None /\ Published(s, i).url = Endpoint(i)
<1>1. \A h \in BOOLEAN : \A g : RotateTokenForTarget(s, i, h, g) \in Secrets
  BY RotateDerives, ZenonT(30)
<1>2. Invalidated(s, i).url = None
  <2> DEFINE r == RotateTokenForTarget(s, i, FALSE, None)
             x == IF i.exists /\ IsByoc(i) /\ i.target # None THEN NameOf(i) ELSE r.label
  <2>1. Invalidated(s, i) = [r EXCEPT !.label = x, !.url = None]
    BY DEF Invalidated
  <2>2. r \in Secrets
    BY <1>1, ZenonT(30)
  <2> HIDE DEF r, x
  <2> QED
    BY <2>1, <2>2 DEF Secrets
<1>3. Published(s, i).url = Endpoint(i)
  <2> DEFINE r == RotateTokenForTarget(s, i, TRUE, Slug(i))
  <2>1. Published(s, i) = [r EXCEPT !.label = NameOf(i), !.slug = Slug(i), !.url = Endpoint(i)]
    BY DEF Published
  <2>2. r \in Secrets
    BY <1>1, ZenonT(30)
  <2> HIDE DEF r
  <2> QED
    BY <2>1, <2>2 DEF Secrets
<1> QED
  BY <1>2, <1>3

(* touchAPITokenRequest records the version of a Secret whose URL is the one *)
(* the handler computed.                                                     *)
LEMMA TouchReady ==
  ASSUME ReadyInv, TouchAPITokenRequest
  PROVE  HandlerInv' /\ ReadyNamesTheInstance' /\ (tr' = tr \/ tr'.rv = tr.rv + 1)
         /\ tr'.version <= sec'.rv /\ tr'.observed <= tr'.gen
<1>1. /\ TypeOK /\ VersionInv /\ HandlerInv /\ ReadyNamesTheInstance
      /\ sec' = sec /\ w.pc = "touch" /\ w \in Workers /\ tr \in Requests /\ w.tr \in Requests
  BY DEF ReadyInv, TokenInv, TypeOK, TouchAPITokenRequest, Workers
<1>2. /\ w.tr.rv <= tr.rv /\ w.tr.version <= sec.rv /\ w.inst.uid[1] = w.tr.name
      /\ w.tr.rv = tr.rv /\ tr.exists => w.tr.name = tr.name /\ w.tr.version = tr.version
      /\ w.ver <= sec.rv /\ w.phase \in {"Pending", "Ready"}
      /\ sec.exists /\ sec.rv = w.ver =>
           sec.url = IF w.phase = "Ready" THEN Endpoint(w.inst) ELSE None
  BY <1>1, ZenonT(30) DEF HandlerInv
<1>3. tr.version <= sec.rv /\ tr.observed <= tr.gen /\ tr.rv \in Nat
  BY <1>1, VersionTypes, ZenonT(30) DEF VersionInv
<1>4. ASSUME NEW t \in Requests,
             w' = [w EXCEPT !.pc = "status", !.tr = [t EXCEPT !.secret = @ \/ w.phase = "Pending"]],
             t.rv <= tr'.rv, t.version = w.ver, t.name = w.tr.name,
             t.rv = tr'.rv /\ tr'.exists => t.name = tr'.name /\ t.version = tr'.version
      PROVE  HandlerInv'
  <2>1. /\ w'.pc = "status" /\ w'.phase = w.phase /\ w'.inst = w.inst /\ w'.ver = w.ver
        /\ w'.tr = [t EXCEPT !.secret = @ \/ w.phase = "Pending"]
    BY <1>1, <1>4 DEF Workers
  <2>2. w'.tr.rv = t.rv /\ w'.tr.version = t.version /\ w'.tr.name = t.name
    BY <2>1 DEF Requests
  <2>3. Endpoint(w.inst)' = Endpoint(w.inst)
    BY <2>1, ZenonT(30) DEF Endpoint, Binding, IsByoc
  <2> QED
    BY <1>1, <1>2, <1>4, <2>1, <2>2, <2>3, ZenonT(30) DEF HandlerInv
<1>5. CASE w.tr.version = w.ver
  <2>1. /\ tr' = tr
        /\ w' = [w EXCEPT !.pc = "status", !.tr = [w.tr EXCEPT !.secret = @ \/ w.phase = "Pending"]]
    BY <1>5, ZenonT(30) DEF TouchAPITokenRequest
  <2>2. HandlerInv'
    BY <1>1, <1>2, <1>4, <1>5, <2>1, ZenonT(30)
  <2>3. ReadyNamesTheInstance'
    BY <1>1, <2>1, ReadyStays, ZenonT(30)
  <2> QED
    BY <1>1, <1>3, <2>1, <2>2, <2>3, ZenonT(30)
<1>6. CASE w.tr.version # w.ver /\ IsCurrentTr(w.tr)
  <2>1. /\ tr' = [tr EXCEPT !.version = w.ver, !.rv = @ + 1]
        /\ w' = [w EXCEPT !.pc = "status", !.tr = [tr' EXCEPT !.secret = @ \/ w.phase = "Pending"]]
    BY <1>6, ZenonT(30) DEF TouchAPITokenRequest
  <2>2. /\ tr'.rv = tr.rv + 1 /\ tr'.version = w.ver /\ tr'.name = tr.name
        /\ tr'.observed = tr.observed /\ tr'.gen = tr.gen
    BY <1>1, <2>1 DEF Requests
  <2>3. tr' \in Requests /\ tr'.rv <= tr'.rv
    <3>1. w.ver \in Nat /\ tr.rv + 1 \in Nat
      BY <1>1, <1>3, VersionTypes
    <3>2. tr' \in Requests
      BY <1>1, <2>1, <3>1, ZenonT(30) DEF Requests
    <3> QED
      BY <1>3, <2>2, <3>2
  <2>4. tr.name = w.tr.name
    BY <1>2, <1>6 DEF IsCurrentTr
  <2>5. HandlerInv'
    BY <1>4, <2>1, <2>2, <2>3, <2>4, ZenonT(30)
  <2>6. Endpoint(w.inst)[2] = w.inst.uid
    BY DEF Endpoint, Binding
  <2>7. ReadyNamesTheInstance'
    <3>1. ASSUME sec.exists, tr'.version = sec.rv, sec.url # None
          PROVE  sec.url[2][1] = tr'.name
      BY <1>2, <2>2, <2>4, <2>6, <3>1, ZenonT(30)
    <3> QED
      BY <1>1, <3>1, ZenonT(30) DEF ReadyNamesTheInstance
  <2> QED
    BY <1>1, <1>2, <1>3, <2>2, <2>5, <2>7, ZenonT(30)
<1>7. CASE w.tr.version # w.ver /\ ~IsCurrentTr(w.tr)
  <2>1. tr' = tr /\ w' = Idle
    BY <1>7, ZenonT(30) DEF TouchAPITokenRequest, Return
  <2>2. HandlerInv'
    BY <1>1, <2>1, HandlerStays, ZenonT(30)
  <2>3. ReadyNamesTheInstance'
    BY <1>1, <2>1, ReadyStays, ZenonT(30)
  <2> QED
    BY <1>1, <1>3, <2>1, <2>2, <2>3, ZenonT(30)
<1> QED
  BY <1>5, <1>6, <1>7

(* updateReadyStatus reports what the handler did for the very request that  *)
(* is stored.                                                                *)
LEMMA StatusReady ==
  ASSUME ReadyInv, UpdateStatus
  PROVE  HandlerInv' /\ ReadyNamesTheInstance' /\ (tr' = tr \/ tr'.rv = tr.rv + 1)
         /\ tr'.version <= sec'.rv /\ tr'.observed <= tr'.gen
<1> DEFINE new == [tr EXCEPT !.phase = w.phase, !.observed = tr.gen,
                             !.secret = w.tr.secret \/ w.phase = "Ready"]
<1>1. /\ TypeOK /\ VersionInv /\ HandlerInv /\ ReadyNamesTheInstance
      /\ sec' = sec /\ w.pc = "status" /\ w' = Idle /\ tr \in Requests
      /\ tr' = tr \/ (IsCurrentTr(w.tr) /\ tr' = [new EXCEPT !.rv = @ + 1])
  BY ZenonT(30) DEF ReadyInv, TokenInv, TypeOK, UpdateStatus, Return
<1>2. tr.version <= sec.rv /\ tr.observed <= tr.gen /\ tr.rv \in Nat /\ tr.gen \in Nat
  BY <1>1, VersionTypes, ZenonT(30) DEF VersionInv
<1>3. CASE tr' = tr
  <2>1. HandlerInv' /\ ReadyNamesTheInstance'
    BY <1>1, <1>3, HandlerStays, ReadyStays, ZenonT(30)
  <2> QED
    BY <1>1, <1>2, <1>3, <2>1, ZenonT(30)
<1>4. CASE IsCurrentTr(w.tr) /\ tr' = [new EXCEPT !.rv = @ + 1]
  <2>1. /\ tr'.rv = tr.rv + 1 /\ tr'.version = tr.version /\ tr'.name = tr.name
        /\ tr'.observed = tr.gen /\ tr'.gen = tr.gen /\ tr'.phase = w.phase
    BY <1>1, <1>4 DEF Requests
  <2>2. HandlerInv'
    BY <1>1, <2>1, HandlerStays, ZenonT(30)
  <2>3. /\ w.tr.name = tr.name /\ w.tr.version = tr.version /\ w.inst.uid[1] = w.tr.name
        /\ w.phase = "Ready" /\ sec.exists /\ sec.rv = w.tr.version => sec.url = Endpoint(w.inst)
    BY <1>1, <1>4, ZenonT(30) DEF HandlerInv, IsCurrentTr
  <2>4. Endpoint(w.inst)[2] = w.inst.uid
    BY DEF Endpoint, Binding
  <2>5. ReadyNamesTheInstance'
    <3>1. ASSUME tr'.phase = "Ready", sec.exists, tr'.version = sec.rv
          PROVE  sec.url[2][1] = tr'.name
      BY <2>1, <2>3, <2>4, <3>1, ZenonT(30)
    <3> QED
      BY <1>1, <3>1, ZenonT(30) DEF ReadyNamesTheInstance
  <2>6. tr'.observed <= tr'.gen
    BY <1>2, <2>1
  <2> QED
    BY <1>1, <1>2, <2>1, <2>2, <2>5, <2>6, ZenonT(30)
<1> QED
  BY <1>1, <1>3, <1>4
(* Nothing was reported yet, or a legacy key of the instance named.          *)
LEMMA InitReady == Init => ReadyInv
<1> SUFFICES ASSUME Init PROVE ReadyInv
  OBVIOUS
<1>1. TokenInv
  BY InitInv
<1>2. w.pc = "idle" /\ cTr = tr /\ cInst = inst
  BY ZenonT(30) DEF Init, Idle
<1>3. ASSUME NEW n \in Names PROVE inst[n].uid[1] = n
  <2> DEFINE i == [NoInstance(<<n, 1>>) EXCEPT !.exists = TRUE, !.ready = TRUE]
  <2>1. inst[n] \in SettledInstances(n)
    BY ZenonT(30) DEF Init
  <2>2. NoInstance(<<n, 0>>).uid = <<n, 0>> /\ i.uid = <<n, 1>>
    BY DEF NoInstance
  <2>3. \A t \in Targets : [i EXCEPT !.byoc = TRUE, !.active = TRUE, !.target = t].uid = <<n, 1>>
    BY DEF NoInstance
  <2>4. inst[n].uid = <<n, 0>> \/ inst[n].uid = <<n, 1>>
    BY <2>1, <2>2, <2>3, ZenonT(30) DEF SettledInstances
  <2> QED
    BY <2>4
<1>4. /\ tr.rv \in Nat /\ tr.version = 0 /\ sec.rv \in Nat /\ tr.observed = tr.gen
      /\ tr.gen \in Nat /\ (sec.exists => tr.version # sec.rv)
  <2>1. CASE InitFresh
    BY <2>1 DEF InitFresh, NoRequest, NoSecret
  <2>2. CASE InitLegacy
    <3>1. PICK n \in Names :
            /\ tr = [NoRequest(n, 1, 1) EXCEPT !.exists = TRUE, !.gen = 1, !.finalizer = TRUE,
                       !.phase = "Ready", !.secret = TRUE, !.observed = 1]
            /\ sec = [NoSecret(1) EXCEPT !.exists = TRUE, !.owner = 1, !.key = 1, !.label = n,
                       !.slug = inst[n].uid, !.url = Endpoint(inst[n])]
      BY <2>2, ZenonT(30) DEF InitLegacy
    <3>2. tr.rv = 1 /\ tr.version = 0 /\ tr.gen = 1 /\ tr.observed = 1
      BY <3>1 DEF NoRequest
    <3>3. sec.rv = 1
      BY <3>1 DEF NoSecret
    <3> QED
      BY <3>2, <3>3
  <2> QED
    BY <2>1, <2>2 DEF Init
<1>5. VersionInv
  BY <1>2, <1>3, <1>4 DEF VersionInv
<1>6. HandlerInv
  BY <1>2, ZenonT(30) DEF HandlerInv
<1>7. ReadyNamesTheInstance
  BY <1>4, ZenonT(30) DEF ReadyNamesTheInstance
<1> QED
  BY <1>1, <1>5, <1>6, <1>7, ZenonT(30) DEF ReadyInv

(* Every step of the system keeps the invariant.                             *)
LEMMA NextReady == ReadyInv /\ [Next]_vars => ReadyInv'
<1>0. ASSUME ReadyInv, UNCHANGED vars PROVE ReadyInv'
  <2>1. TokenInv'
    BY <1>0, NextInv, ZenonT(30) DEF ReadyInv
  <2>2. UNCHANGED <<inst, tr, sec, cInst, cTr, cSec, w>>
    BY <1>0, ZenonT(30) DEF vars
  <2>3. VersionInv' /\ ReadyNamesTheInstance'
    BY <1>0, <2>2, ZenonT(30) DEF ReadyInv, VersionInv, ReadyNamesTheInstance
  <2>4. HandlerInv'
    BY <1>0, <2>2, HandlerStays, ZenonT(30) DEF ReadyInv, TokenInv
  <2> QED
    BY <2>1, <2>3, <2>4, ZenonT(30) DEF ReadyInv
<1> SUFFICES ASSUME ReadyInv, Next PROVE ReadyInv'
  BY <1>0, ZenonT(30)
<1>1. /\ TokenInv /\ TypeOK /\ VersionInv /\ HandlerInv /\ ReadyNamesTheInstance
      /\ tr \in Requests /\ w \in Workers /\ w.inst \in Instances /\ cSec \in Secrets
  BY DEF ReadyInv, TokenInv, TypeOK, Workers
<1>2. sec' = sec \/ sec'.rv = sec.rv + 1
  BY <1>1, SecretSteps
<1>3. /\ tr.version \in Nat /\ tr.gen \in Nat /\ tr.observed \in Nat /\ tr.rv \in Nat
      /\ sec.rv \in Nat /\ tr.version <= sec.rv /\ tr.observed <= tr.gen
  BY <1>1, VersionTypes, ZenonT(30) DEF VersionInv
<1>4. tr.version <= sec'.rv /\ 0 <= sec'.rv
  BY <1>2, <1>3
<1>5. ASSUME tr' = tr, cTr' = cTr \/ cTr' = tr, HandlerInv' PROVE ReadyInv'
  <2>1. ReadyNamesTheInstance'
    BY <1>1, <1>2, <1>5, ReadyStays, ZenonT(30)
  <2> QED
    BY <1>3, <1>4, <1>5, <2>1, ReadyStep, ZenonT(30)
<1>6. ASSUME tr'.rv = tr.rv + 1, cTr' = cTr, w' = w \/ w' = Idle,
             tr'.version \in {0, tr.version}, tr'.observed <= tr'.gen,
             \/ ~tr'.exists \/ tr'.phase # "Ready" \/ tr'.observed # tr'.gen
             \/ /\ tr'.exists = tr.exists /\ tr'.phase = tr.phase /\ tr'.observed = tr.observed
                /\ tr'.gen = tr.gen /\ tr'.uid = tr.uid /\ tr'.version = tr.version
                /\ tr'.name = tr.name
      PROVE  ReadyInv'
  <2>1. HandlerInv'
    BY <1>1, <1>2, <1>6, HandlerStays, ZenonT(30)
  <2>2. ReadyNamesTheInstance'
    BY <1>1, <1>2, <1>6, ReadyStays, ZenonT(30)
  <2> QED
    BY <1>4, <1>6, <2>1, <2>2, ReadyStep, ZenonT(30)
<1>7. /\ RemovedTr.rv = tr.rv + 1 /\ RemovedTr.version = 0 /\ ~RemovedTr.exists
      /\ RemovedTr.observed = 0 /\ RemovedTr.gen = 0
  BY DEF RemovedTr, NoRequest
<1>8. ASSUME w.pc = "finalize", w' = [w EXCEPT !.pc = "removeFinalizer"], tr' = tr
      PROVE  HandlerInv'
  <2>1. w'.pc = "removeFinalizer" /\ w'.tr = w.tr /\ w'.ver = w.ver
    BY <1>1, <1>8 DEF Workers
  <2>2. /\ w.tr.version \in Nat /\ w.ver \in Nat
        /\ w.tr.version <= sec.rv /\ w.ver <= sec.rv /\ w.tr.rv <= tr.rv
        /\ w.tr.rv = tr.rv /\ tr.exists => w.tr.name = tr.name /\ w.tr.version = tr.version
    BY <1>1, <1>8, VersionTypes, ZenonT(30) DEF HandlerInv
  <2>3. w.tr.version <= sec'.rv /\ w.ver <= sec'.rv
    BY <1>2, <1>3, <2>2
  <2> QED
    BY <1>8, <2>1, <2>2, <2>3 DEF HandlerInv
<1>9. CASE Reconcile
  <2> DEFINE i == cInst[cTr.name]
             Call(step) == [Idle EXCEPT !.pc = step, !.tr = cTr]
             With(step) == [Call(step) EXCEPT !.inst = i]
  <2>1. UNCHANGED <<tr, sec, cTr>>
    BY <1>9, ZenonT(30) DEF Reconcile, objects, caches
  <2>2. \/ w' \in {Idle, Call("finalize"), Call("ensureFinalizer")}
        \/ w' \in {With("invalidate"), With("ensureSecret")}
    BY <1>1, <1>9 DEF Reconcile, TypeOK, Requests
  <2>3. /\ \A step : Call(step).pc = step /\ With(step).pc = step /\ With(step).inst = i
        /\ \A step : Call(step).tr = cTr /\ With(step).tr = cTr
        /\ \A step : Call(step).ver = 0 /\ With(step).ver = 0
    BY DEF Idle
  <2>4. cTr.name \in Names /\ i.uid[1] = cTr.name /\ 0 <= sec.rv
    BY <1>1, <1>3 DEF VersionInv, TypeOK, Requests
  <2> HIDE DEF i, Call, With
  <2>5. CASE w' = Idle
    BY <1>1, <1>2, <1>5, <2>1, <2>5, HandlerStays, ZenonT(30)
  <2>6. CASE w' # Idle
    <3>1. /\ w'.tr = cTr /\ w'.ver = 0 /\ w'.pc \notin {"touch", "status"}
          /\ w'.pc \in {"invalidate", "ensureSecret"} => w'.inst = i
      BY <2>2, <2>3, <2>6
    <3>2. HandlerInv'
      BY <1>1, <2>1, <2>4, <3>1, HandlerReads, ZenonT(30)
    <3> QED
      BY <1>5, <2>1, <3>2, ZenonT(30)
  <2> QED
    BY <2>5, <2>6
<1>10. CASE EnsureFinalizer
  <2>1. /\ w' = Idle /\ cTr' = cTr
        /\ tr' = tr \/ tr' = [tr EXCEPT !.finalizer = TRUE, !.rv = @ + 1]
    BY <1>10, ZenonT(30) DEF EnsureFinalizer, Return, caches
  <2>2. CASE tr' = tr
    BY <1>1, <1>2, <1>5, <2>1, <2>2, HandlerStays, ZenonT(30)
  <2>3. CASE tr' = [tr EXCEPT !.finalizer = TRUE, !.rv = @ + 1]
    <3>1. /\ tr'.rv = tr.rv + 1 /\ tr'.exists = tr.exists /\ tr'.phase = tr.phase
          /\ tr'.observed = tr.observed /\ tr'.gen = tr.gen /\ tr'.uid = tr.uid
          /\ tr'.version = tr.version /\ tr'.name = tr.name
      BY <1>1, <2>3 DEF Requests
    <3> QED
      BY <1>3, <1>6, <2>1, <3>1, ZenonT(30)
  <2> QED
    BY <2>1, <2>2, <2>3
<1>11. CASE FinalizeTokenRequest
  <2>1. /\ w.pc = "finalize" /\ w' = [w EXCEPT !.pc = "removeFinalizer"]
        /\ tr' = tr /\ cTr' = cTr
    BY <1>11, ZenonT(30) DEF FinalizeTokenRequest, caches
  <2> QED
    BY <1>5, <1>8, <2>1, ZenonT(30)
<1>12. CASE RemoveFinalizer
  <2>1. UNCHANGED <<cTr, sec>> /\ w.pc = "removeFinalizer"
    BY <1>12, ZenonT(30) DEF RemoveFinalizer, caches
  <2>2. CASE w' = Idle /\ tr' = tr
    BY <1>1, <1>2, <1>5, <2>1, <2>2, HandlerStays, ZenonT(30)
  <2>3. CASE w' = Idle /\ tr' = RemovedTr
    <3>1. RemovedTr.observed <= RemovedTr.gen
      BY <1>7
    <3> QED
      BY <1>6, <1>7, <2>1, <2>3, <3>1, ZenonT(30)
  <2>4. CASE w' = Idle /\ tr' = [tr EXCEPT !.finalizer = FALSE, !.rv = @ + 1]
    <3>1. /\ tr'.rv = tr.rv + 1 /\ tr'.exists = tr.exists /\ tr'.phase = tr.phase
          /\ tr'.observed = tr.observed /\ tr'.gen = tr.gen /\ tr'.uid = tr.uid
          /\ tr'.version = tr.version /\ tr'.name = tr.name
      BY <1>1, <2>4 DEF Requests
    <3> QED
      BY <1>3, <1>6, <2>1, <2>4, <3>1, ZenonT(30)
  <2>5. CASE w' = [w EXCEPT !.tr = cTr, !.tries = @ + 1] /\ tr' = tr
    <3>1. w'.tr = cTr /\ w'.ver = w.ver /\ w'.pc = "removeFinalizer"
      BY <1>1, <2>1, <2>5 DEF Workers
    <3>2. w.ver <= sec.rv
      BY <1>1, <2>1, ZenonT(30) DEF HandlerInv
    <3>3. HandlerInv'
      BY <1>1, <2>1, <2>5, <3>1, <3>2, HandlerReads, ZenonT(30)
    <3> QED
      BY <1>5, <2>1, <2>5, <3>3, ZenonT(30)
  <2> QED
    BY <1>12, <2>2, <2>3, <2>4, <2>5, ZenonT(30) DEF RemoveFinalizer, Return
<1>13. CASE InvalidateTokenEndpoint
  <2>1. UNCHANGED <<tr, cTr>> /\ w.pc = "invalidate"
    BY <1>13, ZenonT(30) DEF InvalidateTokenEndpoint, caches
  <2>2. CASE ~cSec.exists
    <3>1. w' = [w EXCEPT !.pc = "status", !.phase = "Pending"] /\ sec' = sec
      BY <1>13, <2>2, ZenonT(30) DEF InvalidateTokenEndpoint
    <3>2. /\ w'.pc = "status" /\ w'.phase = "Pending" /\ w'.tr = w.tr /\ w'.ver = w.ver
          /\ w'.inst = w.inst
      BY <1>1, <3>1 DEF Workers
    <3>3. HandlerInv'
      BY <1>1, <2>1, <3>1, <3>2 DEF HandlerInv
    <3> QED
      BY <1>5, <2>1, <3>3, ZenonT(30)
  <2>3. CASE cSec.exists /\ ~OwnsTokenSecret(w.tr, cSec)
    <3>1. w' = Idle
      BY <1>13, <2>3, ZenonT(30) DEF InvalidateTokenEndpoint, Return
    <3> QED
      BY <1>1, <1>2, <1>5, <2>1, <3>1, HandlerStays, ZenonT(30)
  <2>4. CASE cSec.exists /\ OwnsTokenSecret(w.tr, cSec)
    <3> DEFINE d == Invalidated(cSec, w.inst)
    <3>1. WriteSecret(d, "Pending")
      BY <1>13, <2>4, ZenonT(30) DEF InvalidateTokenEndpoint
    <3>2. d \in Secrets /\ Derived(cSec, d) /\ d.url = None
      BY <1>1, DesiredTypes, DesiredDerives, DesiredUrls, ZenonT(30)
    <3> HIDE DEF d
    <3>3. HandlerInv'
      BY <2>1, <2>4, <3>1, <3>2, WriteReady
    <3> QED
      BY <1>5, <2>1, <3>3, ZenonT(30)
  <2> QED
    BY <2>2, <2>3, <2>4
<1>14. CASE EnsureSecret
  <2>1. /\ UNCHANGED <<tr, cTr>> /\ w.pc = "ensureSecret" /\ w.inst.exists /\ Serving(w.inst)
    BY <1>1, <1>14, ZenonT(30) DEF EnsureSecret, caches, TokenInv
  <2>2. CASE ~cSec.exists /\ ~sec.exists
    <3>1. /\ w' = [w EXCEPT !.pc = "status", !.phase = "Ready"]
          /\ sec' = CreatedSecret(w.tr, w.inst)
      BY <1>14, <2>2, ZenonT(30) DEF EnsureSecret
    <3>2. /\ w'.pc = "status" /\ w'.tr = w.tr /\ w'.ver = w.ver /\ w'.inst = w.inst
      BY <1>1, <3>1 DEF Workers
    <3>3. sec'.rv = sec.rv + 1
      BY <3>1 DEF CreatedSecret
    <3>4. /\ w.tr.version \in Nat /\ w.ver \in Nat /\ w.inst.uid[1] = w.tr.name
          /\ w.tr.version <= sec.rv /\ w.ver <= sec.rv /\ w.tr.rv <= tr.rv
          /\ w.tr.rv = tr.rv /\ tr.exists => w.tr.name = tr.name /\ w.tr.version = tr.version
      BY <1>1, <2>1, VersionTypes, ZenonT(30) DEF HandlerInv
    <3>5. w.tr.version <= sec'.rv /\ w.ver <= sec'.rv /\ w.tr.version # sec'.rv
      BY <1>3, <3>3, <3>4
    <3>6. HandlerInv'
      BY <2>1, <3>2, <3>4, <3>5 DEF HandlerInv
    <3> QED
      BY <1>5, <2>1, <3>6, ZenonT(30)
  <2>3. CASE \/ ~cSec.exists /\ sec.exists
             \/ cSec.exists /\ ~OwnsTokenSecret(w.tr, cSec)
    <3>1. w' = Idle
      BY <1>14, <2>3, ZenonT(30) DEF EnsureSecret, Return
    <3> QED
      BY <1>1, <1>2, <1>5, <2>1, <3>1, HandlerStays, ZenonT(30)
  <2>4. CASE cSec.exists /\ OwnsTokenSecret(w.tr, cSec)
    <3> DEFINE d == Published(cSec, w.inst)
    <3>1. WriteSecret(d, "Ready")
      BY <1>14, <2>4, ZenonT(30) DEF EnsureSecret
    <3>2. d \in Secrets /\ Derived(cSec, d) /\ d.url = Endpoint(w.inst)
      BY <1>1, <2>1, DesiredTypes, DesiredDerives, DesiredUrls, ZenonT(30)
    <3> HIDE DEF d
    <3>3. HandlerInv'
      BY <2>1, <2>4, <3>1, <3>2, WriteReady
    <3> QED
      BY <1>5, <2>1, <3>3, ZenonT(30)
  <2> QED
    BY <2>2, <2>3, <2>4
<1>15. CASE TouchAPITokenRequest \/ UpdateStatus
  <2>1. cTr' = cTr
    BY <1>15, ZenonT(30) DEF TouchAPITokenRequest, UpdateStatus, caches
  <2> QED
    BY <1>15, <2>1, TouchReady, StatusReady, ReadyStep, ZenonT(30)
<1>16. CASE CallFails
  <2>1. /\ UNCHANGED <<tr, cTr>>
        /\ w' = Idle \/ (w.pc = "finalize" /\ w' = [w EXCEPT !.pc = "removeFinalizer"])
    BY <1>16, ZenonT(30) DEF CallFails, Return, objects, caches
  <2> QED
    BY <1>1, <1>2, <1>5, <1>8, <2>1, HandlerStays, ZenonT(30)
<1>17. CASE SyncTr \/ SyncSec \/ SyncInst \/ Restart
  <2>1. tr' = tr /\ (cTr' = cTr \/ cTr' = tr) /\ (w' = w \/ w' = Idle)
    BY <1>17, ZenonT(30) DEF SyncTr, SyncSec, SyncInst, Restart, objects
  <2> QED
    BY <1>1, <1>2, <1>5, <2>1, HandlerStays, ZenonT(30)
<1>18. ASSUME NEW n \in Names, CreateRequest(n) \/ Retarget(n) PROVE ReadyInv'
  <2>1. cTr' = cTr /\ w' = w
    BY <1>18, ZenonT(30) DEF CreateRequest, Retarget, caches
  <2>2. CASE tr' = [NoRequest(n, tr.uid + 1, tr.rv + 1) EXCEPT !.exists = TRUE, !.gen = 1]
    <3>1. tr'.rv = tr.rv + 1 /\ tr'.version = 0 /\ tr'.phase = "Unset" /\ tr'.observed <= tr'.gen
      BY <2>2 DEF NoRequest
    <3> QED
      BY <1>6, <2>1, <3>1
  <2>3. CASE tr' = [tr EXCEPT !.name = n, !.gen = @ + 1, !.rv = @ + 1]
    <3>1. /\ tr'.rv = tr.rv + 1 /\ tr'.version = tr.version
          /\ tr'.observed = tr.observed /\ tr'.gen = tr.gen + 1
      BY <1>1, <2>3 DEF Requests
    <3>2. tr'.observed <= tr'.gen /\ tr'.observed # tr'.gen
      BY <1>3, <3>1
    <3> QED
      BY <1>6, <2>1, <3>1, <3>2, ZenonT(30)
  <2> QED
    BY <1>18, <2>2, <2>3, ZenonT(30) DEF CreateRequest, Retarget
<1>19. CASE DeleteRequest
  <2>1. /\ cTr' = cTr /\ w' = w
        /\ \/ tr' = RemovedTr
           \/ tr' = [tr EXCEPT !.deleting = TRUE, !.gen = @ + 1, !.rv = @ + 1]
    BY <1>19, ZenonT(30) DEF DeleteRequest, caches
  <2>2. CASE tr' = RemovedTr
    <3>1. RemovedTr.observed <= RemovedTr.gen
      BY <1>7
    <3> QED
      BY <1>6, <1>7, <2>1, <2>2, <3>1, ZenonT(30)
  <2>3. CASE tr' = [tr EXCEPT !.deleting = TRUE, !.gen = @ + 1, !.rv = @ + 1]
    <3>1. /\ tr'.rv = tr.rv + 1 /\ tr'.version = tr.version
          /\ tr'.observed = tr.observed /\ tr'.gen = tr.gen + 1
      BY <1>1, <2>3 DEF Requests
    <3>2. tr'.observed <= tr'.gen /\ tr'.observed # tr'.gen
      BY <1>3, <3>1
    <3> QED
      BY <1>6, <2>1, <3>1, <3>2, ZenonT(30)
  <2> QED
    BY <2>1, <2>2, <2>3
<1>20. CASE /\ Environment /\ ~DeleteRequest
            /\ ~\E n \in budget.names : CreateRequest(n) \/ Retarget(n)
  <2>1. UNCHANGED <<tr, cTr, w>>
    BY <1>20, ZenonT(30) DEF Environment, ReplaceKey, DeleteSecret, CreateForeignSecret,
       CollectSecret, CreateInstance, SwitchMode, ReleaseTarget, BecomeReady, BecomeUnready,
       DeleteInstance, RemoveInstance, ActivateTarget, SetInst, caches
  <2> QED
    BY <1>1, <1>2, <1>5, <2>1, HandlerStays, ZenonT(30)
<1>21. budget.names \subseteq Names
  BY <1>1 DEF TypeOK, Bounds
<1> QED
  BY <1>9, <1>10, <1>11, <1>12, <1>13, <1>14, <1>15, <1>16, <1>17, <1>18, <1>19, <1>20, <1>21,
     ZenonT(30) DEF Next, Controller

(* ReadyInv holds in every reachable state: a handler's copies are versions  *)
(* of the request and the Secret, and as long as they are the latest ones    *)
(* the Secret is what the handler made of it.                                *)
THEOREM ReadyInvariance == Spec => []ReadyInv
  BY InitReady, NextReady, PTL DEF Spec

(* In every reachable state a request that reports Ready for its generation, *)
(* and has recorded the version of its Secret, is about the instance that    *)
(* the generation names: no retarget slips in between the update of the      *)
(* Secret, the touch and updateReadyStatus.                                  *)
THEOREM ReadyNamesInstances == Spec => []ReadyNamesTheInstance
<1>1. ReadyInv => ReadyNamesTheInstance
  BY DEF ReadyInv
<1> QED
  BY <1>1, ReadyInvariance, PTL

-----------------------------------------------------------------------------
(* The instances behave as InstanceView says, which ByocLifecycle implements. *)

(* What the controller and the auth server read of instance n.               *)
View(n) ==
  INSTANCE InstanceView WITH
    exists <- inst[n].exists, deleting <- inst[n].deleting, byoc <- inst[n].byoc,
    active <- inst[n].active, target <- inst[n].target, ready <- inst[n].ready

(* A step of an instance that is there.                                      *)
InstanceStep(n) ==
  \/ SwitchMode(n) \/ ReleaseTarget(n) \/ BecomeReady(n)
  \/ BecomeUnready(n) \/ DeleteInstance(n) \/ RemoveInstance(n)
  \/ \E t \in Targets : ActivateTarget(n, t)

LEMMA StepIsViewed ==
  ASSUME TypeOK, NEW n \in Names, InstanceStep(n)
  PROVE  View(n)!Next
<1>1. inst[n] \in Instances /\ inst \in [Names -> Instances]
  BY DEF TypeOK
<1>2. ASSUME NEW i, SetInst(n, i) PROVE inst'[n] = i
  BY <1>1, <1>2 DEF SetInst
<1>3. CASE SwitchMode(n)
  <2>1. View(n)!SwitchMode
    BY <1>1, <1>2, <1>3, ZenonT(30) DEF SwitchMode, View!SwitchMode, Instances
  <2> QED
    BY <2>1, ZenonT(30) DEF View!Next
<1>4. CASE ReleaseTarget(n)
  <2>1. View(n)!ReleaseTarget
    BY <1>1, <1>2, <1>4, ZenonT(30) DEF ReleaseTarget, View!ReleaseTarget, Instances
  <2> QED
    BY <2>1, ZenonT(30) DEF View!Next
<1>5. CASE BecomeReady(n)
  <2>1. View(n)!BecomeReady
    <3>1. inst'[n] = [inst[n] EXCEPT !.ready = TRUE]
      BY <1>2, <1>5, ZenonT(30) DEF BecomeReady
    <3>2. inst[n].active = inst[n].byoc /\ (inst[n].byoc => inst[n].target # None)
      <4>1. CASE inst[n].byoc
        BY <1>1, <1>5, <4>1, ZenonT(30) DEF BecomeReady, Instances
      <4>2. CASE ~inst[n].byoc
        BY <1>1, <1>5, <4>2, ZenonT(30) DEF BecomeReady, Instances
      <4> QED
        BY <4>1, <4>2
    <3> QED
      BY <1>1, <1>5, <3>1, <3>2, ZenonT(30) DEF BecomeReady, View!BecomeReady, Instances
  <2> QED
    BY <2>1, ZenonT(30) DEF View!Next
<1>6. CASE BecomeUnready(n)
  <2>1. View(n)!BecomeUnready
    BY <1>1, <1>2, <1>6, ZenonT(30) DEF BecomeUnready, View!BecomeUnready, Instances
  <2> QED
    BY <2>1, ZenonT(30) DEF View!Next
<1>7. CASE DeleteInstance(n)
  <2>1. View(n)!Delete
    BY <1>1, <1>2, <1>7, ZenonT(30) DEF DeleteInstance, View!Delete, Instances
  <2> QED
    BY <2>1, ZenonT(30) DEF View!Next
<1>8. CASE RemoveInstance(n)
  <2>1. inst'[n] = NoInstance(inst[n].uid)
    BY <1>2, <1>8, ZenonT(30) DEF RemoveInstance
  <2>2. /\ ~inst'[n].exists /\ ~inst'[n].deleting /\ ~inst'[n].byoc /\ ~inst'[n].active
        /\ inst'[n].target = None /\ ~inst'[n].ready
    BY <2>1 DEF NoInstance
  <2>3. View(n)!Remove
    BY <1>8, <2>1, <2>2 DEF RemoveInstance, View!Remove, NoInstance
  <2> QED
    BY <2>3, ZenonT(30) DEF View!Next
<1>9. CASE \E t \in Targets : ActivateTarget(n, t)
  <2>1. PICK t \in Targets : ActivateTarget(n, t)
    BY <1>9
  <2>2. View(n)!ActivateTarget(t)
    BY <1>1, <1>2, <2>1, ZenonT(30) DEF ActivateTarget, View!ActivateTarget, Instances
  <2> QED
    BY <2>2, ZenonT(30) DEF View!Next
<1> QED
  BY <1>3, <1>4, <1>5, <1>6, <1>7, <1>8, <1>9 DEF InstanceStep

(* Whatever users and the other controller do in this model, each instance   *)
(* takes a step of InstanceView, stays as it is, or is created.  So the      *)
(* theorems above assume nothing of instances that InstanceView forbids.     *)
THEOREM InstancesFollowView ==
  Spec => [][\A n \in Names :
               View(n)!Next \/ CreateInstance(n) \/ UNCHANGED View(n)!view]_vars
<1>1. ASSUME TypeOK, Next, NEW n \in Names
      PROVE  View(n)!Next \/ CreateInstance(n) \/ UNCHANGED View(n)!view
  <2>1. CASE inst' = inst
    BY <2>1, ZenonT(30) DEF View!view
  <2>2. CASE \E m \in budget.names : CreateInstance(m) \/ InstanceStep(m)
    <3>1. PICK m \in budget.names : CreateInstance(m) \/ InstanceStep(m)
      BY <2>2
    <3>2. CASE m = n
      BY <1>1, <3>1, <3>2, StepIsViewed, ZenonT(30)
    <3>3. CASE m # n
      <4>1. PICK i : SetInst(m, i)
        BY <3>1, ZenonT(30)
        DEF CreateInstance, InstanceStep, SwitchMode, ReleaseTarget, BecomeReady,
            BecomeUnready, DeleteInstance, RemoveInstance, ActivateTarget
      <4>2. inst'[n] = inst[n]
        BY <1>1, <3>3, <4>1 DEF SetInst, TypeOK
      <4> QED
        BY <4>2, ZenonT(30) DEF View!view
    <3> QED
      BY <3>2, <3>3
  <2>3. CASE ~\E m \in budget.names : CreateInstance(m) \/ InstanceStep(m)
    <3>1. inst' = inst
      BY <1>1, <2>3, ZenonT(30)
      DEF Next, Environment, InstanceStep, CreateRequest, Retarget, DeleteRequest, ReplaceKey,
          DeleteSecret, CreateForeignSecret, CollectSecret, SyncTr, SyncSec, SyncInst, Restart,
          CallFails, Controller, Reconcile, EnsureFinalizer, FinalizeTokenRequest,
          RemoveFinalizer, InvalidateTokenEndpoint, EnsureSecret, TouchAPITokenRequest,
          UpdateStatus, objects
    <3> QED
      BY <2>1, <3>1
  <2> QED
    BY <2>2, <2>3
<1>2. ASSUME TypeOK, [Next]_vars
      PROVE  [\A n \in Names :
                View(n)!Next \/ CreateInstance(n) \/ UNCHANGED View(n)!view]_vars
  BY <1>1, <1>2
<1> QED
  BY <1>2, TypeCorrect, PTL DEF Spec

(* And none that InstanceView allows is left out: as long as the bound on    *)
(* edits lasts, every step of InstanceView that keeps the UID is a step of   *)
(* the environment.  With LifecycleImplementsView in ByocLifecycleProofs,    *)
(* the tokens are safe whatever the LLMInstance controller does.             *)
THEOREM ViewStepsHappen ==
  ASSUME TypeOK, NEW n \in budget.names, NEW i \in Instances, SetInst(n, i),
         i.uid = inst[n].uid, View(n)!Next
  PROVE  Environment
<1>1. inst[n] \in Instances /\ inst'[n] = i
  BY DEF TypeOK, Bounds, SetInst
<1>2. InstanceStep(n)
  <2>1. CASE View(n)!SwitchMode
    <3>1. i = [inst[n] EXCEPT !.byoc = ~@, !.ready = FALSE]
      BY <1>1, <2>1, ZenonT(30) DEF View!SwitchMode, Instances
    <3> QED
      BY <2>1, <3>1, ZenonT(30) DEF View!SwitchMode, SwitchMode, InstanceStep
  <2>2. CASE View(n)!ReleaseTarget
    <3>1. i = [inst[n] EXCEPT !.active = FALSE, !.target = None]
      BY <1>1, <2>2, ZenonT(30) DEF View!ReleaseTarget, Instances
    <3> QED
      BY <2>2, <3>1, ZenonT(30) DEF View!ReleaseTarget, ReleaseTarget, InstanceStep
  <2>3. CASE View(n)!BecomeReady
    <3>1. i = [inst[n] EXCEPT !.ready = TRUE]
      BY <1>1, <2>3, ZenonT(30) DEF View!BecomeReady, Instances
    <3>2. BecomeReady(n)
      BY <2>3, <3>1, ZenonT(30) DEF View!BecomeReady, BecomeReady
    <3> QED
      BY <3>2 DEF InstanceStep
  <2>4. CASE View(n)!BecomeUnready
    <3>1. i = [inst[n] EXCEPT !.ready = FALSE]
      BY <1>1, <2>4, ZenonT(30) DEF View!BecomeUnready, Instances
    <3> QED
      BY <2>4, <3>1, ZenonT(30) DEF View!BecomeUnready, BecomeUnready, InstanceStep
  <2>5. CASE View(n)!Delete
    <3>1. i = [inst[n] EXCEPT !.deleting = TRUE, !.ready = FALSE]
      BY <1>1, <2>5, ZenonT(30) DEF View!Delete, Instances
    <3> QED
      BY <2>5, <3>1, ZenonT(30) DEF View!Delete, DeleteInstance, InstanceStep
  <2>6. CASE View(n)!Remove
    <3>1. i = NoInstance(inst[n].uid)
      BY <1>1, <2>6 DEF View!Remove, Instances, NoInstance
    <3> QED
      BY <2>6, <3>1, ZenonT(30) DEF View!Remove, RemoveInstance, InstanceStep
  <2>7. CASE \E t \in Targets : View(n)!ActivateTarget(t)
    <3>1. PICK t \in Targets : View(n)!ActivateTarget(t)
      BY <2>7
    <3>2. i = [inst[n] EXCEPT !.active = TRUE, !.target = t, !.ready = FALSE]
      BY <1>1, <3>1, ZenonT(30) DEF View!ActivateTarget, Instances
    <3> QED
      BY <3>1, <3>2, ZenonT(30) DEF View!ActivateTarget, ActivateTarget, InstanceStep
  <2> QED
    BY <2>1, <2>2, <2>3, <2>4, <2>5, <2>6, <2>7, ZenonT(30) DEF View!Next
<1> QED
  BY <1>2, ZenonT(30) DEF InstanceStep, Environment
=============================================================================
