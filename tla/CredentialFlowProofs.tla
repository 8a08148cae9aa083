------------------------ MODULE CredentialFlowProofs ------------------------
(* Proofs about CredentialFlow: where a key is accepted, and that no key is  *)
(* accepted by two audiences.                                                *)
EXTENDS CredentialFlow, TokenRequestProofs

-----------------------------------------------------------------------------
(* What FlowInv says of a set of pairs of a key and an audience, when m is   *)
(* the history of minted keys and s the Secret.                              *)
Sound(V, m, s) ==
  /\ \A p \in V :
       /\ p[1] \in 1 .. Len(m)
       /\ m[p[1]] = p[2] \/ (m[p[1]] = Legacy /\ p[2][1] = None)
       /\ m[p[1]] = Legacy /\ s.exists /\ s.owner # 0 /\ s.key = p[1] => s.iuid = p[2][2]
  /\ \A p, q \in V : p[1] = q[1] => p[2] = q[2]

(* Every instance with an active target knows it.                            *)
TargetsKnown == \A n \in Names : inst[n].active => inst[n].target # None

(* The invariant in these terms.                                             *)
LEMMA InvBySound ==
  FlowInv <=> /\ FlowTypeOK /\ TokenInv /\ KeyFileIsForTarget /\ TargetsKnown
              /\ auth.pc # "idle" => auth.uid \in Uids
              /\ Sound(Vouched, mint, sec)
BY ZenonT(30) DEF FlowInv, Sound, TargetsKnown, Keys

(* The pairs are of a key and an audience.                                   *)
LEMMA VouchedType ==
  ASSUME FlowTypeOK, auth.pc # "idle" => auth.uid \in Uids
  PROVE  Vouched \subseteq Nat \X Bindings
<1>1. None \in TargetIds /\ auth.key \in Nat /\ accepted \subseteq Nat \X Bindings
  BY DEF FlowTypeOK, TargetIds
<1>2. auth.pc = "owner" => <<auth.key, <<None, auth.uid>>>> \in Nat \X Bindings
  BY <1>1 DEF Bindings
<1> QED
  BY <1>1, <1>2, ZenonT(30) DEF Vouched

(* A key that was once vouched for is vouched for the same audience again.   *)
LEMMA SameAudience ==
  ASSUME NEW V \in SUBSET (Nat \X Bindings), Sound(V, mint, sec), NEW q \in V,
         NEW a \in Bindings, Legacy \notin Bindings,
         \/ mint[q[1]] = a
         \/ /\ mint[q[1]] = Legacy /\ a[1] = None
            /\ sec.exists /\ sec.owner # 0 /\ sec.key = q[1] /\ sec.iuid = a[2]
  PROVE  q[2] = a
<1>1. /\ mint[q[1]] = q[2] \/ (mint[q[1]] = Legacy /\ q[2][1] = None)
      /\ mint[q[1]] = Legacy /\ sec.exists /\ sec.owner # 0 /\ sec.key = q[1] =>
           sec.iuid = q[2][2]
  BY ZenonT(30) DEF Sound
<1>2. q[2] \in Bindings
  OBVIOUS
<1>3. CASE mint[q[1]] # Legacy
  BY <1>1, <1>3, ZenonT(30)
<1>4. CASE mint[q[1]] = Legacy
  <2>1. a[1] = q[2][1] /\ a[2] = q[2][2]
    BY <1>1, <1>2, <1>4, ZenonT(30)
  <2> QED
    BY <1>2, <2>1 DEF Bindings
<1> QED
  BY <1>3, <1>4

(* So one more audience for a key is the same one.                           *)
LEMMA SoundGrows ==
  ASSUME NEW V \in SUBSET (Nat \X Bindings), Sound(V, mint, sec), Legacy \notin Bindings,
         NEW k \in Keys, NEW a \in Bindings,
         \/ mint[k] = a
         \/ /\ mint[k] = Legacy /\ a[1] = None
            /\ sec.exists /\ sec.owner # 0 /\ sec.key = k /\ sec.iuid = a[2]
  PROVE  Sound(V \cup {<<k, a>>}, mint, sec)
<1> DEFINE p == <<k, a>>
<1>1. p[1] = k /\ p[2] = a
  OBVIOUS
<1> HIDE DEF p
<1>2. \A q \in V : q[1] = p[1] => q[2] = p[2]
  <2> SUFFICES ASSUME NEW q \in V, q[1] = k PROVE q[2] = a
    BY <1>1, ZenonT(30)
  <2>1. \/ mint[q[1]] = a
        \/ /\ mint[q[1]] = Legacy /\ a[1] = None
           /\ sec.exists /\ sec.owner # 0 /\ sec.key = q[1] /\ sec.iuid = a[2]
    BY ZenonT(30)
  <2> QED
    BY <2>1, SameAudience, ZenonT(30)
<1>3. /\ p[1] \in 1 .. Len(mint)
      /\ mint[p[1]] = p[2] \/ (mint[p[1]] = Legacy /\ p[2][1] = None)
      /\ mint[p[1]] = Legacy /\ sec.exists /\ sec.owner # 0 /\ sec.key = p[1] =>
           sec.iuid = p[2][2]
  BY <1>1, ZenonT(30) DEF Keys
<1>4. Sound(V \cup {p}, mint, sec)
  BY <1>2, <1>3, ZenonT(30) DEF Sound
<1> QED
  BY <1>4 DEF p

(* Legacy is no audience.                                                    *)
LEMMA LegacyIsNone == Legacy \notin Bindings
BY ConstantsAssumption, ZenonT(30) DEF Bindings, TargetIds, Uids

-----------------------------------------------------------------------------
(* Steps of the token controller, the users and the instances.               *)

(* A target stays until it is released, and an instance keeps its UID with   *)
(* it.                                                                       *)
LEMMA TargetSteps ==
  ASSUME TypeOK, TargetsKnown, Next
  PROVE  \A n \in Names :
           /\ inst'[n].active => inst'[n].target # None
           /\ inst'[n].active /\ inst[n].active =>
                inst'[n].target = inst[n].target /\ inst'[n].uid = inst[n].uid
<1> DEFINE Kept(i, j) == /\ j.active => j.target # None
                         /\ j.active /\ i.active => j.target = i.target /\ j.uid = i.uid
<1>1. inst \in [Names -> Instances] /\ budget.names \subseteq Names
  BY DEF TypeOK, Bounds
<1>2. \A n \in Names : Kept(inst[n], inst[n])
  BY ZenonT(30) DEF TargetsKnown
<1>3. SUFFICES \A n \in Names : Kept(inst[n], inst'[n])
  BY ZenonT(30)
<1>4. ASSUME NEW n \in Names, NEW i, Kept(inst[n], i), SetInst(n, i)
      PROVE  \A m \in Names : Kept(inst[m], inst'[m])
  <2>1. inst' = [inst EXCEPT ![n] = i]
    BY <1>4 DEF SetInst
  <2>2. inst'[n] = i /\ \A m \in Names \ {n} : inst'[m] = inst[m]
    BY <1>1, <2>1, ZenonT(30)
  <2> HIDE DEF Kept
  <2> QED
    BY <1>2, <1>4, <2>2, ZenonT(30)
<1>5. ASSUME NEW n \in Names,
             \/ CreateInstance(n) \/ SwitchMode(n) \/ ReleaseTarget(n) \/ BecomeReady(n)
             \/ BecomeUnready(n) \/ DeleteInstance(n) \/ RemoveInstance(n)
             \/ \E t \in Targets : ActivateTarget(n, t)
      PROVE  \E i : Kept(inst[n], i) /\ SetInst(n, i)
  <2>1. inst[n] \in Instances /\ Kept(inst[n], inst[n])
    BY <1>1, <1>2
  <2>2. CASE CreateInstance(n)
    <3> DEFINE i(b) == [NoInstance(<<n, inst[n].uid[2] + 1>>) EXCEPT !.exists = TRUE, !.byoc = b]
    <3>1. PICK b \in BOOLEAN : SetInst(n, i(b))
      BY <2>2, ZenonT(30) DEF CreateInstance
    <3>2. ~i(b).active
      BY DEF NoInstance
    <3> HIDE DEF i
    <3> QED
      BY <3>1, <3>2, ZenonT(30)
  <2>3. CASE RemoveInstance(n)
    <3>1. ~NoInstance(inst[n].uid).active
      BY DEF NoInstance
    <3> QED
      BY <2>3, <3>1, ZenonT(30) DEF RemoveInstance
  <2>4. CASE \E t \in Targets : ActivateTarget(n, t)
    <3> DEFINE i(t) == [inst[n] EXCEPT !.active = TRUE, !.target = t, !.ready = FALSE]
    <3>1. PICK t \in Targets : SetInst(n, i(t)) /\ inst[n].target = None
      BY <2>4, ZenonT(30) DEF ActivateTarget
    <3>2. i(t).target = t /\ t # None
      BY <2>1, ConstantsAssumption DEF Instances
    <3>3. ~inst[n].active
      BY <3>1, ZenonT(30) DEF TargetsKnown
    <3> HIDE DEF i
    <3> QED
      BY <3>1, <3>2, <3>3, ZenonT(30)
  <2>5. CASE ReleaseTarget(n)
    <3> DEFINE i == [inst[n] EXCEPT !.active = FALSE, !.target = None]
    <3>1. SetInst(n, i)
      BY <2>5 DEF ReleaseTarget
    <3>2. ~i.active
      BY <2>1, ZenonT(30) DEF Instances
    <3> HIDE DEF i
    <3> QED
      BY <3>1, <3>2, ZenonT(30)
  <2>6. ASSUME NEW i, i.active = inst[n].active, i.target = inst[n].target, i.uid = inst[n].uid
        PROVE  Kept(inst[n], i)
    BY <2>1, <2>6, ZenonT(30)
  <2>7. ASSUME NEW i \in {[inst[n] EXCEPT !.byoc = ~@, !.ready = FALSE],
                          [inst[n] EXCEPT !.ready = TRUE], [inst[n] EXCEPT !.ready = FALSE],
                          [inst[n] EXCEPT !.deleting = TRUE, !.ready = FALSE]}
        PROVE  Kept(inst[n], i)
    <3>1. i.active = inst[n].active /\ i.target = inst[n].target /\ i.uid = inst[n].uid
      BY <2>1, <2>7, ZenonT(30) DEF Instances
    <3> QED
      BY <2>6, <3>1, ZenonT(30)
  <2>8. CASE SwitchMode(n) \/ BecomeReady(n) \/ BecomeUnready(n) \/ DeleteInstance(n)
    BY <2>7, <2>8, ZenonT(30) DEF SwitchMode, BecomeReady, BecomeUnready, DeleteInstance
  <2> QED
    BY <1>5, <2>2, <2>3, <2>4, <2>5, <2>8
<1>6. CASE \E n \in budget.names :
             \/ CreateInstance(n) \/ SwitchMode(n) \/ ReleaseTarget(n) \/ BecomeReady(n)
             \/ BecomeUnready(n) \/ DeleteInstance(n) \/ RemoveInstance(n)
             \/ \E t \in Targets : ActivateTarget(n, t)
  <2>1. PICK n \in budget.names :
             \/ CreateInstance(n) \/ SwitchMode(n) \/ ReleaseTarget(n) \/ BecomeReady(n)
             \/ BecomeUnready(n) \/ DeleteInstance(n) \/ RemoveInstance(n)
             \/ \E t \in Targets : ActivateTarget(n, t)
    BY <1>6
  <2>2. n \in Names
    BY <1>1
  <2>3. PICK i : Kept(inst[n], i) /\ SetInst(n, i)
    BY <1>5, <2>1, <2>2
  <2> HIDE DEF Kept
  <2> QED
    BY <1>4, <2>2, <2>3
<1>7. CASE ~\E n \in budget.names :
             \/ CreateInstance(n) \/ SwitchMode(n) \/ ReleaseTarget(n) \/ BecomeReady(n)
             \/ BecomeUnready(n) \/ DeleteInstance(n) \/ RemoveInstance(n)
             \/ \E t \in Targets : ActivateTarget(n, t)
  <2>1. inst' = inst
    BY <1>7, ZenonT(30) DEF Next, Environment, CreateRequest, Retarget, DeleteRequest, ReplaceKey,
       DeleteSecret, CreateForeignSecret, CollectSecret, SyncTr, SyncSec, SyncInst, Restart,
       CallFails, Controller, Reconcile, EnsureFinalizer, FinalizeTokenRequest, RemoveFinalizer,
       InvalidateTokenEndpoint, EnsureSecret, TouchAPITokenRequest, UpdateStatus, objects
  <2> HIDE DEF Kept
  <2> QED
    BY <1>2, <2>1
<1> QED
  BY <1>6, <1>7
(* Keys that were minted stay as they were, and the next one is new.         *)
LEMMA MintStays ==
  ASSUME TokenInv, Next
  PROVE  /\ Len(mint) \in Nat /\ Len(mint') \in Nat /\ Len(mint) <= Len(mint')
         /\ \A k \in 1 .. Len(mint) : mint'[k] = mint[k] /\ k \in 1 .. Len(mint')
         /\ Len(mint) + 1 \notin 1 .. Len(mint)
<1>1. TypeOK /\ Len(mint) \in Nat
  BY DEF TokenInv, TypeOK
<1>2. CASE mint' = mint
  BY <1>1, <1>2
<1>3. CASE \E x : mint' = Append(mint, x)
  <2>1. PICK x : mint' = Append(mint, x)
    BY <1>3
  <2>2. Len(mint') = Len(mint) + 1 /\ \A k \in 1 .. Len(mint) : mint'[k] = mint[k]
    BY <1>1, <2>1, MintGrows
  <2> QED
    BY <1>1, <2>2
<1> QED
  BY <1>2, <1>3, MintSteps

(* What was vouched for stays sound when the Secret and the history move on. *)
LEMMA SoundStays ==
  ASSUME TokenInv, Next, NEW V \in SUBSET (Nat \X Bindings), Sound(V, mint, sec)
  PROVE  Sound(V, mint', sec')
<1>1. ASSUME NEW p \in V
      PROVE  /\ p[1] \in 1 .. Len(mint) /\ mint'[p[1]] = mint[p[1]] /\ p[1] \in 1 .. Len(mint')
             /\ mint[p[1]] = p[2] \/ (mint[p[1]] = Legacy /\ p[2][1] = None)
             /\ p[1] # Len(mint) + 1 /\ p[2][2] # None
  <2>1. p[1] \in 1 .. Len(mint) /\ (mint[p[1]] = p[2] \/ (mint[p[1]] = Legacy /\ p[2][1] = None))
    BY ZenonT(30) DEF Sound
  <2>2. p[2] \in TargetIds \X Uids
    BY DEF Bindings
  <2>3. p[2][2] \in Uids /\ None \notin Uids
    BY <2>2, ConstantsAssumption DEF Uids
  <2> QED
    BY <2>1, <2>3, MintStays, ZenonT(30)
<1>2. ASSUME NEW p \in V, mint[p[1]] = Legacy, sec'.exists, sec'.owner # 0, sec'.key = p[1]
      PROVE  sec'.iuid = p[2][2]
  <2>1. sec.exists /\ sec.owner # 0 /\ sec.key = p[1] => sec.iuid = p[2][2]
    BY <1>2, ZenonT(30) DEF Sound
  <2>2. CASE sec' = sec
    BY <1>2, <2>1, <2>2, ZenonT(30)
  <2>3. CASE sec' # sec
    <3>1. /\ sec.exists /\ sec.owner # 0 /\ sec'.key = sec.key
          /\ sec'.iuid = sec.iuid \/ sec.iuid = None
      BY <1>1, <1>2, <2>3, SecretSteps, ZenonT(30)
    <3> QED
      BY <1>1, <1>2, <2>1, <3>1, ZenonT(30)
  <2> QED
    BY <2>2, <2>3
<1>3. \A p, q \in V : p[1] = q[1] => p[2] = q[2]
  BY ZenonT(30) DEF Sound
<1> QED
  BY <1>1, <1>2, <1>3, ZenonT(30) DEF Sound

(* A step of TokenRequest, with the cleanup of key files it entails.         *)
LEMMA FlowToken ==
  ASSUME FlowInv, Next, CleanupBYOCObjects, UNCHANGED <<auth, accepted>>
  PROVE  FlowInv'
<1>1. /\ FlowTypeOK /\ TypeOK /\ TokenInv /\ KeyFileIsForTarget /\ TargetsKnown
      /\ auth.pc # "idle" => auth.uid \in Uids
      /\ Sound(Vouched, mint, sec)
  BY InvBySound, ZenonT(30) DEF FlowTypeOK
<1>2. TokenInv' /\ TypeOK'
  BY <1>1, NextInv, ZenonT(30) DEF TokenInv
<1>3. /\ TargetsKnown'
      /\ \A n \in Names : inst'[n].active /\ inst[n].active =>
           inst'[n].target = inst[n].target /\ inst'[n].uid = inst[n].uid
  BY <1>1, TargetSteps, ZenonT(30) DEF TargetsKnown
<1>4. keyfile' = [n \in Names |-> IF inst'[n].active THEN keyfile[n] ELSE {}]
  BY DEF CleanupBYOCObjects
<1>5. FlowTypeOK'
  <2>1. keyfile \in [Names -> SUBSET Nat]
    BY <1>1 DEF FlowTypeOK
  <2>2. keyfile' \in [Names -> SUBSET Nat]
    BY <1>4, <2>1
  <2> QED
    BY <1>1, <1>2, <2>2, ZenonT(30) DEF FlowTypeOK
<1>6. KeyFileIsForTarget'
  <2> SUFFICES ASSUME NEW n \in Names, NEW k \in keyfile'[n]
               PROVE  inst'[n].active /\ k \in Keys' /\ mint'[k] = <<inst'[n].target, inst'[n].uid>>
    BY ZenonT(30) DEF KeyFileIsForTarget
  <2>1. inst'[n].active /\ k \in keyfile[n]
    BY <1>4
  <2>2. inst[n].active /\ k \in 1 .. Len(mint) /\ mint[k] = <<inst[n].target, inst[n].uid>>
    BY <1>1, <2>1, ZenonT(30) DEF KeyFileIsForTarget, Keys
  <2>3. k \in 1 .. Len(mint') /\ mint'[k] = mint[k]
    BY <1>1, <2>2, MintStays, ZenonT(30)
  <2> QED
    BY <1>3, <2>1, <2>2, <2>3, ZenonT(30) DEF Keys
<1>7. Vouched' = Vouched /\ Vouched \subseteq Nat \X Bindings
  BY <1>1, VouchedType, ZenonT(30) DEF Vouched
<1>8. Sound(Vouched, mint', sec')
  BY <1>1, <1>7, SoundStays, ZenonT(30)
<1>9. Sound(Vouched', mint', sec')
  BY <1>7, <1>8
<1> QED
  BY <1>1, <1>2, <1>3, <1>5, <1>6, <1>9, ZenonT(30)
  DEF FlowInv, Sound, TargetsKnown, Keys

-----------------------------------------------------------------------------
(* Steps of the auth server and of the key file.                             *)

(* They change nothing that TokenInv and TargetsKnown are about.             *)
LEMMA FlowRest ==
  ASSUME FlowInv, UNCHANGED vars, FlowTypeOK', KeyFileIsForTarget',
         auth'.pc # "idle" => auth'.uid \in Uids,
         NEW V, Sound(V, mint, sec), Vouched' \subseteq V
  PROVE  FlowInv'
<1>1. UNCHANGED <<inst, tr, sec, cInst, cTr, cSec, queued, w, mint, budget>>
  BY DEF vars
<1>2. TokenInv /\ TargetsKnown
  BY InvBySound, ZenonT(30)
<1>3. TokenInv'
  BY <1>2, NextInv, ZenonT(30)
<1>4. TargetsKnown'
  BY <1>1, <1>2, ZenonT(30) DEF TargetsKnown
<1>5. Sound(Vouched', mint', sec')
  <2>1. Sound(Vouched', mint, sec)
    BY ZenonT(30) DEF Sound
  <2> QED
    BY <1>1, <2>1
<1> QED
  BY <1>3, <1>4, <1>5, ZenonT(30) DEF FlowInv, Sound, TargetsKnown, Keys

(* reconcileBYOCWorkload writes the key that the cached Secret is bound to   *)
(* this target and instance with.                                            *)
LEMMA FlowKeyFile ==
  ASSUME FlowInv, NEW n \in Names, ReconcileBYOCKeySecret(n)
  PROVE  FlowInv'
<1> DEFINE i == inst[n]
           keys == DesiredAPIKeyFile(i, cSec, cTr)
<1>1. /\ FlowTypeOK /\ TypeOK /\ TokenInv /\ KeyFileIsForTarget
      /\ auth.pc # "idle" => auth.uid \in Uids
      /\ Sound(Vouched, mint, sec) /\ Good(cSec, mint)
  BY InvBySound, InvByGood, ZenonT(30) DEF FlowTypeOK
<1>2. /\ i.active /\ i.target # None /\ keyfile' = [keyfile EXCEPT ![n] = keys]
      /\ accepted' = accepted \cup (keys \X {Binding(i)}) /\ auth' = auth /\ UNCHANGED vars
  BY ZenonT(30) DEF ReconcileBYOCKeySecret
<1>3. i \in Instances /\ Binding(i) \in Bindings /\ Binding(i) = <<i.target, i.uid>>
  <2>1. i \in Instances
    BY <1>1 DEF TypeOK
  <2> QED
    BY <1>2, <2>1, BindingType DEF Binding, IsByoc
<1>4. UNCHANGED <<inst, mint, sec>> /\ TypeOK'
  BY <1>1, <1>2, NextType DEF vars
<1>5. \/ keys = {}
      \/ /\ keys = {cSec.key} /\ cSec.exists /\ cSec.owner # 0
         /\ cSec.target = i.target /\ cSec.iuid = i.uid
  BY ZenonT(30) DEF DesiredAPIKeyFile
<1> HIDE DEF keys
<1>6. \A k \in keys : k \in 1 .. Len(mint) /\ mint[k] = Binding(i)
  BY <1>1, <1>2, <1>3, <1>5, ZenonT(30) DEF Good
<1>7. keys \subseteq Nat
  <2>1. Len(mint) \in Nat
    BY <1>1 DEF TypeOK
  <2> QED
    BY <1>6, <2>1
<1>8. FlowTypeOK'
  <2>1. keyfile' \in [Names -> SUBSET Nat]
    BY <1>1, <1>2, <1>7 DEF FlowTypeOK
  <2>2. accepted' \subseteq Nat \X Bindings
    BY <1>1, <1>2, <1>3, <1>7, ZenonT(30) DEF FlowTypeOK
  <2> QED
    BY <1>1, <1>2, <1>4, <2>1, <2>2, ZenonT(30) DEF FlowTypeOK
<1>9. KeyFileIsForTarget'
  <2>1. keyfile'[n] = keys /\ \A m \in Names \ {n} : keyfile'[m] = keyfile[m]
    BY <1>1, <1>2 DEF FlowTypeOK
  <2>2. \A m \in Names : \A k \in keyfile[m] :
          inst[m].active /\ k \in 1 .. Len(mint) /\ mint[k] = <<inst[m].target, inst[m].uid>>
    BY <1>1, ZenonT(30) DEF KeyFileIsForTarget, Keys
  <2>3. \A m \in Names : \A k \in keyfile'[m] :
          inst[m].active /\ k \in 1 .. Len(mint) /\ mint[k] = <<inst[m].target, inst[m].uid>>
    BY <1>2, <1>3, <1>6, <2>1, <2>2, ZenonT(30)
  <2> QED
    BY <1>4, <2>3, ZenonT(30) DEF KeyFileIsForTarget, Keys
<1>10. Vouched \subseteq Nat \X Bindings
  BY <1>1, VouchedType, ZenonT(30)
<1>11. CASE keys = {}
  <2>1. Vouched' = Vouched
    BY <1>2, <1>11 DEF Vouched
  <2> QED
    BY <1>1, <1>2, <1>8, <1>9, <2>1, FlowRest
<1>12. CASE keys = {cSec.key}
  <2> DEFINE V == Vouched \cup {<<cSec.key, Binding(i)>>}
  <2>1. keys \X {Binding(i)} = {<<cSec.key, Binding(i)>>}
    BY <1>12
  <2>2. Vouched' = V
    BY <1>2, <2>1, ZenonT(30) DEF Vouched
  <2>3. cSec.key \in Keys /\ mint[cSec.key] = Binding(i)
    BY <1>6, <1>12 DEF Keys
  <2>4. Sound(V, mint, sec)
    BY <1>1, <1>3, <1>10, <2>3, SoundGrows, LegacyIsNone, ZenonT(30)
  <2> HIDE DEF V
  <2> QED
    BY <1>1, <1>2, <1>8, <1>9, <2>2, <2>4, FlowRest
<1> QED
  BY <1>5, <1>11, <1>12

(* authorize and the rest of ownsToken vouch for nothing new; the list by    *)
(* slug label vouches for the audience that the Secret names.                *)
LEMMA FlowAuth ==
  ASSUME FlowInv, ListSecrets \/ OwnsToken \/ \E n \in Names, k \in Keys : Authorize(n, k)
  PROVE  FlowInv'
<1>1. /\ FlowTypeOK /\ TypeOK /\ TokenInv /\ KeyFileIsForTarget
      /\ auth.pc # "idle" => auth.uid \in Uids
      /\ Sound(Vouched, mint, sec) /\ Good(sec, mint)
  BY InvBySound, InvByGood, ZenonT(30) DEF FlowTypeOK
<1>2. UNCHANGED <<vars, keyfile>>
  BY ZenonT(30) DEF ListSecrets, OwnsToken, Authorize
<1>3. UNCHANGED <<inst, mint, sec>> /\ TypeOK'
  BY <1>1, <1>2, NextType DEF vars
<1>4. KeyFileIsForTarget'
  BY <1>1, <1>2, <1>3, ZenonT(30) DEF KeyFileIsForTarget, Keys
<1>5. Vouched \subseteq Nat \X Bindings
  BY <1>1, VouchedType, ZenonT(30)
<1>6. /\ auth \in [pc : {"idle", "list", "owner"}, uid : Uids \cup {None}, key : Nat, owner : Nat]
      /\ keyfile \in [Names -> SUBSET Nat] /\ accepted \subseteq Nat \X Bindings
  BY <1>1 DEF FlowTypeOK
<1>7. /\ NoAuth.pc = "idle"
      /\ NoAuth \in [pc : {"idle", "list", "owner"}, uid : Uids \cup {None}, key : Nat, owner : Nat]
  BY DEF NoAuth
<1>8. CASE auth' = NoAuth /\ accepted' \subseteq Vouched
  <2>1. FlowTypeOK'
    BY <1>2, <1>3, <1>5, <1>6, <1>7, <1>8, ZenonT(30) DEF FlowTypeOK
  <2>2. Vouched' \subseteq Vouched
    BY <1>7, <1>8, ZenonT(30) DEF Vouched
  <2> QED
    BY <1>1, <1>2, <1>4, <1>7, <1>8, <2>1, <2>2, FlowRest, ZenonT(30)
<1>9. ASSUME NEW n \in Names, NEW k \in Keys, Authorize(n, k)
      PROVE  FlowInv'
  <2>1. /\ auth' = [NoAuth EXCEPT !.pc = "list", !.uid = inst[n].uid, !.key = k]
        /\ accepted' = accepted /\ auth.pc = "idle"
    BY <1>9, ZenonT(30) DEF Authorize
  <2>2. inst[n].uid \in Uids /\ k \in Nat
    <3>1. Len(mint) \in Nat /\ inst[n] \in Instances
      BY <1>1 DEF TypeOK
    <3> QED
      BY <3>1 DEF Instances, Keys
  <2>3. /\ auth'.pc = "list" /\ auth'.uid \in Uids
        /\ auth' \in [pc : {"idle", "list", "owner"}, uid : Uids \cup {None},
                      key : Nat, owner : Nat]
    BY <2>1, <2>2, ZenonT(30) DEF NoAuth
  <2>4. FlowTypeOK'
    BY <1>2, <1>3, <1>6, <2>1, <2>3, ZenonT(30) DEF FlowTypeOK
  <2>5. Vouched' \subseteq Vouched
    BY <2>1, <2>3, ZenonT(30) DEF Vouched
  <2> QED
    BY <1>1, <1>2, <1>4, <2>3, <2>4, <2>5, FlowRest, ZenonT(30)
<1>10. CASE ListSecrets
  <2>1. /\ auth.pc = "list" /\ accepted' = accepted
        /\ \/ auth' = NoAuth
           \/ /\ MatchesSecret(auth.uid, auth.key, sec)
              /\ auth' = [auth EXCEPT !.pc = "owner", !.owner = sec.owner]
    BY <1>10, ZenonT(30) DEF ListSecrets
  <2>2. CASE auth' = NoAuth
    BY <1>8, <2>1, <2>2, ZenonT(30) DEF Vouched
  <2>3. CASE /\ MatchesSecret(auth.uid, auth.key, sec)
             /\ auth' = [auth EXCEPT !.pc = "owner", !.owner = sec.owner]
    <3> DEFINE a == <<None, auth.uid>>
               V == Vouched \cup {<<auth.key, a>>}
    <3>1. /\ auth'.pc = "owner" /\ auth'.uid = auth.uid /\ auth'.key = auth.key
          /\ auth' \in [pc : {"idle", "list", "owner"}, uid : Uids \cup {None},
                      key : Nat, owner : Nat]
      <4>1. sec.owner \in Nat
        BY <1>1 DEF TypeOK, Secrets
      <4> QED
        BY <1>6, <2>3, <4>1, ZenonT(30)
    <3>2. FlowTypeOK'
      BY <1>2, <1>3, <1>6, <2>1, <3>1, ZenonT(30) DEF FlowTypeOK
    <3>3. /\ sec.exists /\ sec.owner # 0 /\ sec.key = auth.key /\ sec.iuid = auth.uid
          /\ sec.target = None
      BY <2>3 DEF MatchesSecret
    <3>4. a \in Bindings /\ a[1] = None /\ a[2] = auth.uid
      BY <1>1, <2>1 DEF Bindings, TargetIds
    <3>5. auth.key \in Keys /\ (mint[auth.key] = a \/ mint[auth.key] = Legacy)
      BY <1>1, <3>3, ZenonT(30) DEF Good, Keys
    <3>6. Vouched' \subseteq V
      BY <2>1, <3>1, ZenonT(30) DEF Vouched
    <3> HIDE DEF a
    <3>7. Sound(V, mint, sec)
      BY <1>1, <1>5, <3>3, <3>4, <3>5, SoundGrows, LegacyIsNone, ZenonT(30)
    <3> HIDE DEF V
    <3> QED
      BY <1>1, <1>2, <1>4, <2>1, <3>1, <3>2, <3>6, <3>7, FlowRest
  <2> QED
    BY <2>1, <2>2, <2>3
<1>11. CASE OwnsToken
  <2>1. /\ auth.pc = "owner" /\ auth' = NoAuth
        /\ accepted' \subseteq accepted \cup {<<auth.key, <<None, auth.uid>>>>}
    BY <1>11, ZenonT(30) DEF OwnsToken
  <2> QED
    BY <1>8, <2>1, ZenonT(30) DEF Vouched
<1> QED
  BY <1>9, <1>10, <1>11

-----------------------------------------------------------------------------
(* The invariant and what follows from it.                                   *)

(* Nothing was accepted yet.                                                 *)
LEMMA InitFlow == FlowInit => FlowInv
<1> SUFFICES ASSUME FlowInit PROVE FlowInv
  OBVIOUS
<1>1. /\ Init /\ TokenInv /\ TypeOK /\ auth = NoAuth /\ accepted = {}
      /\ keyfile = [n \in Names |-> {}]
  BY InitInv DEF FlowInit, TokenInv
<1>2. /\ NoAuth.pc = "idle"
      /\ NoAuth \in [pc : {"idle", "list", "owner"}, uid : Uids \cup {None}, key : Nat, owner : Nat]
  BY DEF NoAuth
<1>3. FlowTypeOK
  BY <1>1, <1>2 DEF FlowTypeOK
<1>4. KeyFileIsForTarget
  BY <1>1 DEF KeyFileIsForTarget
<1>5. ASSUME NEW n \in Names PROVE inst[n].active => inst[n].target # None
  <2> DEFINE i == [NoInstance(<<n, 1>>) EXCEPT !.exists = TRUE, !.ready = TRUE]
             j(t) == [i EXCEPT !.byoc = TRUE, !.active = TRUE, !.target = t]
  <2>1. inst[n] \in SettledInstances(n)
    BY <1>1, ZenonT(30) DEF Init
  <2>2. ~NoInstance(<<n, 0>>).active /\ ~i.active
    BY DEF NoInstance
  <2>3. \A t \in Targets : j(t).target = t
    BY DEF NoInstance
  <2>4. inst[n] = NoInstance(<<n, 0>>) \/ inst[n] = i \/ \E t \in Targets : inst[n] = j(t)
    BY <2>1, ZenonT(30) DEF SettledInstances
  <2> HIDE DEF i, j
  <2> QED
    BY <2>2, <2>3, <2>4, ConstantsAssumption, ZenonT(30)
<1>6. Vouched = {}
  BY <1>1, <1>2, ZenonT(30) DEF Vouched
<1> QED
  BY <1>1, <1>2, <1>3, <1>4, <1>5, <1>6, ZenonT(30) DEF FlowInv

(* Every step keeps the invariant.                                           *)
LEMMA NextFlow == FlowInv /\ [FlowNext]_allVars => FlowInv'
<1>1. ASSUME FlowInv, FlowNext PROVE FlowInv'
  BY <1>1, FlowToken, FlowKeyFile, FlowAuth, ZenonT(30) DEF FlowNext
<1>2. ASSUME FlowInv, UNCHANGED allVars PROVE FlowInv'
  <2>1. UNCHANGED vars /\ UNCHANGED <<inst, mint, auth, keyfile, accepted>>
    BY <1>2 DEF allVars, vars
  <2>2. FlowTypeOK /\ KeyFileIsForTarget /\ Sound(Vouched, mint, sec)
        /\ (auth.pc # "idle" => auth.uid \in Uids)
    BY <1>2, InvBySound, ZenonT(30)
  <2>3. TypeOK'
    BY <2>1, <2>2, NextType DEF FlowTypeOK
  <2>4. FlowTypeOK' /\ KeyFileIsForTarget' /\ Vouched' = Vouched
    BY <2>1, <2>2, <2>3, ZenonT(30) DEF FlowTypeOK, KeyFileIsForTarget, Keys, Vouched
  <2> QED
    BY <1>2, <2>1, <2>2, <2>4, FlowRest, ZenonT(30)
<1> QED
  BY <1>1, <1>2

(* FlowInv holds in every reachable state, for any instances and clusters.   *)
THEOREM FlowInvariance == FlowSpec => []FlowInv
  BY InitFlow, NextFlow, PTL DEF FlowSpec

(* The auth server and the key files only read what TokenRequest describes:  *)
(* every theorem about the token controller holds of the composition.        *)
THEOREM FlowImplementsTokens == FlowSpec => Spec
<1>1. FlowInit => Init
  BY DEF FlowInit
<1>2. [FlowNext]_allVars => [Next]_vars
  BY ZenonT(30) DEF FlowNext, allVars, vars, ReconcileBYOCKeySecret, Authorize, ListSecrets,
     OwnsToken
<1> QED
  BY <1>1, <1>2, PTL DEF FlowSpec, Spec

(* No key is ever accepted by two audiences, although authorize reads the    *)
(* instance, the Secret and the request at three different moments and both  *)
(* controllers work from caches; a legacy key is adopted once.               *)
THEOREM KeysHaveOneAudience == FlowSpec => []OneAudiencePerKey
<1>1. FlowInv => OneAudiencePerKey
  BY ZenonT(30) DEF FlowInv, OneAudiencePerKey, Vouched
<1> QED
  BY <1>1, FlowInvariance, PTL

(* A key is accepted only by the audience it was generated for, unless it is *)
(* a hosted key from before keys were bound.                                 *)
THEOREM KeysAcceptedAsMinted == FlowSpec => []AcceptedAsMinted
<1>1. FlowInv => AcceptedAsMinted
  BY ZenonT(30) DEF FlowInv, AcceptedAsMinted, Vouched
<1> QED
  BY <1>1, FlowInvariance, PTL

(* At every moment the key file of an active target holds only keys that     *)
(* were generated for that cluster and that instance.                        *)
THEOREM KeyFilesAreForTargets == FlowSpec => []KeyFileIsForTarget
<1>1. FlowInv => KeyFileIsForTarget
  BY DEF FlowInv
<1> QED
  BY <1>1, FlowInvariance, PTL
=============================================================================
