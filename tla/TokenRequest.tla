---------------------------- MODULE TokenRequest ----------------------------
(***************************************************************************)
(* The APITokenRequest controller: one token request, the Secret it owns,  *)
(* and the LLMInstances it may name.                                       *)
(*                                                                         *)
(* The API server holds the objects tr, sec and inst.  Every write to an   *)
(* object bumps its rv (resourceVersion) and a write carrying an older rv  *)
(* is refused.  An absent object keeps its last rv and uid, so versions    *)
(* are never reused.  The controller reads through the manager's informer  *)
(* caches cTr, cSec and cInst, each of which may lag behind the API        *)
(* server, and writes to the API server directly.                          *)
(*                                                                         *)
(* w is the work of the one worker that controller-runtime runs per        *)
(* request: a handler is split where it calls the API server, so that      *)
(* other writers, a crash or a failed call may come between two calls.     *)
(* Cached reads that no write separates are made in one step: the caches   *)
(* of the three kinds advance independently, so delaying their updates     *)
(* past the step yields every combination the separate reads could see.    *)
(***************************************************************************)
EXTENDS Naturals, Sequences

CONSTANTS Names,       \* names of LLMInstances in the namespace
          Targets,     \* identities of customer (BYOC) clusters
          None,        \* the empty string: no target, no UID, no label, no URL
          Legacy,      \* the audience of a key minted before keys were bound
          Budgets      \* what users and failures may do; Init chooses one

(* The instances in play, and bounds on the edits of instances, request and *)
(* Secret and on restarts, failed calls and timestamp-only writes.          *)
Bounds == [names : SUBSET Names, inst : Nat, tr : Nat, sec : Nat, fault : Nat]

ASSUME ConstantsAssumption ==
  /\ Names # {} /\ None \notin Targets
  /\ None \notin Names
  /\ None \notin Names \X Nat
  /\ Legacy \notin (Targets \cup {None}) \X ((Names \X Nat) \cup {None})
  /\ Budgets \subseteq Bounds

VARIABLES
  inst,      \* LLMInstances by name, as far as the token controller reads them
  tr,        \* the APITokenRequest
  sec,       \* the token Secret, named after the request
  cInst, cTr, cSec,   \* the informer caches
  queued,    \* the request is in the controller's work queue
  w,         \* the worker: program counter and locals of the running handler
  mint,      \* history: mint[k] is the audience key k was generated for
  budget     \* what is left of the chosen budget

objects == <<inst, tr, sec>>
caches == <<cInst, cTr, cSec>>
vars == <<inst, tr, sec, cInst, cTr, cSec, queued, w, mint, budget>>

Uids == Names \X Nat              \* instance UIDs, never reused
TargetIds == Targets \cup {None}
Bindings == TargetIds \X Uids
Keys == 1 .. Len(mint)            \* the keys generated so far

(* ready abbreviates the conditions on status that the controller tests     *)
(* together: slug as the policy selects it, an endpoint, and a Ready        *)
(* condition observed at the current generation.                            *)
Instances == [exists : BOOLEAN, uid : Uids, byoc : BOOLEAN, active : BOOLEAN,
              target : TargetIds, ready : BOOLEAN, deleting : BOOLEAN]

Requests == [exists : BOOLEAN, uid : Nat, rv : Nat, gen : Nat, name : Names,
             finalizer : BOOLEAN, deleting : BOOLEAN, version : Nat,
             phase : {"Unset", "Pending", "Ready"}, secret : BOOLEAN, observed : Nat]

(* owner 0 stands for a Secret that no APITokenRequest controls.  url None  *)
(* is https://unavailable.invalid with its annotation.                      *)
Secrets == [exists : BOOLEAN, rv : Nat, owner : Nat, key : Nat,
            target : TargetIds, iuid : Uids \cup {None},
            label : Names \cup {None}, slug : Uids \cup {None}, url : Bindings \cup {None}]

Steps == {"idle", "ensureFinalizer", "finalize", "removeFinalizer",
          "invalidate", "ensureSecret", "touch", "status"}

Workers == [pc : Steps, tr : Requests, inst : Instances, ver : Nat,
            phase : {"Unset", "Pending", "Ready"}, tries : 0 .. 2]

TypeOK ==
  /\ inst \in [Names -> Instances] /\ cInst \in [Names -> Instances]
  /\ tr \in Requests /\ cTr \in Requests
  /\ sec \in Secrets /\ cSec \in Secrets
  /\ queued \in BOOLEAN
  /\ w \in Workers
  /\ mint \in Seq(Bindings \cup {Legacy})
  /\ budget \in Bounds

-----------------------------------------------------------------------------
(* What the controller computes from an instance.                          *)

IsByoc(i) == i.byoc \/ i.active
Serving(i) == i.ready /\ ~i.deleting /\ (IsByoc(i) => i.target # None)
Binding(i) == <<IF IsByoc(i) THEN i.target ELSE None, i.uid>>
Endpoint(i) == Binding(i)   \* a URL is named after the slug, or the UID and target
(* Mutant: the instance label carries the UID.                              *)
NameOfByUid(i) == i.uid

NameOf(i) == i.uid[1]
Slug(i) == i.uid            \* a derived slug is a digest of the UID

(* Mutant: any controlled Secret counts as the request's own.               *)
OwnsAnyControlled(t, s) == s.owner # 0

OwnsTokenSecret(t, s) == s.owner # 0 /\ s.owner = t.uid

LegacyHostedBindingMatches(s, i, slug) ==
  s.label = NameOf(i) /\ slug # None /\ s.slug = slug

MayBind(i, allowHosted) ==
  i.exists /\ IF IsByoc(i) THEN i.target # None ELSE allowHosted

Backfills(s, i, slug) ==
  /\ ~IsByoc(i) /\ s.target = None /\ s.iuid = None
  /\ LegacyHostedBindingMatches(s, i, slug)

(* Mutant: the annotations move on, the key stays.                          *)
RotateKeepsKey(s, i, allowHosted, slug) ==
  IF ~MayBind(i, allowHosted) THEN s
  ELSE [s EXCEPT !.target = Binding(i)[1], !.iuid = i.uid]

RotateTokenForTarget(s, i, allowHosted, slug) ==
  IF ~MayBind(i, allowHosted) \/ <<s.target, s.iuid>> = Binding(i) THEN s
  ELSE IF Backfills(s, i, slug) THEN [s EXCEPT !.iuid = i.uid]
  ELSE [s EXCEPT !.key = Len(mint) + 1,
                 !.target = Binding(i)[1], !.iuid = i.uid]

(* Mutant: the old URL is left in place.                                    *)
InvalidatedKeepsUrl(s, i) == RotateTokenForTarget(s, i, FALSE, None)

(* The Secret as invalidateTokenEndpoint leaves it.  Only an established    *)
(* BYOC target relabels it: a pending hosted retarget keeps the old label.  *)
Invalidated(s, i) ==
  [RotateTokenForTarget(s, i, FALSE, None) EXCEPT
     !.label = IF i.exists /\ IsByoc(i) /\ i.target # None THEN NameOf(i) ELSE @,
     !.url = None]

(* Mutant: the slug label is not refreshed.                                 *)
PublishedKeepsSlug(s, i) ==
  [RotateTokenForTarget(s, i, TRUE, Slug(i)) EXCEPT
     !.label = NameOf(i), !.url = Endpoint(i)]

(* The Secret as ensureSecret leaves it: rotation, then applySecretMutations. *)
Published(s, i) ==
  [RotateTokenForTarget(s, i, TRUE, Slug(i)) EXCEPT
     !.label = NameOf(i), !.slug = Slug(i), !.url = Endpoint(i)]

CreatedSecret(t, i) ==
  [exists |-> TRUE, rv |-> sec.rv + 1, owner |-> t.uid, key |-> Len(mint) + 1,
   target |-> Binding(i)[1], iuid |-> i.uid,
   label |-> NameOf(i), slug |-> Slug(i), url |-> Endpoint(i)]

-----------------------------------------------------------------------------
(* The API server.                                                         *)

NoInstance(u) == [exists |-> FALSE, uid |-> u, byoc |-> FALSE, active |-> FALSE,
                  target |-> None, ready |-> FALSE, deleting |-> FALSE]

NoRequest(n, u, v) ==
  [exists |-> FALSE, uid |-> u, rv |-> v, gen |-> 0, name |-> n,
   finalizer |-> FALSE, deleting |-> FALSE, version |-> 0,
   phase |-> "Unset", secret |-> FALSE, observed |-> 0]

NoSecret(v) == [exists |-> FALSE, rv |-> v, owner |-> 0, key |-> 0, target |-> None,
                iuid |-> None, label |-> None, slug |-> None, url |-> None]

(* An update through a copy succeeds only at the version of the copy.       *)
IsCurrentTr(copy) == tr.exists /\ copy.rv = tr.rv
IsCurrentSec(copy) == sec.exists /\ copy.rv = sec.rv

RemovedTr == NoRequest(tr.name, tr.uid, tr.rv + 1)
RemovedSec == NoSecret(sec.rv + 1)

-----------------------------------------------------------------------------
(* The handlers of the controller.                                         *)

AnyName == CHOOSE n \in Names : TRUE
Idle == [pc |-> "idle", tr |-> NoRequest(AnyName, 0, 0), inst |-> NoInstance(<<AnyName, 0>>),
         ver |-> 0, phase |-> "Unset", tries |-> 0]

Return(requeue) == w' = Idle /\ queued' = (queued \/ requeue)

(* Reconcile: read the request and the instance it names, and branch.       *)
Reconcile ==
  /\ w.pc = "idle" /\ queued
  /\ queued' = FALSE
  /\ LET i == cInst[cTr.name]
         Call(step) == [Idle EXCEPT !.pc = step, !.tr = cTr]
         With(step) == [Call(step) EXCEPT !.inst = i]
     IN  w' = CASE ~cTr.exists -> Idle
                [] cTr.exists /\ cTr.deleting ->
                     IF cTr.finalizer THEN Call("finalize") ELSE Idle
                [] cTr.exists /\ ~cTr.deleting /\ ~cTr.finalizer -> Call("ensureFinalizer")
                [] cTr.exists /\ ~cTr.deleting /\ cTr.finalizer ->
                     IF i.exists /\ Serving(i) THEN With("ensureSecret") ELSE With("invalidate")
  /\ UNCHANGED <<objects, caches, mint, budget>>

EnsureFinalizer ==
  /\ w.pc = "ensureFinalizer"
  /\ tr' = IF IsCurrentTr(w.tr) THEN [tr EXCEPT !.finalizer = TRUE, !.rv = @ + 1] ELSE tr
  /\ Return(TRUE)
  /\ UNCHANGED <<inst, sec, caches, mint, budget>>

(* finalizeTokenRequest, first half: delete the owned Secret the list        *)
(* returned, at the version listed.  A failed delete does not block.         *)
FinalizeTokenRequest ==
  /\ w.pc = "finalize"
  /\ sec' = IF cSec.exists /\ OwnsTokenSecret(w.tr, cSec) /\ IsCurrentSec(cSec)
            THEN RemovedSec ELSE sec
  /\ w' = [w EXCEPT !.pc = "removeFinalizer"]
  /\ UNCHANGED <<inst, tr, caches, queued, mint, budget>>

(* finalizeTokenRequest, second half: three attempts to drop the finalizer,  *)
(* each conflict followed by a fresh cached read.                            *)
RemoveFinalizer ==
  /\ w.pc = "removeFinalizer"
  /\ \/ /\ IsCurrentTr(w.tr)
        /\ tr' = IF tr.deleting THEN RemovedTr
                 ELSE IF tr.finalizer THEN [tr EXCEPT !.finalizer = FALSE, !.rv = @ + 1]
                 ELSE tr
        /\ Return(FALSE)
     \/ /\ ~tr.exists
        /\ Return(FALSE)
        /\ UNCHANGED tr
     \/ /\ tr.exists /\ w.tr.rv # tr.rv
        /\ IF cTr.exists /\ w.tries < 2
           THEN /\ w' = [w EXCEPT !.tr = cTr, !.tries = @ + 1]
                /\ UNCHANGED queued
           ELSE Return(FALSE)
        /\ UNCHANGED tr
  /\ UNCHANGED <<inst, sec, caches, mint, budget>>

(* Mutant: a changed Secret is written whatever its version is by now.      *)
ForceSecret(desired, phase) ==
  /\ sec' = IF sec.exists /\ desired # cSec
            THEN [desired EXCEPT !.rv = sec.rv + 1] ELSE sec
  /\ mint' = IF desired.key # cSec.key
             THEN Append(mint, <<desired.target, desired.iuid>>) ELSE mint
  /\ w' = [w EXCEPT !.pc = "touch", !.ver = sec'.rv, !.phase = phase]
  /\ UNCHANGED queued

(* The shared tail of ensureSecret and invalidateTokenEndpoint: write the    *)
(* Secret if it changed and go on to touch the request.                      *)
WriteSecret(desired, phase) ==
  LET Touch(v) == [w EXCEPT !.pc = "touch", !.ver = v, !.phase = phase]
  IN \/ /\ desired = cSec
        /\ w' = Touch(cSec.rv)
        /\ UNCHANGED <<sec, mint, queued>>
     \/ /\ desired # cSec /\ IsCurrentSec(cSec)
        /\ sec' = [desired EXCEPT !.rv = @ + 1]
        /\ mint' = IF desired.key # cSec.key
                   THEN Append(mint, <<desired.target, desired.iuid>>) ELSE mint
        /\ w' = Touch(cSec.rv + 1)
        /\ UNCHANGED queued
     \/ /\ desired # cSec /\ ~IsCurrentSec(cSec)
        /\ Return(TRUE)
        /\ UNCHANGED <<sec, mint>>

InvalidateTokenEndpoint ==
  /\ w.pc = "invalidate"
  /\ \/ /\ ~cSec.exists
        /\ w' = [w EXCEPT !.pc = "status", !.phase = "Pending"]
        /\ UNCHANGED <<sec, mint, queued>>
     \/ /\ cSec.exists /\ ~OwnsTokenSecret(w.tr, cSec)
        /\ Return(TRUE)
        /\ UNCHANGED <<sec, mint>>
     \/ /\ cSec.exists /\ OwnsTokenSecret(w.tr, cSec)
        /\ WriteSecret(Invalidated(cSec, w.inst), "Pending")
  /\ UNCHANGED <<inst, tr, caches, budget>>

EnsureSecret ==
  /\ w.pc = "ensureSecret"
  /\ \/ /\ ~cSec.exists /\ ~sec.exists     \* createSecret
        /\ sec' = CreatedSecret(w.tr, w.inst)
        /\ mint' = Append(mint, Binding(w.inst))
        /\ w' = [w EXCEPT !.pc = "status", !.phase = "Ready"]
        /\ UNCHANGED queued
     \/ /\ \/ ~cSec.exists /\ sec.exists   \* AlreadyExists
           \/ cSec.exists /\ ~OwnsTokenSecret(w.tr, cSec)
        /\ Return(TRUE)
        /\ UNCHANGED <<sec, mint>>
     \/ /\ cSec.exists /\ OwnsTokenSecret(w.tr, cSec)
        /\ WriteSecret(Published(cSec, w.inst), "Ready")
  /\ UNCHANGED <<inst, tr, caches, budget>>

(* touchAPITokenRequest: record the Secret's version on the request, which   *)
(* makes the sync agent copy the Secret.  On the Pending path the caller then *)
(* sets status.secretName in memory.                                          *)
TouchAPITokenRequest ==
  LET Status(t) ==
        [w EXCEPT !.pc = "status",
                  !.tr = [t EXCEPT !.secret = @ \/ w.phase = "Pending"]]
  IN /\ w.pc = "touch"
     /\ \/ /\ w.tr.version = w.ver
           /\ w' = Status(w.tr)
           /\ UNCHANGED <<tr, queued>>
        \/ /\ w.tr.version # w.ver /\ IsCurrentTr(w.tr)
           /\ tr' = [tr EXCEPT !.version = w.ver, !.rv = @ + 1]
           /\ w' = Status(tr')
           /\ UNCHANGED queued
        \/ /\ w.tr.version # w.ver /\ ~IsCurrentTr(w.tr)
           /\ Return(TRUE)
           /\ UNCHANGED tr
     /\ UNCHANGED <<inst, sec, caches, mint, budget>>

(* Mutant: the status is written to the latest version of the request.      *)
UpdateLatestStatus ==
  /\ w.pc = "status"
  /\ tr' = IF tr.exists
           THEN [tr EXCEPT !.phase = w.phase, !.observed = tr.gen, !.rv = @ + 1,
                           !.secret = w.tr.secret \/ w.phase = "Ready"]
           ELSE tr
  /\ Return(w.phase = "Pending" \/ ~tr.exists)
  /\ UNCHANGED <<inst, sec, caches, mint, budget>>

(* updateReadyStatus and updatePendingStatus.  The condition's timestamp     *)
(* changes when the clock has moved on by a second: late.                    *)
UpdateStatus ==
  LET new == [tr EXCEPT !.phase = w.phase, !.observed = tr.gen,
                        !.secret = w.tr.secret \/ w.phase = "Ready"]
  IN /\ w.pc = "status"
     /\ \E late \in BOOLEAN :
          /\ late => new = tr /\ IsCurrentTr(w.tr) /\ budget.fault > 0
          /\ tr' = IF IsCurrentTr(w.tr) /\ (late \/ new # tr)
                   THEN [new EXCEPT !.rv = @ + 1] ELSE tr
          /\ budget' = IF late THEN [budget EXCEPT !.fault = @ - 1] ELSE budget
     /\ Return(w.phase = "Pending" \/ ~IsCurrentTr(w.tr))
     /\ UNCHANGED <<inst, sec, caches, mint>>

Controller ==
  \/ Reconcile \/ EnsureFinalizer \/ FinalizeTokenRequest \/ RemoveFinalizer
  \/ InvalidateTokenEndpoint \/ EnsureSecret \/ TouchAPITokenRequest \/ UpdateStatus

-----------------------------------------------------------------------------
(* The informers: a cache catches up with the API server and the watch       *)
(* handlers of SetupWithManager enqueue the request.                          *)

SyncTr ==
  /\ cTr # tr
  /\ cTr' = tr
  /\ queued' = TRUE
  /\ UNCHANGED <<objects, cInst, cSec, w, mint, budget>>

(* Mutant: the controller does not watch the Secret.                         *)
SyncSecUnwatched ==
  /\ cSec # sec
  /\ cSec' = sec
  /\ UNCHANGED <<objects, cInst, cTr, queued, w, mint, budget>>

SyncSec ==
  /\ cSec # sec
  /\ cSec' = sec
  /\ queued' = (queued \/ cSec.owner # 0 \/ sec.owner # 0)
  /\ UNCHANGED <<objects, cInst, cTr, w, mint, budget>>

(* findTokenRequestsForInstance matches against the cached request.           *)
SyncInst ==
  /\ cInst # inst
  /\ cInst' = inst
  /\ queued' = (queued \/ (cTr.exists /\ cInst[cTr.name] # inst[cTr.name]))
  /\ UNCHANGED <<objects, cTr, cSec, w, mint, budget>>

-----------------------------------------------------------------------------
(* Faults.                                                                   *)

(* The manager restarts: the handler is gone, the caches are listed afresh    *)
(* and every listed object is enqueued.                                       *)
Restart ==
  /\ budget.fault > 0
  /\ w.pc # "idle"
  /\ w' = Idle /\ queued' = TRUE
  /\ cTr' = tr /\ cSec' = sec /\ cInst' = inst
  /\ budget' = [budget EXCEPT !.fault = @ - 1]
  /\ UNCHANGED <<objects, mint>>

(* The API server answers a call with an error: the finalizer goes on after   *)
(* a failed list or delete, every other handler returns and is retried.       *)
CallFails ==
  /\ budget.fault > 0
  /\ w.pc # "idle"
  /\ IF w.pc = "finalize"
     THEN w' = [w EXCEPT !.pc = "removeFinalizer"] /\ UNCHANGED queued
     ELSE Return(TRUE)
  /\ budget' = [budget EXCEPT !.fault = @ - 1]
  /\ UNCHANGED <<objects, caches, mint>>

-----------------------------------------------------------------------------
(* The tenant and the sync agent.                                            *)

SpendTr == budget.tr > 0 /\ budget' = [budget EXCEPT !.tr = @ - 1]
SpendSec == budget.sec > 0 /\ budget' = [budget EXCEPT !.sec = @ - 1]
SpendInst == budget.inst > 0 /\ budget' = [budget EXCEPT !.inst = @ - 1]

CreateRequest(n) ==
  /\ ~tr.exists /\ SpendTr
  /\ tr' = [NoRequest(n, tr.uid + 1, tr.rv + 1) EXCEPT !.exists = TRUE, !.gen = 1]
  /\ UNCHANGED <<inst, sec, caches, queued, w, mint>>

Retarget(n) ==
  /\ tr.exists /\ tr.name # n /\ SpendTr
  /\ tr' = [tr EXCEPT !.name = n, !.gen = @ + 1, !.rv = @ + 1]
  /\ UNCHANGED <<inst, sec, caches, queued, w, mint>>

DeleteRequest ==
  /\ tr.exists /\ ~tr.deleting /\ SpendTr
  /\ tr' = IF tr.finalizer THEN [tr EXCEPT !.deleting = TRUE, !.gen = @ + 1, !.rv = @ + 1]
           ELSE RemovedTr
  /\ UNCHANGED <<inst, sec, caches, queued, w, mint>>

(* Somebody writes a fresh key into the Secret, for the same audience.        *)
ReplaceKey ==
  /\ sec.exists /\ sec.owner # 0 /\ SpendSec
  /\ sec' = [sec EXCEPT !.key = Len(mint) + 1, !.rv = @ + 1]
  /\ mint' = Append(mint, IF sec.iuid = None THEN Legacy ELSE <<sec.target, sec.iuid>>)
  /\ UNCHANGED <<inst, tr, caches, queued, w>>

DeleteSecret ==
  /\ sec.exists /\ SpendSec
  /\ sec' = RemovedSec
  /\ UNCHANGED <<inst, tr, caches, queued, w, mint>>

(* A Secret of the same name that the request does not control.               *)
CreateForeignSecret ==
  /\ ~sec.exists /\ SpendSec
  /\ sec' = [NoSecret(sec.rv + 1) EXCEPT !.exists = TRUE]
  /\ UNCHANGED <<inst, tr, caches, queued, w, mint>>

(* The garbage collector removes a Secret whose owner is gone.                *)
CollectSecret ==
  /\ sec.exists /\ sec.owner # 0 /\ ~(tr.exists /\ tr.uid = sec.owner)
  /\ sec' = RemovedSec
  /\ UNCHANGED <<inst, tr, caches, queued, w, mint, budget>>

-----------------------------------------------------------------------------
(* The LLMInstances, as their controller and their users change them.        *)

SetInst(n, i) ==
  /\ SpendInst
  /\ inst' = [inst EXCEPT ![n] = i]
  /\ UNCHANGED <<tr, sec, caches, queued, w, mint>>

CreateInstance(n) ==
  /\ ~inst[n].exists
  /\ \E b \in BOOLEAN :
       SetInst(n, [NoInstance(<<n, inst[n].uid[2] + 1>>) EXCEPT !.exists = TRUE, !.byoc = b])

(* A spec edit switches between hosted and BYOC; the generation moves on.     *)
SwitchMode(n) ==
  /\ inst[n].exists
  /\ SetInst(n, [inst[n] EXCEPT !.byoc = ~@, !.ready = FALSE])

(* reconcileBYOC records the verified target before it provisions anything.   *)
ActivateTarget(n, t) ==
  /\ inst[n].exists /\ inst[n].byoc /\ inst[n].target = None /\ ~inst[n].deleting
  /\ SetInst(n, [inst[n] EXCEPT !.active = TRUE, !.target = t, !.ready = FALSE])

(* cleanupChangedBYOCTarget forgets the previous target, endpoint withdrawn.  *)
ReleaseTarget(n) ==
  /\ inst[n].exists /\ inst[n].active /\ ~inst[n].ready /\ ~inst[n].deleting
  /\ SetInst(n, [inst[n] EXCEPT !.active = FALSE, !.target = None])

(* updateReadyStatus, reached only with no target or with a live one.         *)
BecomeReady(n) ==
  /\ inst[n].exists /\ ~inst[n].ready /\ ~inst[n].deleting
  /\ IF inst[n].byoc THEN inst[n].active /\ inst[n].target # None ELSE ~inst[n].active
  /\ SetInst(n, [inst[n] EXCEPT !.ready = TRUE])

BecomeUnready(n) ==
  /\ inst[n].exists /\ inst[n].ready
  /\ SetInst(n, [inst[n] EXCEPT !.ready = FALSE])

(* A deletion moves the generation on, too.                                   *)
DeleteInstance(n) ==
  /\ inst[n].exists /\ ~inst[n].deleting
  /\ SetInst(n, [inst[n] EXCEPT !.deleting = TRUE, !.ready = FALSE])

(* finalizeLLMInstance has removed the finalizer, or the instance is deleted  *)
(* before its controller has added one.                                       *)
RemoveInstance(n) ==
  /\ inst[n].exists /\ (inst[n].deleting \/ (~inst[n].active /\ ~inst[n].ready))
  /\ SetInst(n, NoInstance(inst[n].uid))

Environment ==
  \/ \E n \in budget.names : CreateRequest(n) \/ Retarget(n)
  \/ DeleteRequest \/ ReplaceKey \/ DeleteSecret \/ CreateForeignSecret \/ CollectSecret
  \/ \E n \in budget.names :
       \/ CreateInstance(n) \/ SwitchMode(n) \/ ReleaseTarget(n) \/ BecomeReady(n)
       \/ BecomeUnready(n) \/ DeleteInstance(n) \/ RemoveInstance(n)
       \/ \E t \in Targets : ActivateTarget(n, t)

-----------------------------------------------------------------------------
(* An instance in a settled state: absent, hosted, or serving from a target.  *)
SettledInstances(n) ==
  LET i == [NoInstance(<<n, 1>>) EXCEPT !.exists = TRUE, !.ready = TRUE]
  IN {NoInstance(<<n, 0>>), i} \cup
     {[i EXCEPT !.byoc = TRUE, !.active = TRUE, !.target = t] : t \in Targets}

(* Nothing was requested yet.                                                 *)
InitFresh ==
  /\ tr = NoRequest(AnyName, 0, 0) /\ sec = NoSecret(0) /\ mint = <<>>

(* An upgrade finds a hosted key that an earlier version wrote: no binding,    *)
(* only the labels of the instance it was minted for.                         *)
InitLegacy ==
  /\ \E n \in Names :
       /\ inst[n].exists /\ ~inst[n].active
       /\ tr = [NoRequest(n, 1, 1) EXCEPT !.exists = TRUE, !.gen = 1, !.finalizer = TRUE,
                   !.phase = "Ready", !.secret = TRUE, !.observed = 1]
       /\ sec = [NoSecret(1) EXCEPT !.exists = TRUE, !.owner = 1, !.key = 1, !.label = n,
                   !.slug = inst[n].uid, !.url = Endpoint(inst[n])]
  /\ mint = <<Legacy>>

Init ==
  /\ budget \in Budgets
  /\ inst \in {f \in [Names -> UNION {SettledInstances(n) : n \in Names}] :
                 /\ \A n \in Names : f[n] \in SettledInstances(n)
                 /\ \A n \in Names \ budget.names : ~f[n].exists}
  /\ InitFresh \/ InitLegacy
  /\ cInst = inst /\ cTr = tr /\ cSec = sec
  /\ queued = TRUE /\ w = Idle

Next == Controller \/ SyncTr \/ SyncSec \/ SyncInst \/ Restart \/ CallFails \/ Environment

Spec == Init /\ [][Next]_vars

(* The worker keeps taking work, the informers keep delivering and the        *)
(* garbage collector keeps running; nobody has to edit anything.              *)
Fairness ==
  /\ WF_vars(Controller) /\ WF_vars(SyncTr) /\ WF_vars(SyncSec) /\ WF_vars(SyncInst)
  /\ WF_vars(CollectSecret)

FairSpec == Spec /\ Fairness

-----------------------------------------------------------------------------
(* Safety.                                                                   *)

(* The key in a token Secret, in the API server or in the cache the next     *)
(* update is computed from, was generated for exactly the target and the     *)
(* instance UID that the Secret's annotations claim; only a hosted key from  *)
(* before the annotations existed may carry a binding it was not minted for. *)
(* rotateTokenForTarget must therefore change key and annotations together,  *)
(* whatever version of the instance and of the Secret it was computed from.  *)
KeyFollowsBinding ==
  \A s \in {sec, cSec} : s.exists /\ s.owner # 0 =>
    /\ s.key \in Keys
    /\ \/ mint[s.key] = <<s.target, s.iuid>>
       \/ mint[s.key] = Legacy /\ s.target = None

(* Consumers never see the URL of one instance or cluster beside the key of  *)
(* another: a published URL is the endpoint of the audience that the key is  *)
(* bound to.  The exception is the untouched legacy Secret.                  *)
EndpointMatchesKey ==
  \A s \in {sec, cSec} : s.exists /\ s.owner # 0 /\ s.url # None /\ s.iuid # None
    => s.url = <<s.target, s.iuid>>

(* When a request reports Ready for its current generation and has recorded  *)
(* the Secret's current version, the URL that Secret publishes is one of the *)
(* instance that this generation names: a retarget racing with the Secret    *)
(* update, the touch or the status update is never reported as done.         *)
(* Without the recorded version this is false: retargeting a, b, a within    *)
(* the lag of the Secret cache reports Ready while the Secret is still bound *)
(* to b, until the cache catches up.                                         *)
ReadyNamesTheInstance ==
  /\ tr.exists /\ tr.phase = "Ready" /\ tr.observed = tr.gen
  /\ sec.exists /\ sec.owner = tr.uid /\ tr.version = sec.rv /\ sec.url # None
  => sec.url[2][1] = tr.name

(* ensureSecret, invalidateTokenEndpoint and the finalizer change or delete  *)
(* only a Secret controlled by the very request they work on: not a foreign  *)
(* one of that name, not the Secret of a deleted request of the same name.   *)
OnlyOwnSecretChanged ==
  [][Controller /\ sec.exists /\ sec' # sec => sec.owner = w.tr.uid /\ sec.owner # 0]_vars

(* The controller replaces a key only together with its binding: retries,    *)
(* restarts, stale reads and endpoint changes of the same target and         *)
(* instance keep the key that consumers hold.                                *)
RotationMeansRebinding ==
  [][Controller /\ sec.exists /\ sec'.exists /\ sec'.key # sec.key
       => <<sec'.target, sec'.iuid>> # <<sec.target, sec.iuid>>]_vars

(* The inductive invariant behind the safety theorems.  The cached Secret is *)
(* a version of the Secret, so an update accepted at its version was computed *)
(* from the very content it replaces; and ensureSecret runs only for an      *)
(* instance that the same Reconcile found serving, so it always binds.       *)
TokenInv ==
  /\ TypeOK
  /\ cSec.rv <= sec.rv /\ (cSec.rv = sec.rv => cSec = sec)
  /\ w.pc = "ensureSecret" => w.inst.exists /\ Serving(w.inst)
  /\ KeyFollowsBinding
  /\ EndpointMatchesKey

(* Versions of the request are never reused and never run ahead of the       *)
(* Secret's, and an instance has a UID of its own name.                      *)
VersionInv ==
  /\ cTr.rv <= tr.rv /\ (cTr.rv = tr.rv => cTr = tr)
  /\ tr.version <= sec.rv /\ cTr.version <= sec.rv /\ tr.observed <= tr.gen
  /\ \A n \in Names : inst[n].uid[1] = n /\ cInst[n].uid[1] = n

(* A handler works for the instance that its copy of the request names; and  *)
(* as long as the Secret is at the version the handler wrote or found, its   *)
(* URL is what the handler computed.                                         *)
HandlerInv ==
  w.pc # "idle" =>
    /\ w.tr.rv <= tr.rv /\ w.tr.version <= sec.rv /\ w.ver <= sec.rv
    /\ w.tr.rv = tr.rv /\ tr.exists => w.tr.name = tr.name /\ w.tr.version = tr.version
    /\ w.pc \in {"invalidate", "ensureSecret", "touch", "status"} =>
         w.inst.uid[1] = w.tr.name
    /\ w.pc = "touch" => w.phase \in {"Pending", "Ready"}
    /\ w.pc = "touch" /\ sec.exists /\ sec.rv = w.ver =>
         sec.url = IF w.phase = "Ready" THEN Endpoint(w.inst) ELSE None
    /\ w.pc = "status" /\ w.phase = "Ready" /\ sec.exists /\ sec.rv = w.tr.version =>
         sec.url = Endpoint(w.inst)

(* The inductive invariant behind ReadyNamesTheInstance.                     *)
ReadyInv == TokenInv /\ VersionInv /\ HandlerInv /\ ReadyNamesTheInstance

-----------------------------------------------------------------------------
(* Liveness.                                                                 *)

SecretSettled(i) ==
  IF i.exists /\ Serving(i)
  THEN /\ sec.exists /\ sec.url = Endpoint(i) /\ <<sec.target, sec.iuid>> = Binding(i)
       /\ sec.label = tr.name /\ sec.slug = Slug(i) /\ tr.version = sec.rv
       /\ tr.phase = "Ready" /\ tr.secret
  ELSE /\ sec.exists => sec.url = None /\ tr.version = sec.rv /\ tr.secret
       /\ tr.phase = "Pending"

Settled ==
  /\ tr.exists => ~tr.deleting
  /\ sec.exists => sec.owner = 0 \/ (tr.exists /\ sec.owner = tr.uid)
  /\ tr.exists /\ ~(sec.exists /\ sec.owner = 0) =>
       tr.observed = tr.gen /\ SecretSettled(inst[tr.name])

(* Once users and instances stop changing, the controller ends in a state    *)
(* where the Secret publishes the endpoint and a key for the named instance  *)
(* as it really is (or withholds the URL while it is not ready), the request *)
(* has recorded the Secret's latest version so that the sync agent copied    *)
(* it, and a deleted request and its Secret are gone.  No stale cache, lost  *)
(* conflict, failed call or restart leaves it short of that.                 *)
Converges == <>[]Settled
=============================================================================
