---------------------------- MODULE ByocLifecycle ----------------------------
(***************************************************************************)
(* One LLMInstance as the LLMInstance controller drives it: provisioning   *)
(* on a customer (BYOC) cluster, moving between clusters or back to the    *)
(* hosted service, and deletion.                                           *)
(*                                                                         *)
(* A customer cluster is reached at an API server; target identity is the  *)
(* pair of that API server and the incarnation of the cluster behind it    *)
(* (byocClusterIdentity hashes the two).  A kubeconfig is represented by   *)
(* the API server it reaches.  src is the user's kubeconfig Secrets, creds *)
(* the operator's protected copy and cCreds the informer cache through     *)
(* which the controller reads that copy.  src is only ever written by the  *)
(* user, so it stands for the cache's view of those Secrets as well.       *)
(*                                                                         *)
(* remote holds the instance's objects on the customer cluster, managed    *)
(* those the operator requests in its own cluster.  Deployment stands for  *)
(* the Deployment, the key Secret and the proxy ConfigMap, Certificate for *)
(* the Certificate and the Secrets it fills.  Pending objects become ready *)
(* and deleting ones vanish when other controllers get to it.              *)
(*                                                                         *)
(* w is the one worker on this instance.  A handler is split where it      *)
(* calls an API server; nobody else writes remote, managed or creds, so    *)
(* reads of them are joined with the write that follows.  The slug and the *)
(* hosted route are settled before the steps modelled here.                *)
(***************************************************************************)
EXTENDS Naturals

CONSTANTS Refs,       \* names of kubeconfig Secrets an instance may refer to
          Apis,       \* API servers of customer clusters
          None,       \* the empty string: no reference, identity or endpoint
          Hosted,     \* the hosted endpoint
          CacheLag,   \* whether the Secret cache may lag behind its writer
          MaxUid,     \* bound on the incarnations of a cluster
          Budgets     \* bounds on the user and on failures: the references
                      \* the user plays with, how many edits, how many faults

ASSUME LifecycleAssumption ==
  /\ None \notin Refs \cup Apis \cup (Apis \X Nat)
  /\ Hosted # None /\ Hosted \notin Apis \X Nat
  /\ CacheLag \in BOOLEAN
  /\ MaxUid \in Nat
  /\ Budgets \subseteq [refs : SUBSET Refs, edits : Nat, faults : 0 .. MaxUid]

VARIABLES
  obj,             \* the LLMInstance on the API server
  src,             \* kubeconfig Secrets by name
  creds, cCreds,   \* the cached credentials Secret, and the cache's view of it
  uid, up,         \* the cluster at each API server: incarnation, reachability
  remote,          \* objects on the customer clusters
  managed,         \* DNSEntry and Certificate for each target identity
  w,               \* the worker: program counter and locals
  misled,          \* history: a stale cache kept the credentials unwritten
  budget           \* what is left of the bounds

clusters == <<uid, up>>
vars == <<obj, src, creds, cCreds, uid, up, remote, managed, w, misled, budget>>

TargetIds == Apis \X (0 .. MaxUid)
RemoteKinds == {"Service", "Deployment", "TLS"}
ManagedKinds == {"DNS", "Certificate"}

(* An object that is being deleted keeps the readiness it had.              *)
ObjectStates == {"absent", "pending", "ready", "aborted", "deleting"}
Endpoints == TargetIds \cup {None, Hosted}

(* observed: status is that of the current generation.                      *)
Instances == [exists : BOOLEAN, deleting : BOOLEAN, finalizer : BOOLEAN,
              valid : BOOLEAN, ref : Refs \cup {None},
              active : Refs \cup {None}, target : TargetIds \cup {None},
              endpoint : Endpoints, observed : BOOLEAN]

Steps == {"idle", "reject", "finalizer", "changed", "withdraw", "cleanTLS",
          "cleanRemote", "forget", "dropCreds", "hosted", "connect",
          "cacheCreds", "activate", "service", "certificate", "dns", "tls",
          "deployment", "readiness", "failed", "release"}

(* fresh: the handler's copy of the instance still has the stored           *)
(* resourceVersion.  final: cleanup for deletion rather than for a move.    *)
(* api, id: the cluster being cleaned or provisioned, id as it was verified.*)
Workers == [pc : Steps, ref : Refs \cup {None}, active : Refs \cup {None},
            target : TargetIds \cup {None}, api : Apis \cup {None},
            id : TargetIds \cup {None},
            fresh : BOOLEAN, final : BOOLEAN, tries : 0 .. 2]

TypeOK ==
  /\ obj \in Instances
  /\ src \in [Refs -> Apis \cup {None}]
  /\ creds \in Apis \cup {None} /\ cCreds \in Apis \cup {None}
  /\ uid \in [Apis -> 0 .. MaxUid] /\ up \in [Apis -> BOOLEAN]
  /\ remote \in [Apis -> [RemoteKinds -> ObjectStates]]
  /\ managed \in [TargetIds -> [ManagedKinds -> ObjectStates]]
  /\ w \in Workers /\ misled \in BOOLEAN
  /\ budget \in [refs : SUBSET Refs, edits : Nat, faults : 0 .. MaxUid]

Idle == [pc |-> "idle", ref |-> None, active |-> None, target |-> None,
         api |-> None, id |-> None, fresh |-> FALSE, final |-> FALSE, tries |-> 0]

(* Mutant: the identity is that of the API server alone.                    *)
IdentityByApi(a) == a

Identity(a) == <<a, uid[a]>>     \* byocClusterIdentity

At(step) == [w EXCEPT !.pc = step]
Go(step) == w' = At(step)

(* An error in cleanupChangedBYOCTarget or reconcileBYOC leads to a status  *)
(* write; everywhere else Reconcile just returns it.                        *)
Fail ==
  IF w.final \/ w.pc \in {"reject", "finalizer", "hosted", "failed"}
  THEN w' = Idle ELSE Go("failed")

(* Status().Update of the handler's copy, refused when that copy is old.    *)
Stored(endpoint) ==
  [obj EXCEPT !.active = w.active, !.target = w.target, !.endpoint = endpoint,
              !.observed = TRUE]

(* Mutant: the status is stored whatever happened to the instance since.    *)
PatchStatus(endpoint, next) ==
  /\ obj' = Stored(endpoint)
  /\ w' = next

UpdateStatus(endpoint, next) ==
  \/ /\ w.fresh
     /\ obj' = Stored(endpoint)
     /\ w' = next
  \/ /\ ~w.fresh
     /\ Fail
     /\ UNCHANGED obj

UnchangedRemote == UNCHANGED <<clusters, remote, managed>>
UnchangedSecrets == UNCHANGED <<src, creds, cCreds, misled>>

-----------------------------------------------------------------------------
(* Reconcile: read the instance and dispatch.                               *)

Reconcile ==
  /\ w.pc = "idle" /\ obj.exists
  /\ LET next == IF obj.deleting
                 THEN IF ~obj.finalizer THEN "idle"
                      ELSE IF obj.active # None THEN "cleanTLS" ELSE "release"
                 ELSE IF ~obj.valid THEN "reject"
                 ELSE IF ~obj.finalizer THEN "finalizer"
                 ELSE IF obj.active # None THEN "changed"
                 ELSE IF obj.ref # None THEN "connect" ELSE "hosted"
     IN w' = [Idle EXCEPT !.pc = next, !.ref = obj.ref, !.active = obj.active,
                          !.target = obj.target, !.fresh = TRUE,
                          !.final = obj.deleting]
  /\ UNCHANGED <<obj, budget>> /\ UnchangedRemote /\ UnchangedSecrets

(* rejectModelSettings: settings above a ceiling end the pass early.        *)
RejectModelSettings ==
  /\ w.pc = "reject"
  /\ UpdateStatus(None, Idle)
  /\ UNCHANGED budget /\ UnchangedRemote /\ UnchangedSecrets

EnsureFinalizer ==
  /\ w.pc = "finalizer"
  /\ obj' = IF w.fresh THEN [obj EXCEPT !.finalizer = TRUE] ELSE obj
  /\ w' = Idle
  /\ UNCHANGED budget /\ UnchangedRemote /\ UnchangedSecrets

(* Mutant: a failed pass leaves the status alone.                           *)
FailQuietly ==
  /\ w.pc = "failed"
  /\ w' = Idle
  /\ UNCHANGED <<obj, budget>> /\ UnchangedRemote /\ UnchangedSecrets

(* The status write that ends a failed or unfinished pass.                  *)
FailStatus ==
  /\ w.pc = "failed"
  /\ UpdateStatus(None, Idle)
  /\ UNCHANGED budget /\ UnchangedRemote /\ UnchangedSecrets

-----------------------------------------------------------------------------
(* cleanupChangedBYOCTarget and cleanupBYOC.                                *)

(* Is the recorded target still the one the instance asks for?  A missing   *)
(* source cannot authorize a move; one that reaches the API server of the   *)
(* cached credentials is asked for the identity of its cluster.             *)
CheckTarget ==
  /\ w.pc = "changed"
  /\ LET sameName == w.ref # None /\ w.ref = w.active
         sameApi == sameName /\ src[w.ref] = cCreds
     IN IF cCreds = None \/ (sameApi /\ ~up[cCreds])
        THEN Fail
        ELSE w' = [w EXCEPT !.api = cCreds, !.pc =
                     IF \/ sameName /\ src[w.ref] = None
                        \/ sameApi /\ Identity(cCreds) = w.target
                     THEN "connect" ELSE "withdraw"]
  /\ UNCHANGED <<obj, budget>> /\ UnchangedRemote /\ UnchangedSecrets

WithdrawEndpoint ==
  /\ w.pc = "withdraw"
  /\ UpdateStatus(None, At("cleanTLS"))
  /\ UNCHANGED budget /\ UnchangedRemote /\ UnchangedSecrets

(* Delete marks the object; its own controllers let go of it later.         *)
Deleted(k, o) ==
  [o EXCEPT ![k] = CASE @ = "pending" -> "aborted"
                     [] @ = "ready" -> "deleting"
                     [] OTHER -> @]

(* Mutant: cleanup does not wait for the DNSEntry.                          *)
CleanupWithoutWaiting ==
  /\ w.pc = "cleanTLS"
  /\ managed' = [managed EXCEPT ![w.target] =
                   Deleted("DNS", Deleted("Certificate", @))]
  /\ Go("cleanRemote")
  /\ UNCHANGED <<obj, clusters, remote, budget>> /\ UnchangedSecrets

(* cleanupBYOCManagedTLS: the DNSEntry is deleted and waited for, then the  *)
(* Certificate.  The Secrets of the Certificate, which the cleanup looks    *)
(* for in a cache, are not part of this module: see ByocTLS.                *)
CleanupManagedTLS ==
  /\ w.pc = "cleanTLS"
  /\ LET m == managed[w.target] IN
     \/ /\ m["DNS"] # "absent"
        /\ managed' = [managed EXCEPT ![w.target] = Deleted("DNS", m)]
        /\ Fail
     \/ /\ m["DNS"] = "absent" /\ m["Certificate"] # "absent"
        /\ managed' = [managed EXCEPT ![w.target] = Deleted("Certificate", m)]
        /\ Fail
     \/ /\ m["DNS"] = "absent" /\ m["Certificate"] = "absent"
        /\ Go("cleanRemote")
        /\ UNCHANGED managed
  /\ UNCHANGED <<obj, clusters, remote, budget>> /\ UnchangedSecrets

(* The cluster is verified, its objects deleted and waited for, then the    *)
(* delivered TLS Secret (cleanupBYOCObjects, cleanupBYOCRemoteTLS).  A move *)
(* uses the credentials read at its start, a deletion reads them here.      *)
CleanupRemote ==
  /\ w.pc = "cleanRemote"
  /\ LET a == IF w.final THEN cCreds ELSE w.api IN
     \/ /\ a # None => ~up[a] \/ Identity(a) # w.target
        /\ Fail
        /\ UNCHANGED remote
     \/ /\ a # None /\ up[a] /\ Identity(a) = w.target
        /\ LET r == remote[a] IN
           \/ /\ r["Service"] # "absent" \/ r["Deployment"] # "absent"
              /\ remote' = [remote EXCEPT ![a] =
                              Deleted("Service", Deleted("Deployment", r))]
              /\ Fail
           \/ /\ r["Service"] = "absent" /\ r["Deployment"] = "absent"
              /\ r["TLS"] # "absent"
              /\ remote' = [remote EXCEPT ![a] = Deleted("TLS", r)]
              /\ Fail
           \/ /\ \A k \in RemoteKinds : r[k] = "absent"
              /\ w' = IF w.final THEN At("dropCreds")
                      ELSE [At("forget") EXCEPT !.active = None, !.target = None]
              /\ UNCHANGED remote
  /\ UNCHANGED <<obj, clusters, managed, budget>> /\ UnchangedSecrets

(* The move stores its copy, in which the old target is cleared.            *)
ForgetTarget ==
  /\ w.pc = "forget"
  /\ UpdateStatus(None, At("dropCreds"))
  /\ UNCHANGED budget /\ UnchangedRemote /\ UnchangedSecrets

WriteCreds(a) ==
  /\ creds' = a
  /\ cCreds' = IF CacheLag THEN cCreds ELSE a
  /\ UNCHANGED <<src, misled>>

DeleteCachedCredentials ==
  /\ w.pc = "dropCreds"
  /\ IF cCreds = None THEN UnchangedSecrets ELSE WriteCreds(None)
  /\ Go(IF w.final THEN "release" ELSE
        IF w.ref # None THEN "connect" ELSE "hosted")
  /\ UNCHANGED <<obj, budget>> /\ UnchangedRemote

(* finalizeLLMInstance: three attempts to remove the finalizer, re-reading  *)
(* the instance after a conflict.  The object goes with its last finalizer. *)
ReleaseInstance ==
  /\ w.pc = "release"
  /\ \/ /\ w.fresh
        /\ obj' = [obj EXCEPT !.finalizer = FALSE, !.exists = FALSE]
        /\ w' = Idle
     \/ /\ ~w.fresh
        /\ w' = IF w.tries < 2
                THEN [w EXCEPT !.fresh = TRUE, !.tries = w.tries + 1] ELSE Idle
        /\ UNCHANGED obj
  /\ UNCHANGED budget /\ UnchangedRemote /\ UnchangedSecrets
-----------------------------------------------------------------------------
(* reconcileBYOC, and the hosted alternative.                               *)

(* Mutant: the source is not compared with the recorded target.             *)
ConnectAnywhere ==
  /\ w.pc = "connect"
  /\ LET a == src[w.ref] IN
     IF a = None THEN Go("failed")
     ELSE IF ~up[a] THEN Fail
     ELSE w' = [At("cacheCreds") EXCEPT !.api = a, !.id = Identity(a)]
  /\ UNCHANGED <<obj, budget>> /\ UnchangedRemote /\ UnchangedSecrets

Connect ==
  /\ w.pc = "connect"
  /\ LET a == src[w.ref] IN
     IF a = None THEN Go("failed")
     ELSE IF ~up[a] \/ w.target \notin {None, Identity(a)} THEN Fail
     ELSE w' = [At("cacheCreds") EXCEPT !.api = a, !.id = Identity(a)]
  /\ UNCHANGED <<obj, budget>> /\ UnchangedRemote /\ UnchangedSecrets

(* ensureCachedCredentials compares with, and writes on top of, the cached  *)
(* copy; a write based on an outdated copy is refused.  The target is then  *)
(* recorded unless it already is.                                           *)
EnsureCachedCredentials ==
  /\ w.pc = "cacheCreds"
  /\ IF cCreds # w.api /\ cCreds # creds
     THEN Fail /\ UnchangedSecrets
     ELSE /\ IF cCreds # w.api THEN WriteCreds(w.api)
             ELSE /\ misled' = (misled \/ creds # w.api)
                  /\ UNCHANGED <<src, creds, cCreds>>
          /\ w' = IF w.active # w.ref \/ w.target = None
                  THEN [At("activate") EXCEPT !.active = w.ref, !.target = w.id]
                  ELSE At("service")
  /\ UNCHANGED <<obj, budget>> /\ UnchangedRemote

(* Mutant: the target is recorded in memory only.                           *)
ActivateInMemory ==
  /\ w.pc = "activate"
  /\ Go("service")
  /\ UNCHANGED <<obj, budget>> /\ UnchangedRemote /\ UnchangedSecrets

Activate ==
  /\ w.pc = "activate"
  /\ UpdateStatus(None, At("service"))
  /\ UNCHANGED budget /\ UnchangedRemote /\ UnchangedSecrets

Deleting(s) == s \in {"aborted", "deleting"}
IsReady(s) == s \in {"ready", "deleting"}   \* deletion marks are not looked at

Created(k, o, s) == IF o[k] = "absent" THEN [o EXCEPT ![k] = s] ELSE o

(* A call of reconcileBYOCWorkload that creates object k on the cluster.    *)
CreateRemote(k, s, next) ==
  /\ remote' = [remote EXCEPT ![w.api] = Created(k, remote[w.api], s)]
  /\ Go(next)
  /\ UNCHANGED <<obj, clusters, managed, budget>> /\ UnchangedSecrets

(* One that creates object k for the target in the operator's cluster.      *)
CreateManaged(k, next) ==
  /\ managed' = [managed EXCEPT ![w.id] = Created(k, managed[w.id], "pending")]
  /\ Go(next)
  /\ UNCHANGED <<obj, clusters, remote, budget>> /\ UnchangedSecrets

GiveUp ==
  /\ Fail
  /\ UNCHANGED <<obj, budget>> /\ UnchangedRemote /\ UnchangedSecrets

ReconcileService ==
  /\ w.pc = "service"
  /\ IF up[w.api] THEN CreateRemote("Service", "pending", "certificate")
     ELSE GiveUp

ReconcileCertificate ==
  /\ w.pc = "certificate"
  /\ IF ~Deleting(managed[w.id]["Certificate"])
     THEN CreateManaged("Certificate", "dns") ELSE GiveUp

(* The DNSEntry needs the address of the LoadBalancer Service.              *)
ReconcileDNS ==
  /\ w.pc = "dns"
  /\ IF /\ up[w.api] /\ IsReady(remote[w.api]["Service"])
        /\ ~Deleting(managed[w.id]["DNS"])
     THEN CreateManaged("DNS", "tls") ELSE GiveUp

(* Only issued material is delivered.                                       *)
ReconcileTLSSecret ==
  /\ w.pc = "tls"
  /\ IF /\ managed[w.id]["Certificate"] = "ready"
        /\ up[w.api] /\ ~Deleting(remote[w.api]["TLS"])
     THEN CreateRemote("TLS", "ready", "deployment") ELSE GiveUp

ReconcileDeployment ==
  /\ w.pc = "deployment"
  /\ IF up[w.api] THEN CreateRemote("Deployment", "pending", "readiness")
     ELSE GiveUp

(* evaluateBYOCReadiness: the rollout, the address, and a probe through the *)
(* published hostname.                                                      *)
EvaluateReadiness ==
  /\ w.pc = "readiness"
  /\ IF /\ up[w.api] /\ managed[w.id]["DNS"] = "ready"
        /\ \A k \in RemoteKinds : IsReady(remote[w.api][k])
     THEN UpdateStatus(w.id, Idle) ELSE Fail /\ UNCHANGED obj
  /\ UNCHANGED budget /\ UnchangedRemote /\ UnchangedSecrets

ReconcileHosted ==
  /\ w.pc = "hosted"
  /\ UpdateStatus(Hosted, Idle)
  /\ UNCHANGED budget /\ UnchangedRemote /\ UnchangedSecrets

Controller ==
  \/ Reconcile \/ RejectModelSettings \/ EnsureFinalizer \/ FailStatus
  \/ CheckTarget \/ WithdrawEndpoint \/ CleanupManagedTLS \/ CleanupRemote
  \/ ForgetTarget \/ DeleteCachedCredentials \/ ReleaseInstance
  \/ Connect \/ EnsureCachedCredentials \/ Activate
  \/ ReconcileService \/ ReconcileCertificate \/ ReconcileDNS
  \/ ReconcileTLSSecret \/ ReconcileDeployment \/ EvaluateReadiness
  \/ ReconcileHosted
-----------------------------------------------------------------------------
(* The environment: cache, other controllers, user, failures.               *)

SyncCreds ==
  /\ cCreds # creds
  /\ cCreds' = creds
  /\ UNCHANGED <<obj, src, creds, w, misled, budget>> /\ UnchangedRemote

(* Objects are finished or removed by the controllers responsible for them. *)
Progress(s) ==
  CASE s = "pending" -> "ready" [] Deleting(s) -> "absent" [] OTHER -> s

RemoteProgress(a, k) ==
  /\ remote[a][k] \notin {"absent", "ready"}
  /\ remote' = [remote EXCEPT ![a][k] = Progress(@)]
  /\ UNCHANGED <<obj, clusters, managed, w, budget>> /\ UnchangedSecrets

ManagedProgress(t, k) ==
  /\ managed[t][k] \notin {"absent", "ready"}
  /\ managed' = [managed EXCEPT ![t][k] = Progress(@)]
  /\ UNCHANGED <<obj, clusters, remote, w, budget>> /\ UnchangedSecrets

(* The credentials Secret is owned by the instance and collected after it.  *)
CollectCreds ==
  /\ ~obj.exists /\ creds # None
  /\ WriteCreds(None)
  /\ UNCHANGED <<obj, w, budget>> /\ UnchangedRemote

SpendEdit ==
  /\ budget.edits > 0
  /\ budget' = [budget EXCEPT !.edits = @ - 1]

SpendFault ==
  /\ budget.faults > 0
  /\ budget' = [budget EXCEPT !.faults = @ - 1]

(* Any write to the instance by someone else outdates the handler's copy.   *)
EditInstance(o) ==
  /\ obj.exists
  /\ obj' = o
  /\ w' = [w EXCEPT !.fresh = FALSE]
  /\ UnchangedRemote /\ UnchangedSecrets

SetClusterRef(r) ==
  /\ r # obj.ref /\ SpendEdit
  /\ EditInstance([obj EXCEPT !.ref = r, !.observed = FALSE])

SetModelSettings ==
  /\ SpendEdit
  /\ EditInstance([obj EXCEPT !.valid = ~@, !.observed = FALSE])

DeleteInstance ==
  /\ ~obj.deleting
  /\ EditInstance([obj EXCEPT !.deleting = TRUE, !.exists = obj.finalizer,
                              !.observed = FALSE])
  /\ UNCHANGED budget

SetKubeconfig(r, a) ==
  /\ a # src[r] /\ SpendEdit
  /\ src' = [src EXCEPT ![r] = a]
  /\ UNCHANGED <<obj, creds, cCreds, w, misled>> /\ UnchangedRemote

User ==
  \/ \E r \in budget.refs \cup {None} : SetClusterRef(r)
  \/ SetModelSettings \/ DeleteInstance
  \/ \E r \in budget.refs, a \in Apis \cup {None} : SetKubeconfig(r, a)

Restart ==
  /\ w.pc # "idle" /\ SpendFault
  /\ w' = Idle
  /\ UNCHANGED obj /\ UnchangedRemote /\ UnchangedSecrets

CallFails ==
  /\ w.pc # "idle" /\ SpendFault
  /\ Fail
  /\ UNCHANGED obj /\ UnchangedRemote /\ UnchangedSecrets

ClusterDown(a) ==
  /\ up[a] /\ SpendFault
  /\ up' = [up EXCEPT ![a] = FALSE]
  /\ UNCHANGED <<obj, uid, remote, managed, w>> /\ UnchangedSecrets

ClusterUp(a) ==
  /\ ~up[a]
  /\ up' = [up EXCEPT ![a] = TRUE]
  /\ UNCHANGED <<obj, uid, remote, managed, w, budget>> /\ UnchangedSecrets

(* Another cluster takes over the API server: the objects are gone with the *)
(* old one.                                                                 *)
ReplaceCluster(a) ==
  /\ SpendFault
  /\ uid' = [uid EXCEPT ![a] = @ + 1]
  /\ remote' = [remote EXCEPT ![a] = [k \in RemoteKinds |-> "absent"]]
  /\ UNCHANGED <<obj, up, managed, w>> /\ UnchangedSecrets

Failures ==
  \/ Restart \/ CallFails
  \/ \E a \in Apis : ClusterDown(a) \/ ReplaceCluster(a)

Others ==
  \/ SyncCreds \/ CollectCreds
  \/ \E a \in Apis : ClusterUp(a) \/ \E k \in RemoteKinds : RemoteProgress(a, k)
  \/ \E t \in TargetIds, k \in ManagedKinds : ManagedProgress(t, k)

(* A new instance, whatever Secrets there are.                              *)
Init ==
  /\ budget \in Budgets
  /\ \E r \in budget.refs \cup {None} :
       obj = [exists |-> TRUE, deleting |-> FALSE, finalizer |-> FALSE,
              valid |-> TRUE, ref |-> r, active |-> None, target |-> None,
              endpoint |-> None, observed |-> FALSE]
  /\ src \in [Refs -> Apis \cup {None}]
  /\ \A r \in Refs \ budget.refs : src[r] = None
  /\ creds = None /\ cCreds = None
  /\ uid = [a \in Apis |-> 0] /\ up = [a \in Apis |-> TRUE]
  /\ remote = [a \in Apis |-> [k \in RemoteKinds |-> "absent"]]
  /\ managed = [t \in TargetIds |-> [k \in ManagedKinds |-> "absent"]]
  /\ w = Idle /\ misled = FALSE

Next == Controller \/ Others \/ User \/ Failures

Spec == Init /\ [][Next]_vars

(* The work queue runs a pass again after every error, every requeue and    *)
(* every event on the instance; the cache catches up; an outage ends; the   *)
(* other controllers do their work.  Nothing obliges the user to act.       *)
Fairness ==
  /\ WF_vars(Controller)
  /\ WF_vars(SyncCreds) /\ WF_vars(CollectCreds)
  /\ \A a \in Apis : WF_vars(ClusterUp(a))
  /\ \A a \in Apis, k \in RemoteKinds : WF_vars(RemoteProgress(a, k))
  /\ \A t \in TargetIds, k \in ManagedKinds : WF_vars(ManagedProgress(t, k))

FairSpec == Spec /\ Fairness

-----------------------------------------------------------------------------
(* Properties.                                                              *)

Alive(s) == s \in {"pending", "ready"}
RemoteLeft(a) == \E k \in RemoteKinds : remote[a][k] # "absent"
ManagedLeft(t) == \E k \in ManagedKinds : managed[t][k] # "absent"

(* Nothing is ever left behind: as long as any object of the instance       *)
(* exists, on a customer cluster or requested for one in the operator's     *)
(* cluster, the instance exists, holds its finalizer and records that       *)
(* target in its status, so that the cleanup of a later pass finds it.      *)
(* Crashes, moves and deletion at any point of reconcileBYOC,               *)
(* cleanupChangedBYOCTarget and finalizeLLMInstance must preserve this.     *)
ObjectsAreRecorded ==
  /\ \A t \in TargetIds : ManagedLeft(t) =>
       obj.exists /\ obj.finalizer /\ obj.active # None /\ obj.target = t
  /\ \A a \in Apis : RemoteLeft(a) =>
       /\ obj.exists /\ obj.finalizer /\ obj.active # None
       /\ obj.target[1] = a

(* "Waiting for the DNSEntry finalizer prevents publishing a dangling       *)
(* address": while a target's DNSEntry is there, the LoadBalancer Service   *)
(* on that cluster is neither gone nor being deleted.                       *)
PublishedAddressHeld ==
  \A a \in Apis :
    Alive(managed[Identity(a)]["DNS"]) => Alive(remote[a]["Service"])

(* Cleanup, for a move or for a deletion, takes nothing down on the         *)
(* customer's cluster before the endpoint is withdrawn from a live instance *)
(* and the DNSEntry and Certificate of the target are gone for good         *)
(* (updateProvisioningStatus and cleanupBYOCManagedTLS come first).         *)
TakeDown(a, k) ==
  Alive(remote[a][k]) /\ Deleting(remote'[a][k])

TeardownInOrder ==
  [][\A a \in Apis, k \in RemoteKinds : TakeDown(a, k) =>
        /\ obj.deleting \/ obj.endpoint = None
        /\ obj.target = Identity(a) /\ ~ManagedLeft(Identity(a))]_vars

(* "Keep cleanup credentials until owned remote resources are confirmed     *)
(* absent": while the customer cluster holds objects of the instance, the   *)
(* protected copy of its kubeconfig is there and still reaches it, unless a *)
(* stale cache has misled ensureCachedCredentials to write none (see        *)
(* RecordedWithCredentials).                                                *)
CredentialsKept ==
  \A a \in Apis : RemoteLeft(a) => creds = a \/ misled

(* A target is not recorded without cleanup credentials: the copy persists  *)
(* before status makes cleanup depend on it (ensureCachedCredentials before *)
(* the status write of reconcileBYOC), and is dropped after status lets go  *)
(* of it.  Deletion drops it last, so only live instances are covered.      *)
RecordedWithCredentials ==
  obj.exists /\ ~obj.deleting /\ obj.active # None => creds = obj.target[1]

(* What the controller can bring about for good.  Blocked is where the code *)
(* refuses to go on by design: the cluster was replaced under the record.   *)
Blocked == obj.active # None /\ Identity(obj.target[1]) # obj.target
(* The credentials were dropped and the finalizer was not, or a stale cache *)
(* misled the controller to leave those of another cluster or none: every   *)
(* later pass stops where it needs them.                                    *)
Stranded ==
  (obj.deleting \/ misled) /\ obj.active # None /\ creds # obj.target[1]

Desired == IF obj.ref = None THEN None ELSE src[obj.ref]

Settled ==
  \/ ~obj.exists /\ creds = None
  \/ obj.exists /\ obj.deleting /\ (Blocked \/ Stranded)
  \/ /\ obj.exists /\ ~obj.deleting /\ (Blocked \/ Stranded \/ ~obj.valid)
     /\ obj.endpoint = None
  \/ /\ obj.exists /\ ~obj.deleting /\ obj.valid /\ ~Blocked
     /\ obj.endpoint = IF obj.ref = None THEN Hosted
                       ELSE IF Desired = None THEN None ELSE Identity(Desired)
     /\ \A a \in Apis : RemoteLeft(a) => obj.active = obj.ref /\ obj.ref # None
     /\ \A a \in Apis : RemoteLeft(a) /\ Desired # None => a = Desired

(* Once user and failures rest, the controller reaches the endpoint that    *)
(* the instance asks for, or none when it cannot have one, clears every     *)
(* other cluster, or completes the deletion; and it stays there.            *)
Converges == <>[]Settled

(* finalizeLLMInstance keeps a "small retry window to avoid blocking        *)
(* deletion": a deleted instance whose cluster is still there goes away.    *)
DeletionCompletes ==
  (obj.deleting /\ obj.exists) ~> (~obj.exists \/ Blocked)

(* The token controller and the auth server see no more of this than the    *)
(* steps of InstanceView: a target is recorded and given up only while no   *)
(* endpoint is published, an endpoint is published only for the recorded    *)
(* target or the hosted service, and deletion freezes what is recorded.     *)
View ==
  INSTANCE InstanceView WITH
    Targets <- TargetIds,
    exists <- obj.exists,
    deleting <- obj.exists /\ obj.deleting,
    byoc <- obj.exists /\ obj.ref # None,
    active <- obj.exists /\ obj.active # None,
    target <- IF obj.exists THEN obj.target ELSE None,
    ready <- obj.exists /\ obj.endpoint # None /\ obj.observed

ImplementsView == View!Spec
=============================================================================
