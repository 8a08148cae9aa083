----------------------------- MODULE HostedRoute -----------------------------
(***************************************************************************)
(* The LLMInstance controller for hosted instances: the slug an instance   *)
(* gets and keeps, the workload and the route it is given, and how the     *)
(* route is withdrawn when it is no longer safe.                           *)
(*                                                                         *)
(* obj holds the LLMInstances, live the objects named after each of them,  *)
(* cache the informer cache through which Deployments, Services and        *)
(* Ingresses are read; instances, Middlewares and the Ingresses of the     *)
(* conflict test are read from the API server.  other is an Ingress under  *)
(* a name of its own.  policy is the slug policy of the running process.   *)
(* w is the controller's one worker: the step it is at and its copy o of   *)
(* the instance, fresh as long as nobody else has written the instance.    *)
(*                                                                         *)
(* A handler is split where it calls the API server.  A read from the API  *)
(* server is joined with the write based on it: a change in between makes  *)
(* the write fail, which CallFails stands for.  Copies carry no versions:  *)
(* a cached copy equal to the stored object counts as up to date.  The     *)
(* customer's cluster and the model ceilings are other modules' business.  *)
(***************************************************************************)
EXTENDS Slugs

CONSTANTS Names,         \* instance names
          Foreign,       \* owner of objects that no instance controls
          Remote,        \* an endpoint on a customer cluster
          Policies,      \* the policies the process may be started with
          OtherRoutes,   \* Ingresses that others may create
          MaxUid,        \* bound on the instances of a name
          Budgets        \* bounds on the names in use, the edits, the failures

Uids == Names \X (1 .. MaxUid)

PolicySlugs ==
  UNION {{p.entries[u].slug : u \in DOMAIN p.entries} : p \in Policies}
Slugs == PolicySlugs \cup {Derived(u).slug : u \in Uids}

ASSUME RouteAssumption ==
  /\ Names # {} /\ MaxUid \in Nat \ {0}
  /\ \A p \in Policies :
       /\ WellFormed(p) /\ p.cutover \in Nat
       /\ \A u \in DOMAIN p.entries : p.entries[u].slug \in Seq(STRING)
  /\ \A p, q \in Policies : \A u \in DOMAIN p.entries \cap DOMAIN q.entries :
       LET e == p.entries[u]   \* a slug is reviewed once
           f == q.entries[u]
       IN e.mode = "legacy" /\ f.mode = "legacy" => e.slug = f.slug
  /\ Budgets \subseteq [names : SUBSET Names, edits : Nat, faults : Nat]
  /\ Foreign \notin Uids \cup {None} /\ None \notin Uids
  /\ None \notin {"legacy", "derived"}
  /\ None \notin Slugs /\ Remote \notin Slugs \cup {None}

VARIABLES policy, obj, live, cache, other, w, budget

vars == <<policy, obj, live, cache, other, w, budget>>

Backend == {"Deployment", "Service"}
Cached == Backend \cup {"Ingress"}
Kinds == Cached \cup {"Strip", "Auth"}

Absent == [owner |-> None, data |-> None]
Owned(uid, data) == [owner |-> uid, data |-> data]

(* data is what the controller sets: the model of a Deployment and whether  *)
(* that is rolled out, the slug in the path of an Ingress or a strip        *)
(* Middleware, the instance and slug an auth Middleware vouches for.        *)
DataOf(k) ==
  CASE k = "Deployment" -> Nat \X BOOLEAN
    [] k = "Service" -> {None}
    [] k = "Auth" -> (Uids \cup {None}) \X Slugs
    [] OTHER -> Slugs

(* An object under the name of an instance's that somebody else made; such  *)
(* an Ingress leads elsewhere.                                              *)
ForeignObject(k) ==
  Owned(Foreign, CASE k = "Deployment" -> <<0, TRUE>>
                   [] k = "Ingress" -> <<"f">>
                   [] OTHER -> None)

ObjectsOf(k) ==
  {Absent, ForeignObject(k)} \cup [owner : Uids, data : DataOf(k)]

Instances ==
  [exists : BOOLEAN, uid : Names \X (0 .. MaxUid), name : Names, created : 1 .. 2,
   deleting : BOOLEAN, finalizer : BOOLEAN, byoc : BOOLEAN, valid : BOOLEAN,
   model : Nat, slug : Slugs \cup {None},
   source : {"legacy", "derived", None}, active : BOOLEAN,
   activeSlug : Slugs \cup {None},
   endpoint : Slugs \cup {None, Remote}, ready : BOOLEAN]

Steps == {"idle", "reject", "rejectStatus", "upgradeAuth", "settings",
          "finalizer", "persist", "readback", "check", "cleanup", "byoc",
          "Deployment", "Service", "Strip", "Auth", "recheck", "Ingress",
          "readiness", "release"}

Gone(n, k) ==
  [exists |-> FALSE, uid |-> <<n, k>>, name |-> n, created |-> 2,
   deleting |-> FALSE, finalizer |-> FALSE, byoc |-> FALSE, valid |-> TRUE,
   model |-> 0, slug |-> None, source |-> None, active |-> FALSE,
   activeSlug |-> None, endpoint |-> None, ready |-> FALSE]

AnyName == CHOOSE n \in Names : TRUE
Idle == [pc |-> "idle", o |-> Gone(AnyName, 0), fresh |-> FALSE]

TypeOK ==
  /\ policy \in Policies
  /\ obj \in [Names -> Instances]
  /\ \A n \in Names : /\ obj[n].name = n /\ obj[n].uid[1] = n
                      /\ (obj[n].slug = None) = (obj[n].source = None)
  /\ \A n \in Names, k \in Kinds : live[n][k] \in ObjectsOf(k)
  /\ \A n \in Names, k \in Cached : cache[n][k] \in ObjectsOf(k)
  /\ other \in OtherRoutes \cup {None}
  /\ w \in [pc : Steps, o : Instances, fresh : BOOLEAN]
  /\ budget \in [names : SUBSET Names, edits : Nat, faults : Nat]

Me == w.o.uid
Here == w.o.name
Go(step) == w' = [w EXCEPT !.pc = step]

UnchangedRoute == UNCHANGED <<live, cache, other>>

-----------------------------------------------------------------------------
(* Slug selection.                                                          *)

(* Mutant: what was selected before is not compared.                        *)
SelectAnew(o) ==
  LET s == Select(policy, o)
  IN IF s.source = "derived" /\ o.slug = None
          /\ (o.endpoint # None \/ o.activeSlug # None \/ o.active)
     THEN Refused ELSE s

(* selectSlug.  A provisioned instance keeps the slug it has.               *)
SelectSlug(o) ==
  LET s == Select(policy, o)
  IN IF \/ s.source = "derived" /\ o.slug = None
             /\ (o.endpoint # None \/ o.activeSlug # None \/ o.active)
        \/ o.activeSlug \notin {None, s.slug}
        \/ o.slug \notin {None, s.slug}
     THEN Refused ELSE s

Chosen == SelectSlug(w.o).slug

(* From the test of the settings to the first step on the route.            *)
Gate(o) ==
  LET s == SelectSlug(o)
  IN IF ~o.valid THEN "settings"
     ELSE IF ~o.finalizer THEN "finalizer"
     ELSE IF o.slug # s.slug \/ o.source # s.source THEN "persist"
     ELSE IF o.byoc THEN "byoc" ELSE "check"

Reconcile(n) ==
  /\ w.pc = "idle" /\ obj[n].exists
  /\ LET o == obj[n]
         next == IF o.deleting THEN "release"
                 ELSE IF SelectSlug(o) = Refused THEN "reject"
                 ELSE IF o.byoc THEN Gate(o) ELSE "upgradeAuth"
     IN w' = [pc |-> next, o |-> o, fresh |-> TRUE]
  /\ UNCHANGED <<policy, obj, budget>> /\ UnchangedRoute

(* Status().Update of the handler's copy, refused when that copy is old.    *)
(* An error that is no rejection ends the pass and leaves the route alone.  *)
Stored(o) == [obj EXCEPT ![o.name] = o]

UpdateStatus(o, next) ==
  /\ \/ /\ w.fresh
        /\ obj' = Stored(o)
        /\ w' = IF next = "idle" THEN Idle ELSE [w EXCEPT !.o = o, !.pc = next]
     \/ ~w.fresh /\ w' = Idle /\ UNCHANGED obj
  /\ UNCHANGED <<policy, budget>> /\ UnchangedRoute

RejectModelSettings ==
  /\ w.pc = "settings"
  /\ UpdateStatus([w.o EXCEPT !.endpoint = None, !.ready = FALSE], "idle")

EnsureFinalizer ==
  /\ w.pc = "finalizer"
  /\ UpdateStatus([w.o EXCEPT !.finalizer = TRUE], "idle")

(* Mutant: the source of the slug is not recorded.                          *)
EnsureSlugOnly ==
  /\ w.pc = "persist"
  /\ UpdateStatus([w.o EXCEPT !.slug = SelectSlug(w.o).slug], "readback")

(* ensureSlug: the selection is stored, then read back from the API server. *)
EnsureSlug ==
  /\ w.pc = "persist"
  /\ LET s == SelectSlug(w.o)
     IN UpdateStatus([w.o EXCEPT !.slug = s.slug, !.source = s.source], "readback")

ReadBack ==
  /\ w.pc = "readback"
  /\ IF obj[Here].exists /\ obj[Here].uid # Me THEN Go("reject") ELSE w' = Idle
  /\ UNCHANGED <<policy, obj, budget>> /\ UnchangedRoute

-----------------------------------------------------------------------------
(* Rejection.                                                               *)

Owns(o, x) == x.owner = o.uid     \* ownsLLMResource

(* Mutant: the named Ingress is deleted whoever owns it.                    *)
RejectAnyRoute ==
  /\ w.pc = "reject"
  /\ live' = [live EXCEPT ![Here]["Ingress"] = Absent]
  /\ Go("rejectStatus")
  /\ UNCHANGED <<policy, obj, cache, other, budget>>

(* Mutant: the route stays.                                                 *)
RejectKeepingRoute ==
  /\ w.pc = "reject"
  /\ Go("rejectStatus")
  /\ UNCHANGED <<policy, obj, live, cache, other, budget>>

(* rejectSlug: the own route is deleted, then the endpoint withdrawn.       *)
RejectSlug ==
  /\ w.pc = "reject"
  /\ live' = IF Owns(w.o, live[Here]["Ingress"])
             THEN [live EXCEPT ![Here]["Ingress"] = Absent] ELSE live
  /\ Go("rejectStatus")
  /\ UNCHANGED <<policy, obj, cache, other, budget>>

RejectStatus ==
  /\ w.pc = "rejectStatus"
  /\ UpdateStatus([w.o EXCEPT !.endpoint = None, !.ready = FALSE], "idle")

Reject ==
  /\ Go("reject")
  /\ UNCHANGED <<policy, obj, budget>> /\ UnchangedRoute

GiveUp ==
  /\ w' = Idle
  /\ UNCHANGED <<policy, obj, budget>> /\ UnchangedRoute

Proceed(next) ==
  /\ Go(next)
  /\ UNCHANGED <<policy, obj, budget>> /\ UnchangedRoute
-----------------------------------------------------------------------------
(* The conflict test.                                                       *)

(* hostClaimsSlugHost: no host, the public one, or a wildcard over it.      *)
ClaimsHost(host) == host \in {"", "public", "wildcard"}

OtherConflicts(r, s) ==
  r # None /\ (r.default \/ (ClaimsHost(r.host) /\ Overlap(r.path, s)))

IngressConflicts(o, x, s) ==
  x.owner \notin {None, o.uid} /\ Overlap(x.data, s)

(* Mutants: only the same path conflicts; the owner is not looked at.       *)
SamePathOnly(o, s) ==
  /\ live[o.name]["Ingress"].owner \in {None, o.uid}
  /\ \A n \in Names :
       live[n]["Ingress"].owner # o.uid => live[n]["Ingress"].data # s
  /\ ~OtherConflicts(other, s)

AnyNamedRoute(o, s) ==
  /\ \A n \in Names : ~IngressConflicts(o, live[n]["Ingress"], s)
  /\ ~OtherConflicts(other, s)

RouteFree(o, s) ==
  /\ live[o.name]["Ingress"].owner \in {None, o.uid}
  /\ \A n \in Names : ~IngressConflicts(o, live[n]["Ingress"], s)
  /\ ~OtherConflicts(other, s)

(* checkSlugRoute, before the workload and again before the Ingress.        *)
CheckSlugRoute ==
  /\ w.pc \in {"check", "recheck"}
  /\ IF ~RouteFree(w.o, Chosen) THEN Reject
     ELSE Proceed(IF w.pc = "recheck" THEN "Ingress"
                  ELSE IF w.o.active THEN "cleanup" ELSE "Deployment")

(* cleanupChangedBYOCTarget of an instance that is hosted again.            *)
CleanupTarget ==
  /\ w.pc = "cleanup"
  /\ UpdateStatus([w.o EXCEPT !.active = FALSE, !.endpoint = None, !.ready = FALSE],
                  "Deployment")

(* reconcileBYOC, which leaves the hosted objects alone.                    *)
ReconcileBYOC ==
  /\ w.pc = "byoc"
  /\ UpdateStatus([w.o EXCEPT !.active = TRUE, !.activeSlug = w.o.slug,
                              !.endpoint = Remote, !.ready = TRUE], "idle")
-----------------------------------------------------------------------------
(* The workload and the route.                                              *)

Store(k, desired, next) ==
  /\ live' = [live EXCEPT ![Here][k] = Owned(Me, desired)]
  /\ Go(next)
  /\ UNCHANGED <<policy, obj, cache, other, budget>>

(* A cached object is created when it is not there, refused when somebody   *)
(* else controls it, and otherwise updated when it is not as desired; a     *)
(* stale cache makes Create or Update fail.                                 *)
ReconcileCached(k, asDesired, desired, next) ==
  /\ w.pc = k
  /\ LET c == cache[Here][k] IN
     \/ /\ c # Absent /\ ~Owns(w.o, c)
        /\ Reject
     \/ /\ Owns(w.o, c) /\ asDesired
        /\ Proceed(next)
     \/ /\ c.owner \in {None, Me} /\ ~(Owns(w.o, c) /\ asDesired)
        /\ c = live[Here][k]
        /\ Store(k, desired, next)
     \/ /\ c.owner \in {None, Me} /\ ~(Owns(w.o, c) /\ asDesired)
        /\ c # live[Here][k]
        /\ GiveUp

(* buildDeployment: a new template has yet to be rolled out.  ensureDeploy- *)
(* mentModel and its like find nothing to change in one as desired.         *)
DesiredDeployment == <<w.o.model, FALSE>>
DeploymentAsDesired == cache[Here]["Deployment"].data[1] = w.o.model

ReconcileDeployment ==
  ReconcileCached("Deployment", DeploymentAsDesired, DesiredDeployment, "Service")

ReconcileService == ReconcileCached("Service", TRUE, None, "Strip")

(* Annotations, class, rules and TLS section follow from the slug.          *)
IngressAsDesired == cache[Here]["Ingress"].data = Chosen

ReconcileIngress ==
  ReconcileCached("Ingress", IngressAsDesired, Chosen, "readiness")

(* Middlewares are read from the API server.                                *)
ReconcileMiddleware(k, desired, create, next) ==
  LET x == live[Here][k] IN
  \/ /\ x # Absent /\ ~Owns(w.o, x)
     /\ Reject
  \/ /\ x \in {Owned(Me, desired)} \cup (IF create THEN {} ELSE {Absent})
     /\ Proceed(next)
  \/ /\ x.owner \in {Me} \cup (IF create THEN {None} ELSE {})
     /\ x.data # desired
     /\ Store(k, desired, next)

UpgradeExistingAuthMiddleware ==
  /\ w.pc = "upgradeAuth"
  /\ ReconcileMiddleware("Auth", <<Me, Chosen>>, FALSE, Gate(w.o))

ReconcileStripMiddleware ==
  /\ w.pc = "Strip"
  /\ ReconcileMiddleware("Strip", Chosen, TRUE, "Auth")

ReconcileForwardAuthMiddleware ==
  /\ w.pc = "Auth"
  /\ ReconcileMiddleware("Auth", <<Me, Chosen>>, TRUE, "recheck")

(* evaluateInstanceReadiness: replicas, endpoints and the probe follow the  *)
(* rollout.                                                                 *)
RolledOut(c) == c # Absent /\ c.data[2]

(* The status that ends the pass.                                           *)
EvaluateReadiness ==
  /\ w.pc = "readiness"
  /\ LET ready == RolledOut(cache[Here]["Deployment"])
     IN UpdateStatus([w.o EXCEPT !.endpoint = Chosen, !.ready = ready], "idle")

(* finalizeLLMInstance: the finalizer is removed, after a conflict from the *)
(* instance as read again; the garbage collector does the rest.             *)
ReleaseInstance ==
  /\ w.pc = "release"
  /\ obj' = [obj EXCEPT ![Here] =
               IF @.exists /\ @.deleting THEN Gone(Here, @.uid[2])
               ELSE [@ EXCEPT !.finalizer = FALSE]]
  /\ w' = Idle
  /\ UNCHANGED <<policy, budget>> /\ UnchangedRoute

Controller ==
  \/ \E n \in Names : Reconcile(n)
  \/ RejectModelSettings \/ EnsureFinalizer \/ EnsureSlug \/ ReadBack
  \/ RejectSlug \/ RejectStatus \/ CheckSlugRoute \/ CleanupTarget \/ ReconcileBYOC
  \/ ReconcileDeployment \/ ReconcileService \/ ReconcileStripMiddleware
  \/ ReconcileForwardAuthMiddleware \/ ReconcileIngress
  \/ UpgradeExistingAuthMiddleware \/ EvaluateReadiness \/ ReleaseInstance
-----------------------------------------------------------------------------
(* The environment: caches, other controllers, users, failures.             *)

SyncCache(n, k) ==
  /\ cache[n][k] # live[n][k]
  /\ cache' = [cache EXCEPT ![n][k] = live[n][k]]
  /\ UNCHANGED <<policy, obj, live, other, w, budget>>

(* The garbage collector removes what belongs to an instance that is gone.  *)
Collect(n, k) ==
  /\ live[n][k].owner \notin {None, Foreign}
  /\ ~(obj[n].exists /\ obj[n].uid = live[n][k].owner)
  /\ live' = [live EXCEPT ![n][k] = Absent]
  /\ UNCHANGED <<policy, obj, cache, other, w, budget>>

RollOut(n) ==
  /\ live[n]["Deployment"] # Absent /\ ~live[n]["Deployment"].data[2]
  /\ live' = [live EXCEPT ![n]["Deployment"].data = <<@[1], TRUE>>]
  /\ UNCHANGED <<policy, obj, cache, other, w, budget>>

SpendEdit ==
  /\ budget.edits > 0
  /\ budget' = [budget EXCEPT !.edits = @ - 1]

SpendFault ==
  /\ budget.faults > 0
  /\ budget' = [budget EXCEPT !.faults = @ - 1]

(* Any write to the instance by someone else outdates the handler's copy.   *)
EditInstance(n, o) ==
  /\ obj' = [obj EXCEPT ![n] = o]
  /\ w' = [w EXCEPT !.fresh = w.fresh /\ n # Here]
  /\ UNCHANGED policy /\ UnchangedRoute

CreateInstance(n) ==
  /\ ~obj[n].exists /\ obj[n].uid[2] < MaxUid /\ SpendEdit
  /\ EditInstance(n, [Gone(n, obj[n].uid[2] + 1) EXCEPT !.exists = TRUE])

DeleteInstance(n) ==
  /\ obj[n].exists /\ ~obj[n].deleting /\ SpendEdit
  /\ EditInstance(n, IF obj[n].finalizer THEN [obj[n] EXCEPT !.deleting = TRUE]
                     ELSE Gone(n, obj[n].uid[2]))

SetModel(n) ==
  /\ obj[n].exists /\ SpendEdit
  /\ EditInstance(n, [obj[n] EXCEPT !.model = @ + 1])

SetModelSettings(n) ==
  /\ obj[n].exists /\ SpendEdit
  /\ EditInstance(n, [obj[n] EXCEPT !.valid = ~@])

SetClusterRef(n) ==
  /\ obj[n].exists /\ SpendEdit
  /\ EditInstance(n, [obj[n] EXCEPT !.byoc = ~@])

(* An Ingress elsewhere comes and goes, and so do objects under our names.  *)
SetOther(r) ==
  /\ other # r /\ SpendEdit
  /\ other' = r
  /\ UNCHANGED <<policy, obj, live, cache, w>>

TakeName(n, k) ==
  /\ live[n][k] = Absent /\ SpendEdit
  /\ live' = [live EXCEPT ![n][k] = ForeignObject(k)]
  /\ UNCHANGED <<policy, obj, cache, other, w>>

LeaveName(n, k) ==
  /\ live[n][k] = ForeignObject(k) /\ SpendEdit
  /\ live' = [live EXCEPT ![n][k] = Absent]
  /\ UNCHANGED <<policy, obj, cache, other, w>>

User ==
  \/ \E n \in budget.names :
       \/ CreateInstance(n) \/ DeleteInstance(n) \/ SetModel(n)
       \/ SetModelSettings(n) \/ SetClusterRef(n)
       \/ \E k \in Kinds : TakeName(n, k) \/ LeaveName(n, k)
  \/ \E r \in OtherRoutes \cup {None} : SetOther(r)

(* The process is replaced by one with the same or another policy; its      *)
(* caches are filled anew.                                                  *)
Restart(p) ==
  /\ SpendFault
  /\ policy' = p /\ w' = Idle
  /\ cache' = [n \in Names |-> [k \in Cached |-> live[n][k]]]
  /\ UNCHANGED <<obj, live, other>>

(* A failed call is no rejection; the rejected status is written even when  *)
(* the deletion of the route has failed.                                    *)
CallFails ==
  /\ w.pc # "idle" /\ SpendFault
  /\ w' = IF w.pc = "reject" THEN [w EXCEPT !.pc = "rejectStatus"] ELSE Idle
  /\ UNCHANGED <<policy, obj>> /\ UnchangedRoute

(* Somebody strips the finalizer, so that a deleted instance goes at once.  *)
StripFinalizer(n) ==
  /\ obj[n].finalizer /\ SpendFault
  /\ EditInstance(n, IF obj[n].deleting THEN Gone(n, obj[n].uid[2])
                     ELSE [obj[n] EXCEPT !.finalizer = FALSE])

Failures ==
  \/ CallFails
  \/ \E p \in Policies : Restart(p)
  \/ \E n \in Names : StripFinalizer(n)

Others ==
  \E n \in Names :
    \/ RollOut(n)
    \/ \E k \in Cached : SyncCache(n, k)
    \/ \E k \in Kinds : Collect(n, k)

(* Instances of an earlier version have an endpoint and no recorded slug;   *)
(* their auth Middlewares vouch for a slug only.                            *)
Upgraded(n, s) ==
  [Gone(n, 1) EXCEPT !.exists = TRUE, !.created = 1, !.finalizer = TRUE,
                     !.endpoint = s, !.ready = TRUE]

UpgradedObject(n, s, k) ==
  Owned(<<n, 1>>, CASE k = "Deployment" -> <<0, TRUE>>
                    [] k = "Service" -> None
                    [] k = "Auth" -> <<None, s>>
                    [] OTHER -> s)

(* A reviewed entry keeps the slug that its instance already has.           *)
OldSlugs(n) ==
  LET reviewed == {p \in Policies : <<n, 1>> \in DOMAIN p.entries}
  IN {p.entries[<<n, 1>>].slug : p \in reviewed} \ {<<>>}

Init ==
  /\ policy \in Policies
  /\ budget \in Budgets
  /\ \E old \in SUBSET {n \in budget.names : OldSlugs(n) # {}} :
       LET s(n) == CHOOSE x \in OldSlugs(n) : TRUE
       IN /\ obj = [n \in Names |-> IF n \in old THEN Upgraded(n, s(n)) ELSE Gone(n, 0)]
          /\ live = [n \in Names |-> [k \in Kinds |->
                       IF n \in old THEN UpgradedObject(n, s(n), k) ELSE Absent]]
  /\ cache = [n \in Names |-> [k \in Cached |-> live[n][k]]]
  /\ other = None
  /\ w = Idle

Next == Controller \/ Others \/ User \/ Failures

Spec == Init /\ [][Next]_vars

(* The work queue serves every instance in turn: a pass that fails is       *)
(* repeated, any other one follows after 5 or 30 seconds.  Only after       *)
(* rejected model settings none is queued.  Nothing rests on one: the pass  *)
(* that rejects them has done what Settled asks of such an instance, and    *)
(* the edit that corrects them starts another.                              *)
Fairness ==
  /\ WF_vars(Controller)
  /\ \A n \in Names : SF_vars(Reconcile(n)) /\ WF_vars(RollOut(n))
  /\ \A n \in Names, k \in Cached : WF_vars(SyncCache(n, k))
  /\ \A n \in Names, k \in Kinds : WF_vars(Collect(n, k))

FairSpec == Spec /\ Fairness
-----------------------------------------------------------------------------
(* Properties.                                                              *)

Serves(n) == live[n]["Ingress"].owner \notin {None, Foreign}

(* The auth server's tests of the instance (authorize), for the instance    *)
(* and slug that the Middleware of route n vouches for.                     *)
Admits(n) ==
  LET m == live[n]["Auth"]
      o == obj[n]
      s == Select(policy, o)
  IN /\ m.owner \notin {None, Foreign}
     /\ o.exists /\ ~o.deleting /\ ~o.byoc /\ ~o.active
     /\ s # Refused /\ m.data = <<o.uid, s.slug>>
     /\ o.slug = s.slug /\ o.source = s.source

(* An instance of the earlier version that has lost its slug for a derived  *)
(* one (see ProvisionedNotRenamed).                                         *)
Renamed(n) == obj[n].exists /\ obj[n].created = 1 /\ obj[n].source = "derived"

(* A request that passes the auth server on its way through a route reaches *)
(* the instance it was checked against: the route is that instance's, and,  *)
(* unless the instance is renamed, at the instance's slug and overlapped by *)
(* no other route through which requests pass.  Upgrades, restarts with     *)
(* another policy, instances deleted and recreated, leftovers of former     *)
(* ones and deletions that fail half-way must preserve this.                *)
RoutesGuarded ==
  \A n \in Names : Serves(n) /\ Admits(n) =>
    /\ live[n]["Ingress"].owner = obj[n].uid
    /\ Renamed(n) \/ live[n]["Ingress"].data = obj[n].slug
    /\ \A m \in Names \ {n} : Serves(m) /\ Admits(m) =>
         \/ Renamed(n) \/ Renamed(m)
         \/ ~Overlap(live[n]["Ingress"].data, live[m]["Ingress"].data)

(* The controller changes and deletes only objects of the instance it is    *)
(* working on: nothing of a former instance of the name, of another         *)
(* instance or of anybody else is adopted, overwritten or removed.          *)
OnlyOwnObjects ==
  [][Controller => \A n \in Names, k \in Kinds : live'[n][k] # live[n][k] =>
        n = Here /\ live[n][k].owner \in {None, Me}]_vars

(* The controller never lays a route across another instance's, although    *)
(* the conflict test and the write are separate calls.                      *)
NoOverlapCreated ==
  [][\A n, m \in Names :
       /\ n # m /\ live'[n]["Ingress"] # live[n]["Ingress"]
       /\ Serves(n)' /\ Serves(m)
       => ~Overlap(live'[n]["Ingress"].data, live[m]["Ingress"].data)]_vars

(* An instance with a recorded slug keeps it, even if the process is        *)
(* restarted with a policy that says something else of the instance (except *)
(* another reviewed slug, see RouteAssumption), and advertises no other one. *)
SlugKept ==
  [][\A n \in Names :
       obj[n].exists /\ obj[n].slug # None /\ obj'[n].exists /\ obj'[n].uid = obj[n].uid
       => /\ obj'[n].slug = obj[n].slug
          /\ obj'[n].endpoint \in {None, Remote, obj[n].slug}]_vars

(* "A previously provisioned instance requires its reviewed legacy slug":   *)
(* an instance whose endpoint the earlier version advertised, at a slug it  *)
(* did not record, does not get a derived one.                              *)
ProvisionedNotRenamed ==
  \A n \in Names : ~Renamed(n)

Desired(n, s) ==
  [k \in Kinds |-> Owned(obj[n].uid,
     CASE k = "Deployment" -> <<obj[n].model, TRUE>>
       [] k = "Service" -> None
       [] k = "Auth" -> <<obj[n].uid, s>>
       [] OTHER -> s)]

(* Somebody else holds one of the names, or a conflicting route.            *)
Obstructed(n, s) ==
  \/ \E k \in Kinds : live[n][k].owner \notin {None, obj[n].uid}
  \/ ~RouteFree(obj[n], s)

Withdrawn(n) == obj[n].endpoint = None /\ ~Owns(obj[n], live[n]["Ingress"])

Settled(n) ==
  LET o == obj[n]
      s == SelectSlug(o)
  IN /\ ~o.exists => \A k \in Kinds : live[n][k].owner \in {None, Foreign}
     /\ ~o.deleting
     /\ o.exists /\ s = Refused => Withdrawn(n)
     /\ o.exists /\ s # Refused /\ ~o.valid => o.endpoint = None
     /\ o.exists /\ s # Refused /\ o.valid /\ o.byoc => o.endpoint = Remote
     /\ o.exists /\ s # Refused /\ o.valid /\ ~o.byoc =>
          IF Obstructed(n, s.slug) THEN Withdrawn(n)
          ELSE live[n] = Desired(n, s.slug) /\ o.endpoint = s.slug /\ o.ready

(* After the last change, failure and restart every instance ends with its  *)
(* whole route in place and Ready, or, where the policy or another's        *)
(* objects forbid it, without a route and without an endpoint: also after a *)
(* conflicting Ingress has slipped in between the test and the creation.    *)
Converges == <>[](\A n \in Names : Settled(n))
=============================================================================
