-------------------------- MODULE HostedRouteProofs --------------------------
(* Proofs about HostedRoute, for any set of instances, policies and other    *)
(* routes: which objects the controller touches, that it lays no route       *)
(* across another, that a recorded slug is kept, and whom requests reach.    *)
EXTENDS HostedRoute, SlugsProofs, TLAPS

Objects == UNION {ObjectsOf(k) : k \in Kinds}

(* An endpoint is that of the recorded slug; only an instance of the earlier *)
(* version has one without a record, at the slug that reviewers would keep.  *)
Advertises(n, o) ==
  \/ o.endpoint \in {None, Remote, o.slug}
  \/ o.slug = None /\ o.uid = <<n, 1>> /\ o.endpoint \in OldSlugs(n)

WellKept(n, o) ==
  /\ o.name = n /\ o.uid[1] = n /\ ((o.slug = None) <=> (o.source = None))
  /\ o.source = "derived" => o.slug = Derived(o.uid).slug
  /\ o.exists => o.uid \in Uids /\ Advertises(n, o)

ObjInv == obj \in [Names -> Instances] /\ \A n \in Names : WellKept(n, obj[n])

(* Objects an instance controls carry its name; UIDs are not used again.     *)
Placed(n, k, x) ==
  /\ x \in ObjectsOf(k)
  /\ x.owner \in Uids => x.owner[1] = n /\ x.owner[2] <= obj[n].uid[2]

LiveInv ==
  /\ live \in [Names -> [Kinds -> Objects]]
  /\ \A n \in Names, k \in Kinds : Placed(n, k, live[n][k])

(* The Middleware and the Ingress of a name never belong to two instances;   *)
(* the Middleware vouches for its owner, and the Ingress is at the slug of   *)
(* its owner, unless that was renamed or its slug is not recorded yet.       *)
Guarded(n) ==
  LET m == live[n]["Auth"]
      x == live[n]["Ingress"]
      o == obj[n]
  IN /\ m.owner \in Uids => x.owner \in {None, Foreign, m.owner} /\ m.data[1] \in {None, m.owner}
     /\ o.exists /\ x.owner = o.uid =>
          \/ o.slug # None /\ (x.data = o.slug \/ Renamed(n))
          \/ o.slug = None /\ o.uid = <<n, 1>> /\ o.created = 1 /\ x.data \in OldSlugs(n)

GuardInv == \A n \in Names : Guarded(n)

CacheInv ==
  /\ cache \in [Names -> [Cached -> Objects]]
  /\ \A n \in Names, k \in Cached : cache[n][k] \in ObjectsOf(k)

(* The steps after a slug was selected, and those after it was recorded.     *)
Routed == {"check", "cleanup", "byoc", "Deployment", "Service", "Strip", "Auth",
           "recheck", "Ingress", "readiness"}
Placing == {"upgradeAuth", "settings", "finalizer", "persist"} \cup Routed

(* The handler's copy is the stored instance until somebody else writes it;  *)
(* and the slug the handler works with is selected, then recorded.           *)
WorkInv ==
  /\ w \in [pc : Steps, o : Instances, fresh : BOOLEAN]
  /\ w.pc = "idle" => ~w.fresh
  /\ w.pc # "idle" => Me \in Uids /\ Me[1] = Here /\ Me[2] <= obj[Here].uid[2]
  /\ w.fresh => obj[Here] = w.o /\ w.o.exists
  /\ w.pc # "idle" /\ obj[Here].exists /\ obj[Here].uid = Me /\ w.o.slug # None =>
       obj[Here].slug = w.o.slug
  /\ w.pc \in Placing => SelectSlug(w.o) # Refused
  /\ w.pc \in Routed => w.o.slug = Chosen

(* Nobody else lays a route between the conflict tests and the writes.       *)
RouteInv ==
  /\ w.pc \in Routed \ {"check", "byoc", "readiness"} =>
       live[Here]["Ingress"].owner \in {None, Foreign, Me}
  /\ w.pc \in {"recheck", "Ingress"} => live[Here]["Auth"].owner \in {None, Foreign, Me}
  /\ w.pc = "Ingress" => \A m \in Names \ {Here} :
       Serves(m) => ~Overlap(live[m]["Ingress"].data, Chosen)

RestInv ==
  /\ policy \in Policies /\ other \in OtherRoutes \cup {None}
  /\ budget \in [names : SUBSET Names, edits : Nat, faults : Nat]

IInv == RestInv /\ ObjInv /\ LiveInv /\ GuardInv /\ CacheInv /\ WorkInv /\ RouteInv

-----------------------------------------------------------------------------
(* Types.                                                                    *)

(* Every kind's objects are objects.                                         *)
LEMMA KindsOfObjects == \A k \in Kinds : ObjectsOf(k) \subseteq Objects
BY DEF Objects

(* The objects that no instance controls.                                    *)
LEMMA AbsentObjects ==
  \A k \in Kinds : /\ Absent \in ObjectsOf(k) /\ ForeignObject(k) \in ObjectsOf(k)
                   /\ Absent.owner = None /\ ForeignObject(k).owner = Foreign
BY DEF ObjectsOf, Absent, ForeignObject, Owned

(* The objects that a handler writes.                                        *)
LEMMA OwnObjects ==
  \A k \in Kinds, u \in Uids : \A d \in DataOf(k) :
    Owned(u, d) \in ObjectsOf(k) /\ Owned(u, d).owner = u /\ Owned(u, d).data = d
BY DEF ObjectsOf, Owned

(* The bound on the UIDs of a name.                                          *)
LEMMA MaxUidType == MaxUid \in Nat /\ MaxUid # 0
BY RouteAssumption, ZenonT(30)

(* No source of a slug: none of the two that Select gives.                   *)
LEMMA NoSource == None \notin {"legacy", "derived"}
BY RouteAssumption, ZenonT(30)

(* The number of an instance's UID.                                          *)
LEMMA UidNumber ==
  ASSUME NEW i \in Instances
  PROVE  i.uid[2] \in 0 .. MaxUid /\ i.uid[2] \in Nat
<1>1. i.uid \in Names \X (0 .. MaxUid)
  BY ZenonT(30) DEF Instances
<1>2. i.uid[2] \in 0 .. MaxUid
  BY <1>1
<1> QED
  BY <1>2, MaxUidType

(* A UID is a name and a number.                                             *)
LEMMA UidTypes ==
  ASSUME NEW n \in Names, NEW i \in 0 .. MaxUid
  PROVE  /\ <<n, i>> \in Names \X (0 .. MaxUid) /\ <<n, i>>[1] = n /\ <<n, i>>[2] = i
         /\ i > 0 => <<n, i>> \in Uids
<1>1. MaxUid \in Nat
  BY MaxUidType
<1>2. i > 0 => i \in 1 .. MaxUid
  BY <1>1
<1> QED
  BY <1>2 DEF Uids

(* An instance that is not there has no slug and no endpoint.                *)
LEMMA GoneType ==
  ASSUME NEW n \in Names, NEW i \in 0 .. MaxUid
  PROVE  /\ Gone(n, i) \in Instances /\ Gone(n, i).name = n /\ Gone(n, i).uid = <<n, i>>
         /\ ~Gone(n, i).exists /\ Gone(n, i).slug = None /\ Gone(n, i).source = None
         /\ Gone(n, i).endpoint = None
BY UidTypes DEF Gone, Instances

(* The worker between passes.                                                *)
LEMMA IdleType ==
  /\ Idle \in [pc : Steps, o : Instances, fresh : BOOLEAN]
  /\ Idle.pc = "idle" /\ Idle.fresh = FALSE /\ Idle.o = Gone(AnyName, 0) /\ AnyName \in Names
<1>1. AnyName \in Names
  BY RouteAssumption DEF AnyName
<1>2. Gone(AnyName, 0) \in Instances
  <2>1. 0 \in 0 .. MaxUid
    BY MaxUidType
  <2> QED
    BY <1>1, <2>1, GoneType, ZenonT(30)
<1> QED
  BY <1>1, <1>2 DEF Idle, Steps

(* What is selected is a slug: a reviewed one or a derived one.              *)
LEMMA SelectType ==
  ASSUME policy \in Policies, NEW o, o.uid \in Uids, Select(policy, o) # Refused
  PROVE  /\ Select(policy, o).slug \in Slugs /\ Select(policy, o).slug # None
         /\ Select(policy, o).source \in {"legacy", "derived"}
         /\ Select(policy, o).source = "derived" => Select(policy, o).slug = Derived(o.uid).slug
         /\ Select(policy, o).source = "legacy" =>
              /\ o.uid \in DOMAIN policy.entries /\ policy.entries[o.uid].mode = "legacy"
              /\ Select(policy, o).slug = policy.entries[o.uid].slug
<1>1. \A u \in DOMAIN policy.entries : policy.entries[u].slug \in Slugs
  BY DEF Slugs, PolicySlugs
<1>2. Derived(o.uid).slug \in Slugs /\ Derived(o.uid).source = "derived"
  BY DEF Slugs, Derived
<1>3. \A s : Legacy(s).slug = s /\ Legacy(s).source = "legacy"
  BY DEF Legacy
<1>4. \/ Select(policy, o) = Derived(o.uid)
      \/ /\ o.uid \in DOMAIN policy.entries /\ policy.entries[o.uid].mode = "legacy"
         /\ Select(policy, o) = Legacy(policy.entries[o.uid].slug)
  BY DEF Select
<1> QED
  BY <1>1, <1>2, <1>3, <1>4, RouteAssumption

(* selectSlug keeps a recorded slug, or refuses.                             *)
LEMMA SelectSlugType ==
  ASSUME policy \in Policies, NEW o, o.uid \in Uids, SelectSlug(o) # Refused
  PROVE  /\ SelectSlug(o) = Select(policy, o) /\ Select(policy, o) # Refused
         /\ o.slug \in {None, SelectSlug(o).slug}
         /\ SelectSlug(o).source = "derived" /\ o.slug = None => o.endpoint = None
BY DEF SelectSlug

(* A selection for a recorded slug depends on nothing that handlers write.   *)
LEMMA SameSelection ==
  ASSUME NEW o, NEW p, p.uid = o.uid, p.name = o.name, p.created = o.created,
         p.slug = o.slug, p.activeSlug = o.activeSlug, o.slug # None
  PROVE  SelectSlug(p) = SelectSlug(o)
<1>1. Select(policy, p) = Select(policy, o)
  BY DEF Select
<1> QED
  BY <1>1 DEF SelectSlug
-----------------------------------------------------------------------------
(* What a single write does to the invariant.                                *)

(* What the next state takes over.                                           *)
LEMMA Untouched ==
  ASSUME ObjInv, LiveInv, GuardInv, UNCHANGED <<obj, live>>
  PROVE  ObjInv' /\ LiveInv' /\ GuardInv'
<1>1. ObjInv'
  BY DEF ObjInv
<1>2. LiveInv'
  BY DEF LiveInv, Placed
<1>3. GuardInv'
  BY DEF GuardInv, Guarded, Renamed
<1> QED
  BY <1>1, <1>2, <1>3

(* Nor does the cache change by itself.                                      *)
LEMMA CacheUntouched ==
  ASSUME CacheInv, UNCHANGED cache
  PROVE  CacheInv'
BY DEF CacheInv

(* A pass that ends leaves nothing to show.                                  *)
LEMMA PassEnds ==
  ASSUME w' = Idle
  PROVE  WorkInv' /\ RouteInv'
<1>1. w'.pc = "idle" /\ w'.fresh = FALSE /\ w' \in [pc : Steps, o : Instances, fresh : BOOLEAN]
  BY IdleType
<1>2. "idle" \notin Placing /\ "idle" \notin Routed
  BY DEF Placing, Routed
<1> QED
  BY <1>1, <1>2 DEF WorkInv, RouteInv

(* A pass that goes on to the next step with the same copy.                  *)
LEMMA PassGoesOn ==
  ASSUME WorkInv, UNCHANGED <<policy, obj>>, w.pc # "idle",
         NEW step \in Steps \ {"idle"}, Go(step),
         step \in Placing => SelectSlug(w.o) # Refused,
         step \in Routed => w.o.slug = Chosen
  PROVE  WorkInv' /\ w'.pc = step /\ Me' = Me /\ Here' = Here /\ Chosen' = Chosen
<1>1. w \in [pc : Steps, o : Instances, fresh : BOOLEAN]
  BY DEF WorkInv
<1>2. /\ w'.pc = step /\ w'.o = w.o /\ w'.fresh = w.fresh
      /\ w' \in [pc : Steps, o : Instances, fresh : BOOLEAN]
  BY <1>1 DEF Go
<1>3. Me' = Me /\ Here' = Here
  BY <1>2 DEF Me, Here
<1>4. SelectSlug(w.o)' = SelectSlug(w.o)
  BY <1>2, ZenonT(30) DEF SelectSlug, Select
<1>5. Chosen' = Chosen
  BY <1>4 DEF Chosen
<1>6. WorkInv'
  BY <1>2, <1>3, <1>4, <1>5 DEF WorkInv
<1> QED
  BY <1>2, <1>3, <1>5, <1>6

(* One object is written, the others stay.                                   *)
LEMMA LiveAt ==
  ASSUME LiveInv, NEW n \in Names, NEW k \in Kinds, NEW x,
         live' = [live EXCEPT ![n][k] = x]
  PROVE  /\ live'[n][k] = x
         /\ \A m \in Names, j \in Kinds : m # n \/ j # k => live'[m][j] = live[m][j]
         /\ x \in Objects => live' \in [Names -> [Kinds -> Objects]]
<1>1. live \in [Names -> [Kinds -> Objects]]
  BY DEF LiveInv
<1> QED
  BY <1>1

(* An object that goes, or one of somebody else's that comes.                *)
LEMMA SpotCleared ==
  ASSUME ObjInv, LiveInv, GuardInv, NEW n \in Names, NEW k \in Kinds,
         NEW x \in {Absent, ForeignObject(k)},
         live' = [live EXCEPT ![n][k] = x], UNCHANGED obj
  PROVE  /\ LiveInv' /\ GuardInv'
         /\ \A m \in Names, j \in Kinds :
              live'[m][j] = live[m][j] \/ live'[m][j].owner \in {None, Foreign}
<1>0. None \notin Uids /\ Foreign \notin Uids
  BY RouteAssumption
<1>1. x \in ObjectsOf(k) /\ x.owner \in {None, Foreign}
  BY AbsentObjects
<1>2. x \in Objects
  BY <1>1, KindsOfObjects
<1>3. \A m \in Names, j \in Kinds :
        live'[m][j] = live[m][j] \/ (m = n /\ j = k /\ live'[m][j] = x)
  BY LiveAt
<1>4. live' \in [Names -> [Kinds -> Objects]]
  BY <1>2, LiveAt, ZenonT(30)
<1>5. LiveInv'
  BY <1>0, <1>1, <1>3, <1>4 DEF LiveInv, Placed
<1>6. \A m \in Names, j \in Kinds :
        live'[m][j] = live[m][j] \/ live'[m][j].owner \in {None, Foreign}
  BY <1>1, <1>3
<1>7. \A m \in Names : obj[m].exists => obj[m].uid \in Uids
  BY DEF ObjInv, WellKept
<1>8. "Auth" \in Kinds /\ "Ingress" \in Kinds
  BY DEF Kinds, Cached
<1>9. ASSUME NEW m \in Names
      PROVE  Guarded(m)'
  <2>1. Guarded(m) /\ (Renamed(m)' <=> Renamed(m))
    BY DEF GuardInv, Renamed
  <2>2. live'[m]["Auth"] = live[m]["Auth"] \/ live'[m]["Auth"].owner \notin Uids
    BY <1>0, <1>6, <1>8
  <2>3. \/ live'[m]["Ingress"] = live[m]["Ingress"]
        \/ live'[m]["Ingress"].owner \in {None, Foreign}
    BY <1>6, <1>8
  <2> QED
    BY <1>0, <1>7, <2>1, <2>2, <2>3, ZenonT(30) DEF Guarded
<1> QED
  BY <1>5, <1>6, <1>9 DEF GuardInv

(* An object that the handler writes for its instance.                       *)
LEMMA SpotFilled ==
  ASSUME ObjInv, LiveInv, GuardInv, WorkInv, w.pc # "idle",
         NEW k \in Kinds, NEW d \in DataOf(k),
         live' = [live EXCEPT ![Here][k] = Owned(Me, d)], UNCHANGED obj,
         k = "Auth" => d[1] = Me /\ live[Here]["Ingress"].owner \in {None, Foreign, Me},
         k = "Ingress" => /\ d = w.o.slug /\ d # None
                          /\ live[Here]["Auth"].owner \in {None, Foreign, Me}
  PROVE  LiveInv' /\ GuardInv'
<1> DEFINE x == Owned(Me, d)
<1>0. None \notin Uids /\ Foreign \notin Uids
  BY RouteAssumption
<1>1. /\ Here \in Names /\ Me \in Uids /\ Me[1] = Here /\ Me[2] <= obj[Here].uid[2]
      /\ (obj[Here].exists /\ obj[Here].uid = Me /\ w.o.slug # None => obj[Here].slug = w.o.slug)
  BY DEF WorkInv, Here, Instances
<1>2. x \in ObjectsOf(k) /\ x.owner = Me /\ x.data = d
  BY <1>1, OwnObjects
<1>2a. x \in Objects
  BY <1>2, KindsOfObjects
<1> HIDE DEF x
<1>2b. live \in [Names -> [Kinds -> Objects]] /\ live' = [live EXCEPT ![Here][k] = x]
  BY DEF LiveInv, x
<1>3. /\ live'[Here][k] = x
      /\ \A m \in Names, j \in Kinds : m # Here \/ j # k => live'[m][j] = live[m][j]
  BY <1>1, <1>2b
<1>4. live' \in [Names -> [Kinds -> Objects]]
  BY <1>1, <1>2a, <1>2b
<1>5. ASSUME NEW m \in Names, NEW j \in Kinds
      PROVE  Placed(m, j, live[m][j])'
  BY <1>1, <1>2, <1>3 DEF LiveInv, Placed
<1>6. LiveInv'
  BY <1>4, <1>5 DEF LiveInv
<1>8. "Auth" \in Kinds /\ "Ingress" \in Kinds
  BY DEF Kinds, Cached
<1>9. ASSUME NEW m \in Names
      PROVE  Guarded(m)'
  <2>1. Guarded(m) /\ (Renamed(m)' <=> Renamed(m))
    BY DEF GuardInv, Renamed
  <2>2. CASE m # Here \/ k \notin {"Auth", "Ingress"}
    <3>1. live'[m]["Auth"] = live[m]["Auth"] /\ live'[m]["Ingress"] = live[m]["Ingress"]
      BY <1>3, <1>8, <2>2
    <3> QED
      BY <2>1, <3>1, ZenonT(30) DEF Guarded
  <2>3. CASE m = Here /\ k = "Auth"
    <3>1. live'[m]["Auth"] = x /\ live'[m]["Ingress"] = live[m]["Ingress"]
      BY <1>3, <1>8, <2>3
    <3> QED
      BY <1>2, <2>1, <2>3, <3>1 DEF Guarded
  <2>4. CASE m = Here /\ k = "Ingress"
    <3>1. live'[m]["Ingress"] = x /\ live'[m]["Auth"] = live[m]["Auth"]
      BY <1>3, <1>8, <2>4
    <3> QED
      BY <1>0, <1>1, <1>2, <2>1, <2>4, <3>1 DEF Guarded
  <2> QED
    BY <2>2, <2>3, <2>4
<1> QED
  BY <1>6, <1>9 DEF GuardInv

(* A write of an instance: of the same one, or of a later one of its name.   *)
Follows(n, o) ==
  /\ obj[n].exists /\ o.uid = obj[n].uid /\ o.created = obj[n].created
  /\ obj[n].slug # None => o.slug = obj[n].slug
  /\ Renamed(n) => o.source = "derived"
  /\ obj[n].slug = None /\ o.slug # None /\ o.uid = <<n, 1>> /\ o.source # "derived" =>
       \A s \in OldSlugs(n) : o.slug = s

(* No instance that stays loses its recorded slug.                           *)
KeepsSlugs ==
  \A n \in Names :
    obj[n].exists /\ obj[n].slug # None /\ obj'[n].exists /\ obj'[n].uid = obj[n].uid =>
      obj'[n].slug = obj[n].slug

(* A write that follows the instance keeps the invariant and the slugs.      *)
LEMMA InstanceWritten ==
  ASSUME ObjInv, LiveInv, GuardInv, NEW n \in Names, NEW o \in Instances, WellKept(n, o),
         o.uid[2] >= obj[n].uid[2], o.exists => o.uid[2] > obj[n].uid[2] \/ Follows(n, o),
         obj' = [obj EXCEPT ![n] = o], UNCHANGED live
  PROVE  ObjInv' /\ LiveInv' /\ GuardInv' /\ KeepsSlugs
<1>1. obj'[n] = o /\ \A m \in Names \ {n} : obj'[m] = obj[m]
  BY DEF ObjInv
<1>2. obj' \in [Names -> Instances]
  BY DEF ObjInv
<1>3. ASSUME NEW m \in Names
      PROVE  WellKept(m, obj[m])'
  BY <1>1 DEF ObjInv, WellKept, Advertises
<1>4. \A m \in Names : obj[m].uid[2] \in Nat /\ obj'[m].uid[2] \in Nat
  <2>1. \A i \in Instances : i.uid[2] \in Nat
    BY RouteAssumption DEF Instances
  <2> QED
    BY <1>2, <2>1 DEF ObjInv
<1>5. \A m \in Names : obj'[m].uid[2] >= obj[m].uid[2]
  BY <1>1, <1>4
<1>6. \A u \in Uids : u[2] \in Nat
  BY RouteAssumption DEF Uids
<1>7. ASSUME NEW m \in Names, NEW k \in Kinds
      PROVE  Placed(m, k, live[m][k])'
  <2>1. Placed(m, k, live[m][k])
    BY DEF LiveInv
  <2> QED
    BY <1>4, <1>5, <1>6, <2>1 DEF Placed
<1>8. LiveInv'
  BY <1>7 DEF LiveInv
<1>9. ASSUME NEW m \in Names
      PROVE  Guarded(m)'
  <2>1. Guarded(m)
    BY DEF GuardInv
  <2>2. CASE m # n
    BY <1>1, <2>1, <2>2, ZenonT(30) DEF Guarded, Renamed
  <2>3. CASE m = n
    <3>1. (Renamed(m)' <=> o.exists /\ o.created = 1 /\ o.source = "derived") /\ obj'[m] = o
      BY <1>1, <2>3 DEF Renamed
    <3>2. ASSUME o.exists, live[m]["Ingress"].owner = o.uid
          PROVE  Follows(m, o)
      <4>1. o.uid \in Uids
        BY <3>2 DEF WellKept
      <4>2. Placed(m, "Ingress", live[m]["Ingress"])
        BY DEF LiveInv, Kinds, Cached
      <4>3. o.uid[2] <= obj[m].uid[2]
        BY <3>2, <4>1, <4>2 DEF Placed
      <4>4. o.uid[2] \in Nat
        BY <1>6, <4>1
      <4> QED
        BY <1>4, <2>3, <3>2, <4>3, <4>4
    <3>3. ASSUME o.exists, live[m]["Ingress"].owner = o.uid
          PROVE  LET x == live[m]["Ingress"] IN
                 \/ o.slug # None /\ (x.data = o.slug \/ Renamed(m)')
                 \/ o.slug = None /\ o.uid = <<m, 1>> /\ o.created = 1 /\ x.data \in OldSlugs(m)
      <4>1. Follows(m, o)
        BY <3>2, <3>3
      <4> QED
        BY <2>1, <3>1, <3>3, <4>1, ZenonT(30) DEF Guarded, Follows, Renamed
    <3> QED
      BY <2>1, <3>1, <3>3, ZenonT(30) DEF Guarded
  <2> QED
    BY <2>2, <2>3
<1>10. KeepsSlugs
  BY <1>1, <1>4 DEF KeepsSlugs, Follows
<1> QED
  BY <1>2, <1>3, <1>8, <1>9, <1>10 DEF ObjInv, GuardInv
-----------------------------------------------------------------------------
(* Reviewed slugs.                                                           *)

(* A reviewed slug is not a derived one.                                     *)
LEMMA LegacyNotDerived ==
  ASSUME policy \in Policies, NEW u \in DOMAIN policy.entries,
         policy.entries[u].mode = "legacy", NEW v
  PROVE  policy.entries[u].slug # Derived(v).slug
<1> DEFINE s == policy.entries[u].slug
<1>1. WellFormed(policy) /\ s \in Seq(STRING)
  BY RouteAssumption
<1>2. ~Overlap(s, Reserved)
  BY <1>1 DEF WellFormed, ValidEntry
<1> HIDE DEF s
<1>3. ~Overlap(s, Derived(v).slug)
  BY <1>1, <1>2, LegacyDisjoint
<1>4. StartsWith(s, s)
  BY <1>1, PrefixPointwise
<1>5. s # Derived(v).slug
  BY <1>3, <1>4 DEF Overlap
<1> QED
  BY <1>5 DEF s

(* A reviewed slug is the one that an instance of the earlier version has.   *)
LEMMA OldSlugKept ==
  ASSUME policy \in Policies, NEW n \in Names, <<n, 1>> \in DOMAIN policy.entries,
         policy.entries[<<n, 1>>].mode = "legacy", NEW s \in OldSlugs(n)
  PROVE  s = policy.entries[<<n, 1>>].slug
<1> DEFINE u == <<n, 1>>
<1>1. PICK p \in Policies : u \in DOMAIN p.entries /\ s = p.entries[u].slug /\ s # <<>>
  BY DEF OldSlugs
<1> HIDE DEF u
<1>2. WellFormed(p)
  BY RouteAssumption
<1>3. p.entries[u].mode = "legacy"
  BY <1>1, <1>2 DEF WellFormed, ValidEntry
<1>4. \A p1, p2 \in Policies : \A v \in DOMAIN p1.entries \cap DOMAIN p2.entries :
        p1.entries[v].mode = "legacy" /\ p2.entries[v].mode = "legacy" =>
          p1.entries[v].slug = p2.entries[v].slug
  BY RouteAssumption
<1> QED
  BY <1>1, <1>3, <1>4 DEF u

(* The earlier version's slugs are slugs.                                    *)
LEMMA OldSlugType ==
  ASSUME NEW n \in Names, NEW s \in OldSlugs(n)
  PROVE  s \in Slugs /\ s # None /\ s # Remote
<1>1. PICK p \in Policies : <<n, 1>> \in DOMAIN p.entries /\ s = p.entries[<<n, 1>>].slug
  BY DEF OldSlugs
<1>2. s \in PolicySlugs
  BY <1>1 DEF PolicySlugs
<1> QED
  BY <1>2, RouteAssumption, ZenonT(30) DEF Slugs
-----------------------------------------------------------------------------
(* The controller's steps.                                                   *)

(* A status update, refused when the handler's copy is old.                  *)
LEMMA StatusWritten ==
  ASSUME IInv, w.pc # "idle", NEW o \in Instances, NEW next \in {"idle", "readback", "Deployment"},
         UpdateStatus(o, next), o.uid = Me, o.name = Here, o.exists = w.o.exists,
         w.fresh => WellKept(Here, o) /\ Follows(Here, o),
         next = "Deployment" =>
           /\ SelectSlug(o) # Refused /\ o.slug = SelectSlug(o).slug
           /\ live[Here]["Ingress"].owner \in {None, Foreign, Me}
  PROVE  IInv' /\ KeepsSlugs
<1>1. RestInv' /\ CacheInv'
  <2>1. UNCHANGED <<policy, other, budget, cache>>
    BY DEF UpdateStatus, UnchangedRoute
  <2> QED
    BY <2>1, CacheUntouched DEF IInv, RestInv
<1>2. CASE ~w.fresh
  <2>1. w' = Idle /\ UNCHANGED <<obj, live>>
    BY <1>2 DEF UpdateStatus, UnchangedRoute
  <2> QED
    BY <1>1, <2>1, Untouched, PassEnds DEF IInv, KeepsSlugs
<1>3. CASE w.fresh
  <2>1. /\ obj' = [obj EXCEPT ![Here] = o] /\ UNCHANGED <<live, policy>>
        /\ w' = IF next = "idle" THEN Idle ELSE [w EXCEPT !.o = o, !.pc = next]
    BY <1>3 DEF UpdateStatus, UnchangedRoute, Stored
  <2>2. w \in [pc : Steps, o : Instances, fresh : BOOLEAN] /\ obj \in [Names -> Instances]
    BY DEF IInv, WorkInv, ObjInv
  <2>3. Here \in Names /\ obj[Here] = w.o /\ w.o.exists /\ Me \in Uids /\ Me[1] = Here
    BY <1>3, <2>2, ZenonT(30) DEF IInv, WorkInv, Instances, Here
  <2>4. o.uid[2] = obj[Here].uid[2] /\ o.uid[2] \in Nat
    <3>1. \A u \in Uids : u[2] \in Nat
      BY RouteAssumption DEF Uids
    <3> QED
      BY <2>3, <3>1 DEF Me
  <2>5. ObjInv' /\ LiveInv' /\ GuardInv' /\ KeepsSlugs
    <3>1. o.uid[2] >= obj[Here].uid[2]
      BY <2>4
    <3> QED
      BY <1>3, <2>1, <2>3, <3>1, InstanceWritten, ZenonT(30) DEF IInv
  <2>6. CASE next = "idle"
    BY <1>1, <2>1, <2>5, <2>6, PassEnds DEF IInv
  <2>7. CASE next # "idle"
    <3>1. /\ w'.o = o /\ w'.pc = next /\ w'.fresh = TRUE /\ next \in Steps
          /\ w' \in [pc : Steps, o : Instances, fresh : BOOLEAN]
      BY <1>3, <2>1, <2>2, <2>7, ZenonT(30) DEF Steps
    <3>2. Me' = Me /\ Here' = Here /\ obj'[Here] = o
      BY <2>1, <2>2, <2>3, <3>1 DEF Me, Here
    <3>3. SelectSlug(w.o)' = SelectSlug(o) /\ Chosen' = SelectSlug(o).slug
      BY <2>1, <3>1, ZenonT(30) DEF SelectSlug, Select, Chosen
    <3>4. /\ next \in Placing => next = "Deployment"
          /\ next \in Routed => next = "Deployment"
      BY <2>7 DEF Placing, Routed
    <3>5. Me'[2] <= obj'[Here].uid[2]
      BY <2>4, <3>2
    <3>6. WorkInv'
      BY <2>3, <2>7, <3>1, <3>2, <3>3, <3>4, <3>5, ZenonT(30) DEF WorkInv
    <3>7. RouteInv'
      BY <2>1, <2>7, <3>1, <3>2, <3>4 DEF RouteInv
    <3> QED
      BY <1>1, <2>5, <3>6, <3>7 DEF IInv
  <2> QED
    BY <2>6, <2>7
<1> QED
  BY <1>2, <1>3, ZenonT(30) DEF IInv, WorkInv

(* What an update may do to the instance that the handler works on.          *)
LEMMA SameInstance ==
  ASSUME IInv, NEW o, w.fresh, o.uid = Me, o.name = Here, o.exists = w.o.exists,
         o.created = w.o.created, o.slug = w.o.slug, o.source = w.o.source,
         o.endpoint \in {None, Remote, w.o.slug, w.o.endpoint}
  PROVE  WellKept(Here, o) /\ Follows(Here, o)
<1>1. Here \in Names /\ obj[Here] = w.o /\ w.o.exists
  BY DEF IInv, WorkInv, Instances, Here
<1>2. WellKept(Here, w.o)
  BY <1>1 DEF IInv, ObjInv
<1>3. WellKept(Here, o)
  BY <1>2 DEF WellKept, Advertises, Me
<1>4. Follows(Here, o)
  BY <1>1 DEF Follows, Renamed, Me
<1> QED
  BY <1>3, <1>4

(* The updates that end a pass.                                              *)
LEMMA StepStatus ==
  ASSUME IInv, RejectModelSettings \/ EnsureFinalizer \/ RejectStatus \/ ReconcileBYOC
                 \/ EvaluateReadiness
  PROVE  IInv' /\ KeepsSlugs
<1> DEFINE ready == RolledOut(cache[Here]["Deployment"])
           Changed(o) ==
             \/ o = [w.o EXCEPT !.endpoint = None, !.ready = FALSE]
             \/ o = [w.o EXCEPT !.finalizer = TRUE]
             \/ o = [w.o EXCEPT !.active = TRUE, !.activeSlug = w.o.slug,
                               !.endpoint = Remote, !.ready = TRUE]
             \/ o = [w.o EXCEPT !.endpoint = w.o.slug, !.ready = ready]
<1>1. w.o \in Instances /\ w.pc # "idle"
  BY DEF IInv, WorkInv, RejectModelSettings, EnsureFinalizer, RejectStatus, ReconcileBYOC,
         EvaluateReadiness
<1>2. ready \in BOOLEAN
  BY DEF RolledOut
<1> HIDE DEF ready
<1>3. ASSUME EvaluateReadiness
      PROVE  UpdateStatus([w.o EXCEPT !.endpoint = w.o.slug, !.ready = ready], "idle")
  <2>1. w.o.slug = Chosen
    BY <1>3 DEF EvaluateReadiness, IInv, WorkInv, Routed
  <2> QED
    BY <1>3, <2>1 DEF EvaluateReadiness, ready
<1>4. PICK o : Changed(o) /\ UpdateStatus(o, "idle")
  BY <1>3 DEF RejectModelSettings, EnsureFinalizer, RejectStatus, ReconcileBYOC
<1>5. /\ o \in Instances /\ o.uid = w.o.uid /\ o.name = w.o.name /\ o.exists = w.o.exists
      /\ o.created = w.o.created /\ o.slug = w.o.slug /\ o.source = w.o.source
      /\ o.endpoint \in {None, Remote, w.o.slug, w.o.endpoint}
  BY <1>1, <1>2, <1>4, ZenonT(30) DEF Instances
<1>6. w.fresh => WellKept(Here, o) /\ Follows(Here, o)
  BY <1>5, SameInstance DEF Me, Here
<1> HIDE DEF Changed
<1> QED
  BY <1>1, <1>4, <1>5, <1>6, StatusWritten DEF Me, Here

(* An instance that is hosted again goes on with its own slug.               *)
LEMMA StepCleanupTarget ==
  ASSUME IInv, CleanupTarget
  PROVE  IInv' /\ KeepsSlugs
<1> DEFINE o == [w.o EXCEPT !.active = FALSE, !.endpoint = None, !.ready = FALSE]
<1>1. w.o \in Instances /\ w.pc = "cleanup" /\ UpdateStatus(o, "Deployment")
  BY DEF IInv, WorkInv, CleanupTarget
<1>2. /\ o \in Instances /\ o.uid = w.o.uid /\ o.name = w.o.name /\ o.exists = w.o.exists
      /\ o.created = w.o.created /\ o.slug = w.o.slug /\ o.source = w.o.source
      /\ o.activeSlug = w.o.activeSlug /\ o.endpoint = None
  BY <1>1, ZenonT(30) DEF Instances
<1> HIDE DEF o
<1>3. w.fresh => WellKept(Here, o) /\ Follows(Here, o)
  BY <1>2, SameInstance DEF Me, Here
<1>4. w.pc \in Routed \ {"check", "byoc", "readiness"} /\ w.pc \in Placing
  BY <1>1 DEF Routed, Placing
<1>5. /\ SelectSlug(w.o) # Refused /\ w.o.slug = SelectSlug(w.o).slug /\ Me \in Uids
      /\ live[Here]["Ingress"].owner \in {None, Foreign, Me}
  BY <1>1, <1>4 DEF IInv, WorkInv, RouteInv, Chosen
<1>6. w.o.slug # None
  <2>1. policy \in Policies /\ w.o.uid \in Uids
    BY <1>5, ZenonT(30) DEF IInv, RestInv, Me
  <2>2. SelectSlug(w.o) = Select(policy, w.o)
    BY <1>5, <2>1, SelectSlugType, ZenonT(30)
  <2> QED
    BY <1>5, <2>1, <2>2, SelectType, ZenonT(30)
<1>7. SelectSlug(o) = SelectSlug(w.o)
  BY <1>2, <1>6, SameSelection
<1> QED
  BY <1>1, <1>2, <1>3, <1>5, <1>7, StatusWritten, ZenonT(30) DEF Me, Here

(* The slug that is recorded is the one the instance had, if it had one.     *)
LEMMA StepEnsureSlug ==
  ASSUME IInv, EnsureSlug
  PROVE  IInv' /\ KeepsSlugs
<1> DEFINE s == SelectSlug(w.o)
           o == [w.o EXCEPT !.slug = s.slug, !.source = s.source]
<1>1. w.o \in Instances /\ w.pc = "persist" /\ UpdateStatus(o, "readback")
  BY DEF IInv, WorkInv, EnsureSlug
<1>2. s # Refused /\ Me \in Uids /\ policy \in Policies
  BY <1>1 DEF IInv, WorkInv, RestInv, Placing
<1>3. /\ s = Select(policy, w.o) /\ w.o.slug \in {None, s.slug}
      /\ s.source = "derived" /\ w.o.slug = None => w.o.endpoint = None
  BY <1>2, SelectSlugType DEF Me
<1>4. /\ s.slug \in Slugs /\ s.slug # None /\ s.source \in {"legacy", "derived"}
      /\ s.source = "derived" => s.slug = Derived(Me).slug
      /\ s.source = "legacy" =>
           /\ Me \in DOMAIN policy.entries /\ policy.entries[Me].mode = "legacy"
           /\ s.slug = policy.entries[Me].slug
  BY <1>2, <1>3, SelectType, ZenonT(30) DEF Me
<1> HIDE DEF s
<1>5. /\ o \in Instances /\ o.uid = Me /\ o.name = Here /\ o.exists = w.o.exists
      /\ o.created = w.o.created /\ o.endpoint = w.o.endpoint
      /\ o.slug = s.slug /\ o.source = s.source
  BY <1>1, <1>4, ZenonT(30) DEF Instances, Me, Here
<1> HIDE DEF o
<1>6. ASSUME w.fresh
      PROVE  WellKept(Here, o) /\ Follows(Here, o)
  <2>1. Here \in Names /\ obj[Here] = w.o /\ w.o.exists
    BY <1>6 DEF IInv, WorkInv, Instances, Here
  <2>2. WellKept(Here, w.o)
    BY <2>1 DEF IInv, ObjInv
  <2>3. \A x \in OldSlugs(Here) : x # None
    BY <2>1, OldSlugType
  <2>4. ASSUME Me = <<Here, 1>>, s.source = "legacy"
        PROVE  \A x \in OldSlugs(Here) : s.slug = x
    BY <1>2, <1>4, <2>1, <2>4, OldSlugKept
  <2>5. Advertises(Here, o)
    <3>1. Advertises(Here, w.o)
      BY <2>1, <2>2 DEF WellKept
    <3>2. CASE w.o.endpoint \in {None, Remote, w.o.slug}
      BY <1>3, <1>5, <3>2 DEF Advertises
    <3>3. CASE w.o.slug = None /\ Me = <<Here, 1>> /\ w.o.endpoint \in OldSlugs(Here)
      <4>1. s.source = "legacy"
        BY <1>3, <1>4, <2>3, <3>3
      <4>2. w.o.endpoint = s.slug
        BY <2>4, <3>3, <4>1
      <4> QED
        BY <1>5, <4>2 DEF Advertises
    <3> QED
      BY <3>1, <3>2, <3>3 DEF Advertises, Me
  <2>6. None \notin {"legacy", "derived"}
    BY NoSource
  <2>7. WellKept(Here, o)
    BY <1>2, <1>4, <1>5, <2>2, <2>5, <2>6, ZenonT(30) DEF WellKept, Me
  <2>8. w.o.source = "derived" => s.source = "derived"
    <3>1. ASSUME w.o.source = "derived", s.source = "legacy"
          PROVE  FALSE
      <4>1. w.o.slug = Derived(Me).slug /\ w.o.slug # None
        BY <2>2, <2>6, <3>1 DEF WellKept, Me
      <4>2. s.slug # Derived(Me).slug
        BY <1>2, <1>4, <3>1, LegacyNotDerived
      <4> QED
        BY <1>3, <4>1, <4>2
    <3> QED
      BY <1>4, <3>1
  <2>9. Follows(Here, o)
    BY <1>3, <1>4, <1>5, <2>1, <2>4, <2>8, ZenonT(30) DEF Follows, Renamed, Me
  <2> QED
    BY <2>7, <2>9
<1> QED
  BY <1>1, <1>5, <1>6, StatusWritten

(* What WorkInv and RouteInv ask for at a step.                              *)
Allowed(step) ==
  /\ step \in Placing => SelectSlug(w.o) # Refused
  /\ step \in Routed => w.o.slug = Chosen
  /\ step \in Routed \ {"check", "byoc", "readiness"} =>
       live[Here]["Ingress"].owner \in {None, Foreign, Me}
  /\ step \in {"recheck", "Ingress"} => live[Here]["Auth"].owner \in {None, Foreign, Me}
  /\ step = "Ingress" => \A m \in Names \ {Here} :
       Serves(m) => ~Overlap(live[m]["Ingress"].data, Chosen)

(* The invariant says that the worker is where it may be.                    *)
LEMMA NowAllowed ==
  ASSUME IInv
  PROVE  Allowed(w.pc)
BY ZenonT(30) DEF Allowed, IInv, WorkInv, RouteInv

(* The handler reads, and goes on to a step that is allowed.                 *)
LEMMA StepProceed ==
  ASSUME IInv, w.pc # "idle", NEW step \in Steps \ {"idle"}, Proceed(step), Allowed(step)
  PROVE  IInv'
<1>1. Go(step) /\ UNCHANGED <<policy, obj, budget, live, cache, other>>
  BY DEF Proceed, UnchangedRoute
<1>2. WorkInv' /\ w'.pc = step /\ Me' = Me /\ Here' = Here /\ Chosen' = Chosen
  BY <1>1, PassGoesOn DEF IInv, Allowed
<1>3. RouteInv'
  BY <1>1, <1>2 DEF RouteInv, Allowed, Serves
<1>4. RestInv' /\ CacheInv'
  BY <1>1, CacheUntouched DEF IInv, RestInv
<1>5. ObjInv' /\ LiveInv' /\ GuardInv'
  BY <1>1, Untouched DEF IInv
<1> QED
  BY <1>2, <1>3, <1>4, <1>5 DEF IInv

(* The rejection is always allowed.                                          *)
LEMMA StepReject ==
  ASSUME IInv, w.pc # "idle", Reject
  PROVE  IInv'
<1>1. Allowed("reject") /\ "reject" \in Steps \ {"idle"}
  BY DEF Allowed, Placing, Routed, Steps
<1> QED
  BY <1>1, StepProceed DEF Reject, Proceed

(* The pass ends without a write.                                            *)
LEMMA StepGiveUp ==
  ASSUME IInv, w' = Idle, UNCHANGED <<policy, obj, live, cache, other>>,
         budget' \in [names : SUBSET Names, edits : Nat, faults : Nat]
  PROVE  IInv'
<1>1. RestInv' /\ CacheInv'
  BY CacheUntouched DEF IInv, RestInv
<1> QED
  BY <1>1, PassEnds, Untouched DEF IInv

(* A write of an object, and the step that follows it.                       *)
LEMMA StepStore ==
  ASSUME IInv, w.pc # "idle", NEW k \in Kinds, NEW d \in DataOf(k),
         NEW next \in Steps \ {"idle", "Ingress"}, Store(k, d, next), Allowed(next),
         k = "Auth" => d[1] = Me /\ live[Here]["Ingress"].owner \in {None, Foreign, Me},
         k = "Ingress" => /\ d = w.o.slug /\ d # None
                          /\ live[Here]["Auth"].owner \in {None, Foreign, Me}
  PROVE  IInv'
<1>1. /\ Go(next) /\ live' = [live EXCEPT ![Here][k] = Owned(Me, d)]
      /\ UNCHANGED <<policy, obj, cache, other, budget>>
  BY DEF Store
<1>2. WorkInv' /\ w'.pc = next /\ Me' = Me /\ Here' = Here
  BY <1>1, PassGoesOn DEF IInv, Allowed
<1>3. LiveInv' /\ GuardInv'
  BY <1>1, SpotFilled, ZenonT(30) DEF IInv
<1>4. Here \in Names /\ live \in [Names -> [Kinds -> Objects]]
  BY ZenonT(30) DEF IInv, WorkInv, LiveInv, Instances, Here
<1>5. Owned(Me, d).owner = Me
  BY DEF Owned
<1>6. \A j \in Kinds : live'[Here][j] = live[Here][j] \/ live'[Here][j].owner = Me
  BY <1>1, <1>4, <1>5
<1>7. "Auth" \in Kinds /\ "Ingress" \in Kinds
  BY DEF Kinds, Cached
<1>8. RouteInv'
  BY <1>2, <1>6, <1>7, ZenonT(30) DEF RouteInv, Allowed
<1>9. RestInv' /\ CacheInv' /\ ObjInv'
  BY <1>1, CacheUntouched DEF IInv, RestInv, ObjInv
<1> QED
  BY <1>2, <1>3, <1>8, <1>9 DEF IInv

(* The slug that the handler works with.                                     *)
LEMMA ChosenType ==
  ASSUME IInv, w.pc \in Placing
  PROVE  Chosen \in Slugs /\ Chosen # None /\ Me \in Uids /\ w.pc # "idle"
<1>1. w.pc # "idle"
  BY DEF Placing, Routed
<1>2. Me \in Uids /\ SelectSlug(w.o) # Refused /\ policy \in Policies
  BY <1>1 DEF IInv, WorkInv, RestInv
<1> QED
  BY <1>1, <1>2, SelectType, SelectSlugType DEF Chosen, Me

(* Objects read through the cache.                                           *)
LEMMA StepCached ==
  ASSUME IInv, NEW k \in Cached, w.pc = k, NEW asDesired, NEW d \in DataOf(k),
         NEW next \in {"Service", "Strip", "readiness"}, ReconcileCached(k, asDesired, d, next),
         Allowed(next), k = "Ingress" => d = w.o.slug /\ d # None
  PROVE  IInv'
<1>1. w.pc # "idle" /\ k \in Kinds /\ k # "Auth" /\ next \in Steps \ {"idle", "Ingress"}
  BY DEF Cached, Backend, Kinds, Steps
<1>2. k = "Ingress" => live[Here]["Auth"].owner \in {None, Foreign, Me}
  BY NowAllowed DEF Allowed
<1>3. Reject \/ Proceed(next) \/ Store(k, d, next) \/ GiveUp
  BY ZenonT(30) DEF ReconcileCached
<1>4. CASE Reject
  BY <1>1, <1>4, StepReject
<1>5. CASE Proceed(next)
  BY <1>1, <1>5, StepProceed
<1>6. CASE Store(k, d, next)
  BY <1>1, <1>2, <1>6, StepStore
<1>7. CASE GiveUp
  BY <1>7, StepGiveUp DEF GiveUp, UnchangedRoute, IInv, RestInv
<1> QED
  BY <1>3, <1>4, <1>5, <1>6, <1>7

(* Deployment, Service and Ingress.                                          *)
LEMMA StepWorkload ==
  ASSUME IInv, ReconcileDeployment \/ ReconcileService \/ ReconcileIngress
  PROVE  IInv'
<1>1. w.o \in Instances /\ Allowed(w.pc)
  BY NowAllowed DEF IInv, WorkInv
<1>2. ASSUME w.pc \in Cached, NEW next \in {"Service", "Strip", "readiness"}
      PROVE  Allowed(next)
  BY <1>1, <1>2 DEF Allowed, Cached, Backend, Placing, Routed
<1>3. CASE ReconcileDeployment
  <2>1. DesiredDeployment \in DataOf("Deployment") /\ "Deployment" \in Cached
    BY <1>1, ZenonT(30) DEF DesiredDeployment, DataOf, Instances, Cached, Backend
  <2>2. w.pc = "Deployment"
    BY <1>3 DEF ReconcileDeployment, ReconcileCached
  <2> QED
    BY <1>2, <1>3, <2>1, <2>2, StepCached DEF ReconcileDeployment
<1>4. CASE ReconcileService
  <2>1. None \in DataOf("Service") /\ "Service" \in Cached
    BY DEF DataOf, Cached, Backend
  <2>2. w.pc = "Service"
    BY <1>4 DEF ReconcileService, ReconcileCached
  <2> QED
    BY <1>2, <1>4, <2>1, <2>2, StepCached, ZenonT(30) DEF ReconcileService
<1>5. CASE ReconcileIngress
  <2>1. w.pc = "Ingress" /\ w.pc \in Placing /\ w.pc \in Routed /\ w.pc \in Cached
    BY <1>5 DEF ReconcileIngress, ReconcileCached, Placing, Routed, Cached
  <2>2. Chosen \in DataOf("Ingress") /\ Chosen # None
    BY <2>1, ChosenType DEF DataOf
  <2>3. w.o.slug = Chosen
    BY <1>1, <2>1 DEF Allowed
  <2> QED
    BY <1>2, <1>5, <2>1, <2>2, <2>3, StepCached DEF ReconcileIngress
<1> QED
  BY <1>3, <1>4, <1>5

(* The steps before the route need no more than a selected slug.             *)
LEMMA GateAllowed ==
  ASSUME IInv, w.pc # "idle", SelectSlug(w.o) # Refused
  PROVE  Allowed(Gate(w.o)) /\ Gate(w.o) \in Steps \ {"idle", "Ingress"}
<1>1. /\ Gate(w.o) \in {"settings", "finalizer", "persist", "byoc", "check"}
      /\ Gate(w.o) \in {"byoc", "check"} => w.o.slug = Chosen
  BY DEF Gate, Chosen
<1>2. {"settings", "finalizer", "persist"} \cap Routed = {}
  BY DEF Routed
<1>3. /\ Gate(w.o) \notin Routed \ {"check", "byoc", "readiness"}
      /\ Gate(w.o) \notin {"recheck", "Ingress", "idle"}
      /\ Gate(w.o) \in Steps
  BY <1>1 DEF Routed, Steps
<1> QED
  BY <1>1, <1>2, <1>3 DEF Allowed

(* Objects read from the API server.                                         *)
LEMMA StepMiddleware ==
  ASSUME IInv, w.pc # "idle", NEW k \in {"Strip", "Auth"}, NEW d \in DataOf(k),
         NEW create \in BOOLEAN, NEW next \in Steps \ {"idle", "Ingress"},
         ReconcileMiddleware(k, d, create, next),
         next \in {"recheck", "Ingress"} => k = "Auth",
         k = "Auth" => d[1] = Me,
         k = "Auth" /\ create => live[Here]["Ingress"].owner \in {None, Foreign, Me},
         live[Here]["Auth"].owner \in {None, Foreign, Me} => Allowed(next),
         next # "recheck" => Allowed(next)
  PROVE  IInv'
<1> DEFINE x == live[Here][k]
<1>1. k \in Kinds /\ Here \in Names /\ Me \in Uids
  BY ZenonT(30) DEF Kinds, IInv, WorkInv, Instances, Here
<1>2. \/ Reject
      \/ Proceed(next) /\ (x.owner = Me \/ (~create /\ x.owner = None))
      \/ Store(k, d, next) /\ (x.owner = Me \/ (create /\ x.owner = None))
  <2>1. Owned(Me, d).owner = Me /\ Absent.owner = None
    BY DEF Owned, Absent
  <2> QED
    BY <2>1, ZenonT(30) DEF ReconcileMiddleware
<1>3. x.owner \in {None, Me} => Allowed(next)
  OBVIOUS
<1>4. ASSUME k = "Auth", x.owner = Me
      PROVE  live[Here]["Ingress"].owner \in {None, Foreign, Me}
  BY <1>1, <1>4, ZenonT(30) DEF IInv, GuardInv, Guarded
<1> HIDE DEF x
<1>5. CASE Reject
  BY <1>5, StepReject
<1>6. CASE Proceed(next) /\ x.owner \in {None, Me}
  BY <1>3, <1>6, StepProceed
<1>7. CASE Store(k, d, next) /\ (x.owner = Me \/ (create /\ x.owner = None))
  <2>1. Allowed(next)
    BY <1>3, <1>7, ZenonT(30)
  <2>2. k = "Auth" => live[Here]["Ingress"].owner \in {None, Foreign, Me}
    BY <1>4, <1>7
  <2>3. k # "Ingress"
    OBVIOUS
  <2> QED
    BY <1>1, <1>7, <2>1, <2>2, <2>3, StepStore
<1> QED
  BY <1>2, <1>5, <1>6, <1>7

(* The Middlewares, first upgraded and then ensured.                         *)
LEMMA StepMiddlewares ==
  ASSUME IInv, UpgradeExistingAuthMiddleware \/ ReconcileStripMiddleware
                 \/ ReconcileForwardAuthMiddleware
  PROVE  IInv'
<1>1. w.pc \in {"upgradeAuth", "Strip", "Auth"} /\ w.pc \in Placing
  BY ZenonT(30) DEF UpgradeExistingAuthMiddleware, ReconcileStripMiddleware,
         ReconcileForwardAuthMiddleware, Placing, Routed
<1>2. Chosen \in Slugs /\ Me \in Uids /\ w.pc # "idle"
  BY <1>1, ChosenType
<1>3. Allowed(w.pc)
  BY NowAllowed
<1>4. Chosen \in DataOf("Strip") /\ <<Me, Chosen>> \in DataOf("Auth") /\ <<Me, Chosen>>[1] = Me
  BY <1>2 DEF DataOf
<1>5. CASE UpgradeExistingAuthMiddleware
  <2>1. SelectSlug(w.o) # Refused
    BY <1>1, <1>3 DEF Allowed
  <2>2. Allowed(Gate(w.o)) /\ Gate(w.o) \in Steps \ {"idle", "Ingress"}
    BY <1>2, <2>1, GateAllowed
  <2> QED
    BY <1>2, <1>4, <1>5, <2>2, StepMiddleware, ZenonT(30) DEF UpgradeExistingAuthMiddleware
<1>6. CASE ReconcileStripMiddleware
  <2>1. Allowed("Auth") /\ "Auth" \in Steps \ {"idle", "Ingress"}
    BY <1>3, <1>6, ZenonT(30) DEF Allowed, Placing, Routed, Steps, ReconcileStripMiddleware
  <2> QED
    BY <1>2, <1>4, <1>6, <2>1, StepMiddleware, ZenonT(30) DEF ReconcileStripMiddleware
<1>7. CASE ReconcileForwardAuthMiddleware
  <2>1. w.pc = "Auth" /\ ReconcileMiddleware("Auth", <<Me, Chosen>>, TRUE, "recheck")
    BY <1>7, ZenonT(30) DEF ReconcileForwardAuthMiddleware
  <2>2. /\ live[Here]["Auth"].owner \in {None, Foreign, Me} => Allowed("recheck")
        /\ live[Here]["Ingress"].owner \in {None, Foreign, Me}
        /\ "recheck" \in Steps \ {"idle", "Ingress"}
    BY <1>3, <2>1, ZenonT(30) DEF Allowed, Placing, Routed, Steps
  <2> QED
    BY <1>2, <1>4, <2>1, <2>2, StepMiddleware, ZenonT(30)
<1> QED
  BY <1>5, <1>6, <1>7

(* The conflict test establishes what the steps after it rely on.            *)
LEMMA StepCheckSlugRoute ==
  ASSUME IInv, CheckSlugRoute
  PROVE  IInv'
<1>1. w.pc \in {"check", "recheck"} /\ w.pc # "idle" /\ w.pc \in Placing /\ w.pc \in Routed
  BY DEF CheckSlugRoute, Placing, Routed
<1>2. Allowed(w.pc) /\ Here \in Names /\ Me \in Uids /\ Me[1] = Here
  BY <1>1, NowAllowed, ZenonT(30) DEF IInv, WorkInv, Instances, Here
<1>3. CASE ~RouteFree(w.o, Chosen)
  BY <1>1, <1>3, StepReject DEF CheckSlugRoute
<1>4. CASE RouteFree(w.o, Chosen)
  <2>1. /\ live[Here]["Ingress"].owner \in {None, Me}
        /\ \A n \in Names : \/ live[n]["Ingress"].owner \in {None, Me}
                           \/ ~Overlap(live[n]["Ingress"].data, Chosen)
    BY <1>4, ZenonT(30) DEF RouteFree, IngressConflicts, Here, Me
  <2>2. ASSUME NEW m \in Names \ {Here}, Serves(m)
        PROVE  ~Overlap(live[m]["Ingress"].data, Chosen)
    <3>1. Placed(m, "Ingress", live[m]["Ingress"])
      BY DEF IInv, LiveInv, Kinds, Cached
    <3>2. live[m]["Ingress"].owner # Me
      BY <1>2, <3>1 DEF Placed
    <3> QED
      BY <2>1, <2>2, <3>2 DEF Serves
  <2>3. PICK next \in {"Ingress", "cleanup", "Deployment"} :
          Proceed(next) /\ (next = "Ingress" => w.pc = "recheck")
    BY <1>4 DEF CheckSlugRoute
  <2>4. Allowed(next) /\ next \in Steps \ {"idle"}
    BY <1>1, <1>2, <2>1, <2>2, <2>3, ZenonT(30) DEF Allowed, Steps
  <2> QED
    BY <1>1, <2>3, <2>4, StepProceed
<1> QED
  BY <1>3, <1>4

(* The instance read back is another one, or the pass ends.                  *)
LEMMA StepReadBack ==
  ASSUME IInv, ReadBack
  PROVE  IInv'
<1>1. w.pc # "idle" /\ UNCHANGED <<policy, obj, budget, live, cache, other>>
  BY DEF ReadBack, UnchangedRoute
<1>2. Reject \/ w' = Idle
  BY DEF ReadBack, Reject
<1>3. CASE Reject
  BY <1>1, <1>3, StepReject
<1>4. CASE w' = Idle
  BY <1>1, <1>4, StepGiveUp DEF IInv, RestInv
<1> QED
  BY <1>2, <1>3, <1>4

(* The own route goes.                                                       *)
LEMMA StepRejectSlug ==
  ASSUME IInv, RejectSlug
  PROVE  IInv'
<1>1. /\ w.pc # "idle" /\ Go("rejectStatus")
      /\ UNCHANGED <<policy, obj, cache, other, budget>>
      /\ \/ live' = [live EXCEPT ![Here]["Ingress"] = Absent]
         \/ live' = live
  BY DEF RejectSlug
<1>2. /\ "rejectStatus" \in Steps \ {"idle"} /\ "rejectStatus" \notin Placing
      /\ "rejectStatus" \notin Routed /\ "Ingress" \in Kinds
  BY DEF Steps, Placing, Routed, Kinds, Cached
<1>3. WorkInv' /\ w'.pc = "rejectStatus"
  BY <1>1, <1>2, PassGoesOn DEF IInv
<1>4. RouteInv'
  BY <1>2, <1>3 DEF RouteInv
<1>5. Here \in Names
  BY DEF IInv, WorkInv, Instances, Here
<1>6. LiveInv' /\ GuardInv'
  BY <1>1, <1>2, <1>5, SpotCleared, Untouched DEF IInv
<1>7. RestInv' /\ CacheInv' /\ ObjInv'
  BY <1>1, CacheUntouched DEF IInv, RestInv, ObjInv
<1> QED
  BY <1>3, <1>4, <1>6, <1>7 DEF IInv

(* A pass begins with a copy of the stored instance.                         *)
LEMMA StepReconcile ==
  ASSUME IInv, NEW n \in Names, Reconcile(n)
  PROVE  IInv'
<1> DEFINE o == obj[n]
           next == IF o.deleting THEN "release"
                   ELSE IF SelectSlug(o) = Refused THEN "reject"
                   ELSE IF o.byoc THEN Gate(o) ELSE "upgradeAuth"
<1>1. /\ w' = [pc |-> next, o |-> o, fresh |-> TRUE] /\ o.exists
      /\ UNCHANGED <<policy, obj, budget, live, cache, other>>
  BY DEF Reconcile, UnchangedRoute
<1>2. o \in Instances /\ o.name = n /\ o.uid \in Uids /\ o.uid[1] = n /\ o.uid[2] \in Nat
  <2>1. MaxUid \in Nat
    BY RouteAssumption, ZenonT(30)
  <2>2. o \in Instances /\ WellKept(n, o)
    BY DEF IInv, ObjInv
  <2>3. \A u \in Uids : u[2] \in Nat
    BY <2>1 DEF Uids
  <2> QED
    BY <1>1, <2>2, <2>3, ZenonT(30) DEF WellKept
<1>3. /\ next \in {"release", "reject", "upgradeAuth", "settings", "finalizer", "persist",
                   "byoc", "check"}
      /\ next \notin {"release", "reject"} => SelectSlug(o) # Refused
      /\ next \in {"byoc", "check"} => o.slug = SelectSlug(o).slug
  BY ZenonT(30) DEF Gate
<1> HIDE DEF next, o
<1>4. /\ next \in Steps \ {"idle"}
      /\ next \in Placing => next \notin {"release", "reject"}
      /\ next \in Routed => next \in {"byoc", "check"}
      /\ next \notin Routed \ {"check", "byoc", "readiness"} /\ next \notin {"recheck", "Ingress"}
  BY <1>3 DEF Steps, Placing, Routed
<1>5. /\ w'.pc = next /\ w'.o = o /\ w'.fresh = TRUE
      /\ w' \in [pc : Steps, o : Instances, fresh : BOOLEAN]
  BY <1>1, <1>2, <1>4, ZenonT(30)
<1>6. Me' = o.uid /\ Here' = n /\ obj'[n] = o
  BY <1>1, <1>2, <1>5, ZenonT(30) DEF Me, Here, o
<1>7. SelectSlug(w.o)' = SelectSlug(o) /\ Chosen' = SelectSlug(o).slug
  BY <1>1, <1>5, ZenonT(30) DEF SelectSlug, Select, Chosen
<1>8. WorkInv'
  <2>1. Me' \in Uids /\ Me'[1] = Here' /\ Me'[2] <= obj'[Here'].uid[2]
    BY <1>2, <1>6
  <2>2. obj'[Here'] = w'.o /\ w'.o.exists
    BY <1>1, <1>5, <1>6, ZenonT(30)
  <2>3. /\ w'.pc \in Placing => SelectSlug(w.o)' # Refused
        /\ w'.pc \in Routed => w'.o.slug = Chosen'
    BY <1>3, <1>4, <1>5, <1>7
  <2> QED
    BY <1>4, <1>5, <2>1, <2>2, <2>3, ZenonT(30) DEF WorkInv
<1>9. RouteInv'
  BY <1>4, <1>5 DEF RouteInv
<1>10. RestInv' /\ CacheInv' /\ ObjInv' /\ LiveInv' /\ GuardInv'
  BY <1>1, Untouched, CacheUntouched DEF IInv, RestInv
<1> QED
  BY <1>8, <1>9, <1>10 DEF IInv

(* The finalizer goes, of whatever instance has the name now.                *)
LEMMA StepReleaseInstance ==
  ASSUME IInv, ReleaseInstance
  PROVE  IInv' /\ KeepsSlugs
<1> DEFINE i == obj[Here]
           o == IF i.exists /\ i.deleting THEN Gone(Here, i.uid[2])
                ELSE [i EXCEPT !.finalizer = FALSE]
<1>1. /\ w' = Idle /\ UNCHANGED <<policy, budget, live, cache, other>>
      /\ obj' = [obj EXCEPT ![Here] = o] /\ Here \in Names
  BY DEF ReleaseInstance, UnchangedRoute, IInv, WorkInv, Instances, Here
<1>2. i \in Instances /\ WellKept(Here, i)
  BY <1>1 DEF IInv, ObjInv
<1> HIDE DEF i
<1>3. o \in Instances /\ o.uid[2] >= i.uid[2] /\ WellKept(Here, o) /\ (o.exists => Follows(Here, o))
  <2>1. i.uid[2] \in 0 .. MaxUid /\ i.uid[2] \in Nat /\ MaxUid \in Nat
    BY <1>2, UidNumber, MaxUidType
  <2>2. CASE i.exists /\ i.deleting
    <3>1. o = Gone(Here, i.uid[2])
      BY <2>2
    <3> HIDE DEF o
    <3>2. /\ o \in Instances /\ o.name = Here /\ o.uid = <<Here, i.uid[2]>> /\ ~o.exists
          /\ o.slug = None /\ o.source = None
      BY <1>1, <2>1, <3>1, GoneType
    <3>3. None \notin {"legacy", "derived"}
      BY NoSource
    <3> QED
      BY <2>1, <3>2, <3>3 DEF WellKept
  <2>3. CASE ~(i.exists /\ i.deleting)
    <3>1. /\ o \in Instances /\ o.uid = i.uid /\ o.name = i.name /\ o.exists = i.exists
          /\ o.created = i.created /\ o.slug = i.slug /\ o.source = i.source
          /\ o.endpoint = i.endpoint
      BY <1>2, <2>3, ZenonT(30) DEF Instances
    <3> HIDE DEF o
    <3>2. WellKept(Here, o)
      BY <1>2, <3>1 DEF WellKept, Advertises
    <3>3. o.exists => Follows(Here, o)
      BY <3>1 DEF Follows, Renamed, i
    <3> QED
      BY <2>1, <3>1, <3>2, <3>3
  <2> QED
    BY <2>2, <2>3
<1> HIDE DEF o
<1>4. ObjInv' /\ LiveInv' /\ GuardInv' /\ KeepsSlugs
  BY <1>1, <1>3, InstanceWritten, ZenonT(30) DEF IInv, i
<1>5. RestInv' /\ CacheInv'
  BY <1>1, CacheUntouched DEF IInv, RestInv
<1> QED
  BY <1>1, <1>4, <1>5, PassEnds DEF IInv

(* Every step of the controller.                                             *)
LEMMA StepController ==
  ASSUME IInv, Controller
  PROVE  IInv'
BY StepReconcile, StepStatus, StepEnsureSlug, StepReadBack, StepRejectSlug,
   StepCheckSlugRoute, StepCleanupTarget, StepWorkload, StepMiddlewares,
   StepReleaseInstance DEF Controller
-----------------------------------------------------------------------------
(* The environment's steps.                                                  *)

(* Objects come and go while the handler is at any step.                     *)
LEMMA SpotClearedMeanwhile ==
  ASSUME IInv, NEW n \in Names, NEW k \in Kinds, NEW x \in {Absent, ForeignObject(k)},
         live' = [live EXCEPT ![n][k] = x], UNCHANGED <<policy, obj, cache, other, w>>,
         budget' \in [names : SUBSET Names, edits : Nat, faults : Nat]
  PROVE  IInv'
<1>1. /\ LiveInv' /\ GuardInv'
      /\ \A m \in Names, j \in Kinds :
           live'[m][j] = live[m][j] \/ live'[m][j].owner \in {None, Foreign}
  BY SpotCleared, ZenonT(30) DEF IInv
<1>2. RestInv' /\ CacheInv' /\ ObjInv'
  BY CacheUntouched DEF IInv, RestInv, ObjInv
<1>3. Me' = Me /\ Here' = Here /\ Chosen' = Chosen /\ SelectSlug(w.o)' = SelectSlug(w.o)
  BY ZenonT(30) DEF Me, Here, Chosen, SelectSlug, Select
<1>4. WorkInv'
  BY <1>3, ZenonT(30) DEF IInv, WorkInv
<1>5. "Auth" \in Kinds /\ "Ingress" \in Kinds /\ Here \in Names
  BY ZenonT(30) DEF Kinds, Cached, IInv, WorkInv, Instances, Here
<1>6. \A m \in Names : Serves(m)' => Serves(m) /\ live'[m]["Ingress"] = live[m]["Ingress"]
  BY <1>1, <1>5 DEF Serves
<1>7. RouteInv'
  <2>1. \A j \in Kinds : live'[Here][j] = live[Here][j] \/ live'[Here][j].owner \in {None, Foreign}
    BY <1>1, <1>5, ZenonT(30)
  <2>2. w.pc \in Routed \ {"check", "byoc", "readiness"} =>
          live'[Here]["Ingress"].owner \in {None, Foreign, Me}
    BY <1>5, <2>1, ZenonT(30) DEF IInv, RouteInv
  <2>3. w.pc \in {"recheck", "Ingress"} => live'[Here]["Auth"].owner \in {None, Foreign, Me}
    BY <1>5, <2>1, ZenonT(30) DEF IInv, RouteInv
  <2>4. w.pc = "Ingress" => \A m \in Names \ {Here} :
          Serves(m)' => ~Overlap(live'[m]["Ingress"].data, Chosen)
    BY <1>6, ZenonT(30) DEF IInv, RouteInv
  <2> QED
    BY <1>3, <2>2, <2>3, <2>4, ZenonT(30) DEF RouteInv
<1> QED
  BY <1>1, <1>2, <1>4, <1>7 DEF IInv

(* The budget only shrinks.                                                  *)
LEMMA Spending ==
  ASSUME RestInv, SpendEdit \/ SpendFault
  PROVE  budget' \in [names : SUBSET Names, edits : Nat, faults : Nat]
BY DEF RestInv, SpendEdit, SpendFault

(* An edit of an instance while the handler may be working on it.            *)
LEMMA StepEdit ==
  ASSUME IInv, NEW n \in Names, NEW o \in Instances, WellKept(n, o),
         o.uid[2] >= obj[n].uid[2], o.exists => o.uid[2] > obj[n].uid[2] \/ Follows(n, o),
         EditInstance(n, o), SpendEdit \/ SpendFault
  PROVE  IInv' /\ KeepsSlugs
<1>1. /\ obj' = [obj EXCEPT ![n] = o] /\ w' = [w EXCEPT !.fresh = w.fresh /\ n # Here]
      /\ UNCHANGED <<policy, live, cache, other>>
  BY DEF EditInstance, UnchangedRoute
<1>2. ObjInv' /\ LiveInv' /\ GuardInv' /\ KeepsSlugs
  BY <1>1, InstanceWritten, ZenonT(30) DEF IInv
<1>3. RestInv' /\ CacheInv'
  BY <1>1, Spending, CacheUntouched DEF IInv, RestInv
<1>4. /\ w \in [pc : Steps, o : Instances, fresh : BOOLEAN] /\ Here \in Names
      /\ obj \in [Names -> Instances]
  BY ZenonT(30) DEF IInv, WorkInv, ObjInv, Instances, Here
<1>5. /\ w'.pc = w.pc /\ w'.o = w.o /\ (w'.fresh <=> w.fresh /\ n # Here)
      /\ w' \in [pc : Steps, o : Instances, fresh : BOOLEAN]
  BY <1>1, <1>4, ZenonT(30)
<1>6. /\ Me' = Me /\ Here' = Here /\ Chosen' = Chosen /\ SelectSlug(w.o)' = SelectSlug(w.o)
      /\ obj'[Here] = IF n = Here THEN o ELSE obj[Here]
  <2>1. Me' = Me /\ Here' = Here
    BY <1>5 DEF Me, Here
  <2>2. SelectSlug(w.o)' = SelectSlug(w.o)
    BY <1>1, <1>5, ZenonT(30) DEF SelectSlug, Select
  <2>3. Chosen' = Chosen
    BY <2>2, ZenonT(30) DEF Chosen
  <2>4. obj'[Here] = IF n = Here THEN o ELSE obj[Here]
    BY <1>1, <1>4
  <2> QED
    BY <2>1, <2>2, <2>3, <2>4, ZenonT(30)
<1>7. \A i \in Instances : i.uid[2] \in Nat
  BY UidNumber, ZenonT(30)
<1>8. obj[Here].uid[2] \in Nat /\ o.uid[2] \in Nat /\ Me[2] \in Nat
  BY <1>4, <1>7, ZenonT(30) DEF Me
<1>9. w.pc # "idle" => Me[2] <= obj[Here].uid[2]
  BY ZenonT(30) DEF IInv, WorkInv
<1>10. w.pc # "idle" => Me[2] <= obj'[Here].uid[2]
  <2>1. CASE n = Here
    <3>1. \A a, b, c \in Nat : a <= b /\ c >= b => a <= c
      OBVIOUS
    <3> QED
      BY <1>6, <1>8, <1>9, <2>1, <3>1, ZenonT(30)
  <2>2. CASE n # Here
    BY <1>6, <1>9, <2>2, ZenonT(30)
  <2> QED
    BY <2>1, <2>2
<1>11. ASSUME w.pc # "idle", obj'[Here].exists, obj'[Here].uid = Me, w.o.slug # None
       PROVE  obj'[Here].slug = w.o.slug
  <2>1. obj[Here].exists /\ obj[Here].uid = Me => obj[Here].slug = w.o.slug
    BY <1>11, ZenonT(30) DEF IInv, WorkInv
  <2>2. CASE n # Here
    BY <1>6, <1>11, <2>1, <2>2
  <2>3. CASE n = Here
    <3>1. obj'[Here] = o
      BY <1>6, <2>3, ZenonT(30)
    <3>2. Follows(n, o)
      <4>1. o.exists /\ o.uid[2] <= obj[n].uid[2]
        BY <1>9, <1>11, <2>3, <3>1, ZenonT(30)
      <4>2. ~(o.uid[2] > obj[n].uid[2])
        <5>1. \A a, b \in Nat : a <= b => ~(a > b)
          OBVIOUS
        <5> QED
          BY <1>8, <2>3, <4>1, <5>1, ZenonT(30)
      <4> QED
        BY <4>1, <4>2, ZenonT(30)
    <3> QED
      BY <1>11, <2>1, <2>3, <3>1, <3>2, ZenonT(30) DEF Follows
  <2> QED
    BY <2>2, <2>3, ZenonT(30)
<1>12. WorkInv'
  <2>1. /\ w.pc = "idle" => ~w.fresh
        /\ w.pc # "idle" => Me \in Uids /\ Me[1] = Here
        /\ w.fresh => obj[Here] = w.o /\ w.o.exists
        /\ w.pc \in Placing => SelectSlug(w.o) # Refused
        /\ w.pc \in Routed => w.o.slug = Chosen
    BY ZenonT(30) DEF IInv, WorkInv
  <2> QED
    BY <1>5, <1>6, <1>10, <1>11, <2>1, ZenonT(30) DEF WorkInv
<1>13. RouteInv'
  BY <1>1, <1>5, <1>6 DEF IInv, RouteInv, Serves
<1> QED
  BY <1>2, <1>3, <1>12, <1>13, ZenonT(30) DEF IInv

(* The edits: fields of the specification, the finalizer, and deletion.      *)
LEMMA StepChange ==
  ASSUME IInv, NEW n \in Names,
         SetModel(n) \/ SetModelSettings(n) \/ SetClusterRef(n) \/ DeleteInstance(n)
           \/ StripFinalizer(n)
  PROVE  IInv' /\ KeepsSlugs
<1> DEFINE i == obj[n]
           Edited(o) == \/ o = [i EXCEPT !.model = @ + 1] \/ o = [i EXCEPT !.valid = ~@]
                        \/ o = [i EXCEPT !.byoc = ~@] \/ o = [i EXCEPT !.deleting = TRUE]
                        \/ o = [i EXCEPT !.finalizer = FALSE]
<1>1. (SpendEdit \/ SpendFault) /\ \E o : EditInstance(n, o) /\ (o = Gone(n, i.uid[2]) \/ Edited(o))
  BY DEF SetModel, SetModelSettings, SetClusterRef, DeleteInstance, StripFinalizer
<1>2. PICK o : EditInstance(n, o) /\ (o = Gone(n, i.uid[2]) \/ Edited(o))
  BY <1>1
<1>3. i \in Instances /\ WellKept(n, i)
  BY DEF IInv, ObjInv
<1> HIDE DEF i
<1>4. i.uid[2] \in 0 .. MaxUid /\ i.uid[2] \in Nat
  BY <1>3, UidNumber, ZenonT(30)
<1>5. CASE o = Gone(n, i.uid[2])
  <2>1. /\ o \in Instances /\ o.name = n /\ o.uid = <<n, i.uid[2]>> /\ ~o.exists
        /\ o.slug = None /\ o.source = None
    BY <1>4, <1>5, GoneType, ZenonT(30)
  <2>2. None \notin {"legacy", "derived"}
    BY NoSource
  <2>3. o.uid[1] = n /\ o.uid[2] = i.uid[2]
    BY <2>1
  <2>4. o.uid[2] >= i.uid[2]
    BY <1>4, <2>3
  <2>5. (o.slug = None <=> o.source = None) /\ o.source # "derived"
    BY <2>1, <2>2
  <2>6. WellKept(n, o)
    BY <2>1, <2>3, <2>5, ZenonT(30) DEF WellKept
  <2> QED
    BY <1>1, <1>2, <2>1, <2>4, <2>6, StepEdit DEF i
<1>6. CASE Edited(o)
  <2>1. /\ o \in Instances /\ o.uid = i.uid /\ o.name = i.name /\ o.exists = i.exists
        /\ o.created = i.created /\ o.slug = i.slug /\ o.source = i.source
        /\ o.endpoint = i.endpoint
    <3>1. i.model + 1 \in Nat /\ (~i.valid) \in BOOLEAN /\ (~i.byoc) \in BOOLEAN
      BY <1>3 DEF Instances
    <3>2. CASE o = [i EXCEPT !.model = i.model + 1]
      BY <1>3, <3>1, <3>2 DEF Instances
    <3>3. CASE o = [i EXCEPT !.valid = ~i.valid]
      BY <1>3, <3>1, <3>3, ZenonT(30) DEF Instances
    <3>4. CASE o = [i EXCEPT !.byoc = ~i.byoc]
      BY <1>3, <3>1, <3>4, ZenonT(30) DEF Instances
    <3>5. CASE o = [i EXCEPT !.deleting = TRUE] \/ o = [i EXCEPT !.finalizer = FALSE]
      BY <1>3, <3>5, ZenonT(30) DEF Instances
    <3> QED
      BY <1>6, <3>2, <3>3, <3>4, <3>5
  <2>2. WellKept(n, o) /\ o.uid[2] >= i.uid[2]
    <3>1. o.uid[2] >= i.uid[2]
      BY <1>4, <2>1
    <3>2. WellKept(n, o)
      BY <1>3, <2>1, ZenonT(30) DEF WellKept, Advertises
    <3> QED
      BY <3>1, <3>2
  <2>3. o.exists => Follows(n, o)
    BY <2>1, ZenonT(30) DEF Follows, Renamed, i
  <2> HIDE DEF Edited
  <2> QED
    BY <1>1, <1>2, <2>1, <2>2, <2>3, StepEdit, ZenonT(30) DEF i
<1> QED
  BY <1>2, <1>5, <1>6

(* A new instance has a UID that no object refers to.                        *)
LEMMA StepCreateInstance ==
  ASSUME IInv, NEW n \in Names, CreateInstance(n)
  PROVE  IInv' /\ KeepsSlugs
<1> DEFINE k == obj[n].uid[2] + 1
           o == [Gone(n, k) EXCEPT !.exists = TRUE]
<1>1. SpendEdit /\ EditInstance(n, o) /\ obj[n].uid[2] < MaxUid
  BY DEF CreateInstance
<1>2. obj[n].uid[2] \in Nat /\ MaxUid \in Nat
  <2>1. obj[n] \in Instances
    BY ZenonT(30) DEF IInv, ObjInv
  <2> QED
    BY <2>1, UidNumber, MaxUidType, ZenonT(30)
<1>3. k \in 0 .. MaxUid /\ k > obj[n].uid[2] /\ k > 0
  BY <1>1, <1>2
<1> HIDE DEF k
<1>4. <<n, k>> \in Uids /\ <<n, k>>[1] = n /\ <<n, k>>[2] = k
  BY <1>3, UidTypes
<1>5. Gone(n, k) \in Instances
  BY <1>3, GoneType
<1>6. /\ o \in Instances /\ o.name = n /\ o.uid = <<n, k>> /\ o.slug = None /\ o.source = None
      /\ o.endpoint = None
  BY <1>3, <1>5, GoneType, ZenonT(30) DEF Instances
<1> HIDE DEF o
<1>7. None \notin {"legacy", "derived"}
  BY NoSource
<1>8. WellKept(n, o)
  BY <1>4, <1>6, <1>7 DEF WellKept, Advertises
<1>9. o.uid[2] > obj[n].uid[2] /\ o.uid[2] >= obj[n].uid[2]
  BY <1>2, <1>3, <1>4, <1>6
<1> QED
  BY <1>1, <1>6, <1>8, <1>9, StepEdit, ZenonT(30)

(* The worker goes on as if nothing had happened.                            *)
LEMMA WorkUntouched ==
  ASSUME IInv, UNCHANGED <<policy, obj, w>>
  PROVE  WorkInv' /\ Me' = Me /\ Here' = Here /\ Chosen' = Chosen
<1>1. Me' = Me /\ Here' = Here /\ Chosen' = Chosen /\ SelectSlug(w.o)' = SelectSlug(w.o)
  BY ZenonT(30) DEF Me, Here, Chosen, SelectSlug, Select
<1> QED
  BY <1>1, ZenonT(30) DEF IInv, WorkInv

(* Neither do the routes change.                                             *)
LEMMA RouteUntouched ==
  ASSUME IInv, UNCHANGED <<policy, obj, live, w>>
  PROVE  ObjInv' /\ LiveInv' /\ GuardInv' /\ WorkInv' /\ RouteInv'
<1>1. WorkInv' /\ Me' = Me /\ Here' = Here /\ Chosen' = Chosen
  BY WorkUntouched
<1>2. RouteInv'
  BY <1>1, ZenonT(30) DEF IInv, RouteInv, Serves
<1> QED
  BY <1>1, <1>2, Untouched DEF IInv

(* The Deployment is rolled out.                                             *)
LEMMA StepRollOut ==
  ASSUME IInv, NEW n \in Names, RollOut(n)
  PROVE  IInv'
<1> DEFINE d == live[n]["Deployment"]
           x == [d EXCEPT !.data = <<d.data[1], TRUE>>]
<1>1. /\ d # Absent /\ ~d.data[2] /\ live' = [live EXCEPT ![n]["Deployment"].data = <<@[1], TRUE>>]
      /\ UNCHANGED <<policy, obj, cache, other, w, budget>>
  BY DEF RollOut
<1>2. /\ "Deployment" \in Kinds /\ "Auth" \in Kinds /\ "Ingress" \in Kinds
      /\ live \in [Names -> [Kinds -> Objects]] /\ Placed(n, "Deployment", d)
  BY DEF Kinds, Cached, Backend, IInv, LiveInv
<1>3. d \in [owner : Uids, data : Nat \X BOOLEAN]
  <2>1. ForeignObject("Deployment").data[2] = TRUE
    BY DEF ForeignObject, Owned
  <2>2. d \in ObjectsOf("Deployment") /\ d # ForeignObject("Deployment")
    BY <1>1, <1>2, <2>1 DEF Placed
  <2> QED
    BY <1>1, <2>2 DEF ObjectsOf, DataOf
<1>4. live' = [live EXCEPT ![n]["Deployment"] = x]
  BY <1>1, <1>2
<1>5. x \in [owner : Uids, data : Nat \X BOOLEAN] /\ x.owner = d.owner
  <2>1. <<d.data[1], TRUE>> \in Nat \X BOOLEAN
    BY <1>3, ZenonT(30)
  <2> QED
    BY <1>3, <2>1, ZenonT(30)
<1>6. x \in ObjectsOf("Deployment")
  BY <1>5, ZenonT(30) DEF ObjectsOf, DataOf
<1>6a. x \in Objects
  BY <1>2, <1>6, KindsOfObjects
<1> HIDE DEF x
<1>7. /\ live'[n]["Deployment"] = x /\ live' \in [Names -> [Kinds -> Objects]]
      /\ \A m \in Names, j \in Kinds : m # n \/ j # "Deployment" => live'[m][j] = live[m][j]
  BY <1>2, <1>4, <1>6a
<1>8. ASSUME NEW m \in Names, NEW j \in Kinds
      PROVE  Placed(m, j, live[m][j])'
  <2>1. Placed(m, j, live[m][j])
    BY DEF IInv, LiveInv
  <2>2. obj' = obj
    BY <1>1
  <2> QED
    BY <1>5, <1>6, <1>7, <2>1, <2>2, ZenonT(30) DEF Placed
<1>9. LiveInv'
  BY <1>7, <1>8 DEF LiveInv
<1>10. \A m \in Names : /\ live'[m]["Auth"] = live[m]["Auth"]
                        /\ live'[m]["Ingress"] = live[m]["Ingress"]
  BY <1>2, <1>7
<1>11. GuardInv'
  BY <1>1, <1>10, ZenonT(30) DEF IInv, GuardInv, Guarded, Renamed
<1>12. WorkInv' /\ Me' = Me /\ Here' = Here /\ Chosen' = Chosen
  BY <1>1, WorkUntouched
<1>13. Here \in Names
  BY DEF IInv, WorkInv, Instances, Here
<1>14. RouteInv'
  BY <1>1, <1>10, <1>12, <1>13 DEF IInv, RouteInv, Serves
<1>15. RestInv' /\ CacheInv' /\ ObjInv'
  BY <1>1, CacheUntouched DEF IInv, RestInv, ObjInv
<1> QED
  BY <1>9, <1>11, <1>12, <1>14, <1>15 DEF IInv

(* Caches, garbage collector and Deployment controller.                      *)
LEMMA StepOthers ==
  ASSUME IInv, Others
  PROVE  IInv'
<1>1. PICK n \in Names : \/ RollOut(n) \/ \E k \in Cached : SyncCache(n, k)
                         \/ \E k \in Kinds : Collect(n, k)
  BY DEF Others
<1>2. CASE RollOut(n)
  BY <1>2, StepRollOut
<1>3. ASSUME NEW k \in Cached, SyncCache(n, k)
      PROVE  IInv'
  <2>1. /\ cache' = [cache EXCEPT ![n][k] = live[n][k]]
        /\ UNCHANGED <<policy, obj, live, other, w, budget>>
    BY <1>3 DEF SyncCache
  <2>2. k \in Kinds /\ live[n][k] \in ObjectsOf(k)
    BY DEF Kinds, IInv, LiveInv, Placed
  <2>3. live[n][k] \in Objects
    BY <2>2, KindsOfObjects
  <2>4. CacheInv'
    BY <2>1, <2>2, <2>3 DEF IInv, CacheInv
  <2>5. RestInv'
    BY <2>1 DEF IInv, RestInv
  <2> QED
    BY <2>1, <2>4, <2>5, RouteUntouched DEF IInv
<1>4. ASSUME NEW k \in Kinds, Collect(n, k)
      PROVE  IInv'
  <2>1. live' = [live EXCEPT ![n][k] = Absent] /\ UNCHANGED <<policy, obj, cache, other, w, budget>>
    BY <1>4 DEF Collect
  <2> QED
    BY <2>1, SpotClearedMeanwhile, ZenonT(30) DEF IInv, RestInv
<1> QED
  BY <1>1, <1>2, <1>3, <1>4

(* Users.                                                                    *)
LEMMA StepUser ==
  ASSUME IInv, User
  PROVE  IInv'
<1>1. budget.names \subseteq Names
  BY DEF IInv, RestInv
<1>2. ASSUME NEW n \in Names, NEW k \in Kinds, TakeName(n, k) \/ LeaveName(n, k)
      PROVE  IInv'
  <2>1. budget' \in [names : SUBSET Names, edits : Nat, faults : Nat]
    BY <1>2, Spending DEF TakeName, LeaveName, IInv
  <2>2. PICK x \in {Absent, ForeignObject(k)} :
          live' = [live EXCEPT ![n][k] = x] /\ UNCHANGED <<policy, obj, cache, other, w>>
    BY <1>2 DEF TakeName, LeaveName
  <2> QED
    BY <2>1, <2>2, SpotClearedMeanwhile, ZenonT(30)
<1>3. ASSUME NEW r \in OtherRoutes \cup {None}, SetOther(r)
      PROVE  IInv'
  <2>1. /\ UNCHANGED <<policy, obj, live, cache, w>> /\ other' = r
        /\ budget' \in [names : SUBSET Names, edits : Nat, faults : Nat]
    BY <1>3, Spending DEF SetOther, IInv
  <2>2. RestInv' /\ CacheInv'
    BY <2>1, CacheUntouched DEF IInv, RestInv
  <2> QED
    BY <2>1, <2>2, RouteUntouched DEF IInv
<1>4. \/ \E n \in Names : CreateInstance(n)
      \/ \E n \in Names : \/ SetModel(n) \/ SetModelSettings(n) \/ SetClusterRef(n)
                          \/ DeleteInstance(n)
      \/ \E n \in Names, k \in Kinds : TakeName(n, k) \/ LeaveName(n, k)
      \/ \E r \in OtherRoutes \cup {None} : SetOther(r)
  BY <1>1, ZenonT(30) DEF User
<1> QED
  BY <1>2, <1>3, <1>4, StepCreateInstance, StepChange

(* Failing calls, restarts and removed finalizers.                           *)
LEMMA StepFailures ==
  ASSUME IInv, Failures
  PROVE  IInv'
<1>1. CASE CallFails
  <2>1. /\ w.pc # "idle" /\ UNCHANGED <<policy, obj, live, cache, other>>
        /\ budget' \in [names : SUBSET Names, edits : Nat, faults : Nat]
        /\ w' = Idle \/ Go("rejectStatus")
    BY <1>1, Spending DEF CallFails, UnchangedRoute, Go, IInv
  <2>2. CASE w' = Idle
    BY <2>1, <2>2, StepGiveUp
  <2>3. CASE Go("rejectStatus")
    <3>1. /\ "rejectStatus" \in Steps \ {"idle"} /\ "rejectStatus" \notin Placing
          /\ "rejectStatus" \notin Routed
      BY DEF Steps, Placing, Routed
    <3>2. WorkInv' /\ w'.pc = "rejectStatus"
      BY <2>1, <2>3, <3>1, PassGoesOn DEF IInv
    <3>3. RouteInv'
      BY <3>1, <3>2 DEF RouteInv
    <3>4. RestInv' /\ CacheInv'
      BY <2>1, CacheUntouched DEF IInv, RestInv
    <3> QED
      BY <2>1, <3>2, <3>3, <3>4, Untouched DEF IInv
  <2> QED
    BY <2>1, <2>2, <2>3
<1>2. ASSUME NEW p \in Policies, Restart(p)
      PROVE  IInv'
  <2>1. /\ policy' = p /\ w' = Idle /\ UNCHANGED <<obj, live, other>>
        /\ cache' = [n \in Names |-> [k \in Cached |-> live[n][k]]]
        /\ budget' \in [names : SUBSET Names, edits : Nat, faults : Nat]
    BY <1>2, Spending DEF Restart, IInv
  <2>2. \A n \in Names, k \in Cached : live[n][k] \in ObjectsOf(k)
    BY DEF IInv, LiveInv, Placed, Kinds
  <2>3. \A n \in Names, k \in Cached : live[n][k] \in Objects
    BY <2>2, KindsOfObjects DEF Kinds
  <2>4. CacheInv'
    BY <2>1, <2>2, <2>3 DEF CacheInv
  <2>5. RestInv'
    BY <2>1 DEF IInv, RestInv
  <2> QED
    BY <2>1, <2>4, <2>5, PassEnds, Untouched DEF IInv
<1> QED
  BY <1>1, <1>2, StepChange DEF Failures

(* The invariant is inductive.                                               *)
LEMMA StepNext ==
  ASSUME IInv, [Next]_vars
  PROVE  IInv'
<1>1. CASE UNCHANGED vars
  <2>1. UNCHANGED <<policy, obj, live, cache, other, w, budget>>
    BY <1>1 DEF vars
  <2>2. RestInv' /\ CacheInv'
    BY <2>1, CacheUntouched DEF IInv, RestInv
  <2> QED
    BY <2>1, <2>2, RouteUntouched DEF IInv
<1> QED
  BY <1>1, StepController, StepOthers, StepUser, StepFailures DEF Next

(* Instances of the earlier version, and their objects.                      *)
LEMMA UpgradedType ==
  ASSUME NEW n \in Names, NEW s \in OldSlugs(n)
  PROVE  /\ Upgraded(n, s) \in Instances /\ WellKept(n, Upgraded(n, s))
         /\ Upgraded(n, s).uid = <<n, 1>> /\ Upgraded(n, s).slug = None
         /\ Upgraded(n, s).created = 1
         /\ \A k \in Kinds : /\ UpgradedObject(n, s, k) \in ObjectsOf(k)
                             /\ UpgradedObject(n, s, k).owner = <<n, 1>>
         /\ UpgradedObject(n, s, "Auth").data[1] = None
         /\ UpgradedObject(n, s, "Ingress").data = s
<1>1. 1 \in 0 .. MaxUid /\ 0 \in Nat
  BY MaxUidType
<1>2. <<n, 1>> \in Uids /\ <<n, 1>>[1] = n /\ s \in Slugs
  BY <1>1, UidTypes, OldSlugType
<1>3. Gone(n, 1) \in Instances
  BY <1>1, GoneType
<1> DEFINE o == Upgraded(n, s)
<1>4. /\ o \in Instances /\ o.name = n /\ o.uid = <<n, 1>> /\ o.slug = None /\ o.source = None
      /\ o.endpoint = s /\ o.created = 1
  <2> DEFINE g == Gone(n, 1)
  <2>1. /\ g \in Instances /\ g.name = n /\ g.uid = <<n, 1>> /\ g.slug = None
        /\ g.source = None
    BY <1>1, <1>3, GoneType
  <2>2. o = [g EXCEPT !.exists = TRUE, !.created = 1, !.finalizer = TRUE,
                      !.endpoint = s, !.ready = TRUE]
    BY DEF Upgraded
  <2> HIDE DEF g, o
  <2>3. 1 \in 1 .. 2 /\ s \in Slugs \cup {None, Remote}
    BY <1>2
  <2>4. o \in Instances
    BY <2>1, <2>2, <2>3, ZenonT(30) DEF Instances
  <2>5. o.endpoint = s /\ o.created = 1
    BY <2>1, <2>2 DEF Instances
  <2> QED
    BY <2>1, <2>2, <2>4, <2>5 DEF Instances
<1> HIDE DEF o
<1>5. None \notin {"legacy", "derived"}
  BY NoSource
<1>6. WellKept(n, o)
  BY <1>2, <1>4, <1>5 DEF WellKept, Advertises
<1>7. ASSUME NEW k \in Kinds
      PROVE  /\ UpgradedObject(n, s, k) \in ObjectsOf(k)
             /\ UpgradedObject(n, s, k).owner = <<n, 1>>
  BY <1>2, ZenonT(30) DEF UpgradedObject, ObjectsOf, Owned, DataOf, Kinds, Cached, Backend
<1>8. /\ UpgradedObject(n, s, "Auth").data[1] = None
      /\ UpgradedObject(n, s, "Ingress").data = s
  BY DEF UpgradedObject, Owned
<1> QED
  BY <1>4, <1>6, <1>7, <1>8, ZenonT(30) DEF o

(* The invariant holds after an upgrade, and without one.                    *)
LEMMA InitInv ==
  ASSUME Init
  PROVE  IInv
<1> DEFINE s(n) == CHOOSE x \in OldSlugs(n) : TRUE
<1>1. PICK old \in SUBSET {n \in budget.names : OldSlugs(n) # {}} :
        /\ obj = [n \in Names |-> IF n \in old THEN Upgraded(n, s(n)) ELSE Gone(n, 0)]
        /\ live = [n \in Names |-> [k \in Kinds |->
                     IF n \in old THEN UpgradedObject(n, s(n), k) ELSE Absent]]
  BY ZenonT(30) DEF Init
<1>2. /\ policy \in Policies /\ budget \in Budgets /\ other = None /\ w = Idle
      /\ cache = [n \in Names |-> [k \in Cached |-> live[n][k]]]
  BY ZenonT(30) DEF Init
<1>3. RestInv
  <2>1. Budgets \subseteq [names : SUBSET Names, edits : Nat, faults : Nat]
    BY RouteAssumption
  <2> QED
    BY <1>2, <2>1 DEF RestInv
<1>4. \A n \in old : n \in Names /\ s(n) \in OldSlugs(n)
  BY <1>3 DEF RestInv
<1> HIDE DEF s
<1>5. None \notin {"legacy", "derived"} /\ None \notin Uids /\ Foreign # None /\ MaxUid \in Nat
  BY RouteAssumption
<1>6. ASSUME NEW n \in Names, n \notin old
      PROVE  /\ obj[n] = Gone(n, 0) /\ obj[n] \in Instances /\ WellKept(n, obj[n]) /\ ~obj[n].exists
             /\ \A k \in Kinds : live[n][k] = Absent
  <2>1. obj[n] = Gone(n, 0) /\ \A k \in Kinds : live[n][k] = Absent
    BY <1>1, <1>6, ZenonT(30)
  <2>2. 0 \in 0 .. MaxUid
    BY <1>5
  <2>3. /\ Gone(n, 0) \in Instances /\ Gone(n, 0).name = n /\ Gone(n, 0).uid = <<n, 0>>
        /\ ~Gone(n, 0).exists /\ Gone(n, 0).slug = None /\ Gone(n, 0).source = None
    BY <2>2, GoneType, ZenonT(30)
  <2>4. <<n, 0>>[1] = n
    OBVIOUS
  <2>5. WellKept(n, Gone(n, 0))
    BY <1>5, <2>3, <2>4, ZenonT(30) DEF WellKept
  <2> QED
    BY <2>1, <2>3, <2>5, ZenonT(30)
<1>7. ASSUME NEW n \in Names, n \in old
      PROVE  /\ obj[n] \in Instances /\ WellKept(n, obj[n])
             /\ obj[n].uid = <<n, 1>> /\ obj[n].slug = None /\ obj[n].created = 1
             /\ \A k \in Kinds : live[n][k] \in ObjectsOf(k) /\ live[n][k].owner = <<n, 1>>
             /\ live[n]["Auth"].data[1] = None /\ live[n]["Ingress"].data \in OldSlugs(n)
  <2>1. /\ obj[n] = Upgraded(n, s(n)) /\ s(n) \in OldSlugs(n)
        /\ \A k \in Kinds : live[n][k] = UpgradedObject(n, s(n), k)
    BY <1>1, <1>4, <1>7, ZenonT(30)
  <2>2. "Auth" \in Kinds /\ "Ingress" \in Kinds
    BY ZenonT(30) DEF Kinds, Cached
  <2>3. /\ Upgraded(n, s(n)) \in Instances /\ WellKept(n, Upgraded(n, s(n)))
        /\ Upgraded(n, s(n)).uid = <<n, 1>> /\ Upgraded(n, s(n)).slug = None
        /\ Upgraded(n, s(n)).created = 1
    BY <2>1, UpgradedType, ZenonT(30)
  <2>4. /\ \A k \in Kinds : /\ UpgradedObject(n, s(n), k) \in ObjectsOf(k)
                            /\ UpgradedObject(n, s(n), k).owner = <<n, 1>>
        /\ UpgradedObject(n, s(n), "Auth").data[1] = None
        /\ UpgradedObject(n, s(n), "Ingress").data = s(n)
    BY <2>1, UpgradedType, ZenonT(30)
  <2>5. /\ \A k \in Kinds : live[n][k] \in ObjectsOf(k) /\ live[n][k].owner = <<n, 1>>
        /\ live[n]["Auth"].data[1] = None /\ live[n]["Ingress"].data = s(n)
    BY <2>1, <2>2, <2>4
  <2> QED
    BY <2>1, <2>3, <2>5, ZenonT(30)
<1>8. ObjInv
  BY <1>1, <1>6, <1>7, ZenonT(30) DEF ObjInv
<1>9. ASSUME NEW n \in Names, NEW k \in Kinds
      PROVE  Placed(n, k, live[n][k])
  <2>1. CASE n \in old
    <3>1. 1 <= 1 /\ <<n, 1>>[1] = n /\ <<n, 1>>[2] = 1
      OBVIOUS
    <3> QED
      BY <1>7, <2>1, <3>1, ZenonT(30) DEF Placed
  <2>2. CASE n \notin old
    BY <1>5, <1>6, <2>2, AbsentObjects, ZenonT(30) DEF Placed
  <2> QED
    BY <2>1, <2>2, ZenonT(30)
<1>10. LiveInv
  <2>1. \A n \in Names, k \in Kinds : live[n][k] \in Objects
    BY <1>9, KindsOfObjects DEF Placed
  <2>2. live \in [Names -> [Kinds -> Objects]]
    BY <1>1, <2>1, ZenonT(30)
  <2> QED
    BY <1>9, <2>2, ZenonT(30) DEF LiveInv
<1>11. ASSUME NEW n \in Names
       PROVE  Guarded(n)
  <2>1. "Auth" \in Kinds /\ "Ingress" \in Kinds
    BY DEF Kinds, Cached
  <2>2. CASE n \in old
    BY <1>7, <2>1, <2>2, ZenonT(30) DEF Guarded
  <2>3. CASE n \notin old
    <3>1. live[n]["Auth"].owner = None
      BY <1>6, <2>1, <2>3, AbsentObjects, ZenonT(30)
    <3> QED
      BY <1>5, <1>6, <2>3, <3>1, ZenonT(30) DEF Guarded
  <2> QED
    BY <2>2, <2>3
<1>12. CacheInv
  <2>1. \A n \in Names, k \in Cached : live[n][k] \in ObjectsOf(k)
    BY <1>9 DEF Placed, Kinds
  <2>2. \A n \in Names, k \in Cached : live[n][k] \in Objects
    BY <2>1, KindsOfObjects DEF Kinds
  <2> QED
    BY <1>2, <2>1, <2>2, ZenonT(30) DEF CacheInv
<1>13. WorkInv /\ RouteInv
  <2>1. w.pc = "idle" /\ w.fresh = FALSE /\ w \in [pc : Steps, o : Instances, fresh : BOOLEAN]
    BY <1>2, IdleType
  <2>2. "idle" \notin Placing /\ "idle" \notin Routed
    BY DEF Placing, Routed
  <2> QED
    BY <2>1, <2>2, ZenonT(30) DEF WorkInv, RouteInv
<1> QED
  BY <1>3, <1>8, <1>10, <1>11, <1>12, <1>13 DEF IInv, GuardInv

(* The invariant holds in every reachable state.                             *)
LEMMA Invariance == Spec => []IInv
BY InitInv, StepNext, PTL DEF Spec
-----------------------------------------------------------------------------
(* The theorems.                                                             *)

(* Type correctness: every step of the handler and of its environment stores *)
(* only objects and statuses of the intended form.                           *)
THEOREM TypeCorrect == Spec => []TypeOK
<1>1. IInv => TypeOK
  <2> SUFFICES ASSUME IInv PROVE TypeOK
    OBVIOUS
  <2>1. \A n \in Names : /\ obj[n].name = n /\ obj[n].uid[1] = n
                        /\ (obj[n].slug = None) = (obj[n].source = None)
    BY DEF IInv, ObjInv, WellKept
  <2>2. \A n \in Names, k \in Kinds : live[n][k] \in ObjectsOf(k)
    BY DEF IInv, LiveInv, Placed
  <2> QED
    BY <2>1, <2>2, ZenonT(30) DEF TypeOK, IInv, RestInv, ObjInv, CacheInv, WorkInv
<1> QED
  BY <1>1, Invariance, PTL

(* Requests that pass the auth server reach the instance they were checked   *)
(* against (authorize, checkSlugRoute, reconcileIngress), for any number of  *)
(* instances and any reviewed policies.                                      *)
THEOREM RequestsReachTheirInstance == Spec => []RoutesGuarded
<1>1. IInv => RoutesGuarded
  <2> SUFFICES ASSUME IInv PROVE RoutesGuarded
    OBVIOUS
  <2>0. /\ None \notin Uids /\ Foreign \notin Uids /\ None \notin {"legacy", "derived"}
        /\ WellFormed(policy) /\ policy \in Policies
        /\ \A u \in DOMAIN policy.entries : policy.entries[u].slug \in Seq(STRING)
    BY RouteAssumption DEF IInv, RestInv
  <2>1. ASSUME NEW n \in Names, Serves(n), Admits(n)
        PROVE  /\ live[n]["Ingress"].owner = obj[n].uid
               /\ Renamed(n) \/ live[n]["Ingress"].data = obj[n].slug
               /\ obj[n].slug = Select(policy, obj[n]).slug /\ Select(policy, obj[n]) # Refused
               /\ obj[n].uid[1] = n
    <3>1. /\ obj[n].exists /\ live[n]["Auth"].owner \notin {None, Foreign}
          /\ Select(policy, obj[n]) # Refused
          /\ live[n]["Auth"].data = <<obj[n].uid, Select(policy, obj[n]).slug>>
          /\ obj[n].slug = Select(policy, obj[n]).slug
      BY <2>1, ZenonT(30) DEF Admits
    <3>2. obj[n].uid \in Uids /\ obj[n].uid[1] = n
      BY <3>1, ZenonT(30) DEF IInv, ObjInv, WellKept
    <3>3. obj[n].slug # None
      BY <2>0, <3>1, <3>2, SelectType, ZenonT(30)
    <3>4. live[n]["Auth"].owner \in Uids
      <4>1. Placed(n, "Auth", live[n]["Auth"])
        BY DEF IInv, LiveInv, Kinds
      <4>2. live[n]["Auth"] \in {Absent, ForeignObject("Auth")} \cup [owner : Uids, data : DataOf("Auth")]
        BY <4>1 DEF Placed, ObjectsOf
      <4>3. Absent.owner = None /\ ForeignObject("Auth").owner = Foreign
        BY DEF Absent, ForeignObject, Owned
      <4> QED
        BY <3>1, <4>2, <4>3, ZenonT(30)
    <3>5. live[n]["Auth"].data[1] = obj[n].uid
      BY <3>1
    <3>6. Guarded(n)
      BY DEF IInv, GuardInv
    <3>7. live[n]["Ingress"].owner = obj[n].uid
      BY <2>0, <2>1, <3>2, <3>4, <3>5, <3>6, ZenonT(30) DEF Guarded, Serves
    <3> QED
      BY <3>1, <3>2, <3>3, <3>6, <3>7, ZenonT(30) DEF Guarded
  <2>2. ASSUME NEW n \in Names, NEW m \in Names \ {n}, Serves(n), Admits(n), Serves(m), Admits(m),
               ~Renamed(n), ~Renamed(m)
        PROVE  ~Overlap(live[n]["Ingress"].data, live[m]["Ingress"].data)
    <3>1. /\ live[n]["Ingress"].data = Select(policy, obj[n]).slug
          /\ Select(policy, obj[n]) # Refused /\ obj[n].uid[1] = n
      BY <2>1, <2>2, ZenonT(30)
    <3>2. /\ live[m]["Ingress"].data = Select(policy, obj[m]).slug
          /\ Select(policy, obj[m]) # Refused /\ obj[m].uid[1] = m
      BY <2>1, <2>2, ZenonT(30)
    <3>3. obj[n].uid # obj[m].uid
      BY <3>1, <3>2, ZenonT(30)
    <3> QED
      BY <2>0, <3>1, <3>2, <3>3, SelectedDisjoint, ZenonT(30)
  <2> QED
    BY <2>1, <2>2, ZenonT(30) DEF RoutesGuarded
<1> QED
  BY <1>1, Invariance, PTL

(* What a step of the controller may write: one object of its instance, or   *)
(* one that is not there, and an Ingress only after the conflict test.       *)
Writes(k, x) ==
  /\ live' = [live EXCEPT ![Here][k] = x] /\ live[Here][k].owner \in {None, Me}
  /\ k = "Ingress" => x = Absent \/ (w.pc = "Ingress" /\ x = Owned(Me, Chosen))

(* No step of the controller writes anything else.                           *)
LEMMA ControllerWrites ==
  ASSUME Controller
  PROVE  live' = live \/ \E k \in Kinds : \E x : Writes(k, x)
<1> DEFINE Goal == live' = live \/ \E k \in Kinds : \E x : Writes(k, x)
<1>1. Kinds = {"Deployment", "Service", "Ingress", "Strip", "Auth"}
  BY DEF Kinds, Cached, Backend
<1>2. ASSUME NEW k \in Kinds, NEW d, NEW next, Store(k, d, next), live[Here][k].owner \in {None, Me},
             k = "Ingress" => w.pc = "Ingress" /\ d = Chosen
      PROVE  Goal
  <2>1. Writes(k, Owned(Me, d))
    BY <1>2 DEF Store, Writes
  <2> QED
    BY <2>1
<1>3. ASSUME NEW k \in Kinds, NEW as, NEW d, NEW next, ReconcileCached(k, as, d, next),
             k = "Ingress" => d = Chosen
      PROVE  Goal
  <2>1. \/ live' = live
        \/ w.pc = k /\ Store(k, d, next) /\ live[Here][k].owner \in {None, Me}
    BY <1>3, ZenonT(30) DEF ReconcileCached, Reject, Proceed, GiveUp, UnchangedRoute
  <2> QED
    BY <1>2, <1>3, <2>1, ZenonT(30)
<1>4. ASSUME NEW k \in {"Strip", "Auth"}, NEW d, NEW create, NEW next,
             ReconcileMiddleware(k, d, create, next)
      PROVE  Goal
  <2>1. live' = live \/ (Store(k, d, next) /\ live[Here][k].owner \in {None, Me})
    BY <1>4, ZenonT(30) DEF ReconcileMiddleware, Reject, Proceed, UnchangedRoute
  <2> QED
    BY <1>1, <1>2, <2>1, ZenonT(30)
<1>5. CASE RejectSlug
  <2>1. live' = live \/ Writes("Ingress", Absent)
    BY <1>5 DEF RejectSlug, Owns, Writes, Me
  <2> QED
    BY <1>1, <2>1
<1>6. CASE ReconcileDeployment \/ ReconcileService \/ ReconcileIngress
  BY <1>1, <1>3, <1>6, ZenonT(30) DEF ReconcileDeployment, ReconcileService, ReconcileIngress
<1>7. CASE \/ UpgradeExistingAuthMiddleware \/ ReconcileStripMiddleware
           \/ ReconcileForwardAuthMiddleware
  BY <1>4, <1>7, ZenonT(30) DEF UpgradeExistingAuthMiddleware, ReconcileStripMiddleware,
                    ReconcileForwardAuthMiddleware
<1>8. CASE \/ \E n \in Names : Reconcile(n)
           \/ RejectModelSettings \/ EnsureFinalizer \/ EnsureSlug \/ ReadBack \/ RejectStatus
           \/ CheckSlugRoute \/ CleanupTarget \/ ReconcileBYOC \/ EvaluateReadiness
           \/ ReleaseInstance
  BY <1>8 DEF Reconcile, RejectModelSettings, EnsureFinalizer, EnsureSlug, ReadBack,
       RejectStatus, CheckSlugRoute, CleanupTarget, ReconcileBYOC, EvaluateReadiness,
       ReleaseInstance, UpdateStatus, Reject, Proceed, UnchangedRoute
<1> QED
  BY <1>5, <1>6, <1>7, <1>8 DEF Controller

(* The controller changes or deletes no object that its instance does not    *)
(* control, whatever the caches show and whoever has the name meanwhile.     *)
THEOREM NothingElseIsTouched == Spec => OnlyOwnObjects
<1>1. ASSUME IInv, Controller, NEW n \in Names, NEW k \in Kinds, live'[n][k] # live[n][k]
      PROVE  n = Here /\ live[n][k].owner \in {None, Me}
  <2>1. live \in [Names -> [Kinds -> Objects]] /\ Here \in Names
    BY <1>1, ZenonT(30) DEF IInv, LiveInv, WorkInv, Instances, Here
  <2>2. PICK j \in Kinds : \E x : Writes(j, x)
    BY <1>1, ControllerWrites
  <2>3. PICK x : Writes(j, x)
    BY <2>2
  <2>4. n = Here /\ k = j
    BY <1>1, <2>1, <2>3 DEF Writes
  <2> QED
    BY <2>3, <2>4 DEF Writes
<1>2. IInv /\ [Next]_vars =>
        [Controller => \A n \in Names, k \in Kinds : live'[n][k] # live[n][k] =>
           n = Here /\ live[n][k].owner \in {None, Me}]_vars
  BY <1>1, ZenonT(30)
<1> QED
  BY <1>2, Invariance, PTL DEF Spec, OnlyOwnObjects

(* An Ingress that changes: it goes, it is somebody else's, or the handler   *)
(* lays it at the slug it has tested.                                        *)
LEMMA IngressChanges ==
  ASSUME IInv, [Next]_vars, NEW n \in Names
  PROVE  LET x == live'[n]["Ingress"] IN
         \/ x = live[n]["Ingress"] \/ x.owner \in {None, Foreign}
         \/ n = Here /\ w.pc = "Ingress" /\ x.data = Chosen
<1>1. "Ingress" \in Kinds /\ live \in [Names -> [Kinds -> Objects]] /\ Here \in Names
  BY ZenonT(30) DEF IInv, LiveInv, WorkInv, Instances, Here, Kinds, Cached
<1>2. Absent.owner = None /\ Owned(Me, Chosen).data = Chosen
  BY DEF Absent, Owned
<1>3. CASE Controller
  <2>1. CASE live' = live
    BY <2>1
  <2>2. CASE live' # live
    <3>1. PICK k \in Kinds : \E x : Writes(k, x)
      BY <1>3, <2>2, ControllerWrites
    <3>2. PICK x : Writes(k, x)
      BY <3>1
    <3>3. live'[n]["Ingress"] = live[n]["Ingress"] \/ (n = Here /\ k = "Ingress" /\ live'[n]["Ingress"] = x)
      BY <1>1, <3>2 DEF Writes
    <3> QED
      BY <1>2, <3>2, <3>3 DEF Writes
  <2> QED
    BY <2>1, <2>2
<1>4. ASSUME NEW m \in Names, NEW k \in Kinds, TakeName(m, k) \/ LeaveName(m, k) \/ Collect(m, k)
      PROVE  live'[n]["Ingress"] = live[n]["Ingress"] \/ live'[n]["Ingress"].owner \in {None, Foreign}
  <2>1. PICK x \in {Absent, ForeignObject(k)} : live' = [live EXCEPT ![m][k] = x]
    BY <1>4 DEF TakeName, LeaveName, Collect
  <2>2. x.owner \in {None, Foreign}
    BY AbsentObjects
  <2> QED
    BY <1>1, <2>1, <2>2
<1>5. ASSUME NEW m \in Names, RollOut(m)
      PROVE  live'[n]["Ingress"] = live[n]["Ingress"]
  BY <1>1, <1>5 DEF RollOut
<1>6. budget.names \subseteq Names
  BY DEF IInv, RestInv
<1>7. \/ Controller \/ live' = live \/ \E m \in Names : RollOut(m)
      \/ \E m \in Names, k \in Kinds : TakeName(m, k) \/ LeaveName(m, k) \/ Collect(m, k)
  BY <1>6, ZenonT(30) DEF Next, vars, Others, SyncCache, User, CreateInstance, DeleteInstance, SetModel,
       SetModelSettings, SetClusterRef, SetOther, EditInstance, Failures, CallFails, Restart,
       StripFinalizer, UnchangedRoute
<1> QED
  BY <1>3, <1>4, <1>5, <1>7, ZenonT(30)

(* The test of the routes and the creation of one are separate calls, with   *)
(* anything in between; still no route is laid across another instance's.    *)
THEOREM NoRouteAcrossAnother == Spec => NoOverlapCreated
<1> DEFINE Act == \A n, m \in Names :
             /\ n # m /\ live'[n]["Ingress"] # live[n]["Ingress"]
             /\ Serves(n)' /\ Serves(m)
             => ~Overlap(live'[n]["Ingress"].data, live[m]["Ingress"].data)
<1>1. ASSUME IInv, [Next]_vars, NEW n \in Names, NEW m \in Names, n # m,
             live'[n]["Ingress"] # live[n]["Ingress"], Serves(n)', Serves(m)
      PROVE  ~Overlap(live'[n]["Ingress"].data, live[m]["Ingress"].data)
  <2>1. n = Here /\ w.pc = "Ingress" /\ live'[n]["Ingress"].data = Chosen
    BY <1>1, IngressChanges, ZenonT(30) DEF Serves
  <2>2. ~Overlap(live[m]["Ingress"].data, Chosen)
    BY <1>1, <2>1, ZenonT(30) DEF IInv, RouteInv
  <2> QED
    BY <2>1, <2>2, ZenonT(30) DEF Overlap
<1>2. IInv /\ [Next]_vars => [Act]_vars
  BY <1>1, ZenonT(30)
<1> HIDE DEF Act
<1>3. Spec => [][Act]_vars
  BY <1>2, Invariance, PTL DEF Spec
<1> QED
  BY <1>3 DEF Act, NoOverlapCreated

(* Only the writes of InstanceWritten change an instance.                    *)
LEMMA SlugsKept ==
  ASSUME IInv, [Next]_vars
  PROVE  KeepsSlugs
<1>1. obj' = obj => KeepsSlugs
  BY DEF KeepsSlugs
<1>2. CASE Controller
  <2>1. CASE \/ \E n \in Names : Reconcile(n)
             \/ ReadBack \/ RejectSlug \/ CheckSlugRoute
             \/ ReconcileDeployment \/ ReconcileService \/ ReconcileIngress
             \/ UpgradeExistingAuthMiddleware \/ ReconcileStripMiddleware
             \/ ReconcileForwardAuthMiddleware
    <3>1. obj' = obj
      BY <2>1, ZenonT(30) DEF Reconcile, ReadBack, RejectSlug, CheckSlugRoute, ReconcileDeployment,
           ReconcileService, ReconcileIngress, ReconcileCached, UpgradeExistingAuthMiddleware,
           ReconcileStripMiddleware, ReconcileForwardAuthMiddleware, ReconcileMiddleware,
           Store, Reject, Proceed, GiveUp
    <3> QED
      BY <1>1, <3>1
  <2> QED
    BY <1>2, <2>1, StepStatus, StepCleanupTarget, StepEnsureSlug, StepReleaseInstance
       DEF Controller
<1>3. CASE \E n \in Names : \/ CreateInstance(n) \/ DeleteInstance(n) \/ SetModel(n)
                           \/ SetModelSettings(n) \/ SetClusterRef(n) \/ StripFinalizer(n)
  BY <1>3, StepCreateInstance, StepChange
<1>4. budget.names \subseteq Names
  BY DEF IInv, RestInv
<1>5. \/ obj' = obj \/ Controller
      \/ \E n \in Names : \/ CreateInstance(n) \/ DeleteInstance(n) \/ SetModel(n)
                          \/ SetModelSettings(n) \/ SetClusterRef(n) \/ StripFinalizer(n)
  BY <1>4, ZenonT(30) DEF Next, vars, Others, RollOut, SyncCache, Collect, User, SetOther, TakeName,
       LeaveName, Failures, CallFails, Restart
<1> QED
  BY <1>1, <1>2, <1>3, <1>5

(* A recorded slug stays with its instance through restarts with other       *)
(* policies, and the endpoint is never another slug's.                       *)
THEOREM RecordedSlugStays == Spec => SlugKept
<1> DEFINE Act == \A n \in Names :
             obj[n].exists /\ obj[n].slug # None /\ obj'[n].exists /\ obj'[n].uid = obj[n].uid
             => /\ obj'[n].slug = obj[n].slug
                /\ obj'[n].endpoint \in {None, Remote, obj[n].slug}
<1>1. ASSUME IInv, [Next]_vars, NEW n \in Names, obj[n].exists, obj[n].slug # None,
             obj'[n].exists, obj'[n].uid = obj[n].uid
      PROVE  /\ obj'[n].slug = obj[n].slug
             /\ obj'[n].endpoint \in {None, Remote, obj[n].slug}
  <2>1. obj'[n].slug = obj[n].slug
    BY <1>1, SlugsKept DEF KeepsSlugs
  <2>2. IInv'
    BY <1>1, StepNext
  <2>3. WellKept(n, obj[n])'
    BY <2>2 DEF IInv, ObjInv
  <2> QED
    BY <1>1, <2>1, <2>3, ZenonT(30) DEF WellKept, Advertises
<1>2. IInv /\ [Next]_vars => [Act]_vars
  BY <1>1, ZenonT(30)
<1> HIDE DEF Act
<1>3. Spec => [][Act]_vars
  BY <1>2, Invariance, PTL DEF Spec
<1> QED
  BY <1>3 DEF Act, SlugKept
=============================================================================
