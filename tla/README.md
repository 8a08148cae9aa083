# Verification of the Private LLM operator

TLA+ models of the operator in this repository, the TLC runs that check them on
small instances, and TLAPS proofs of their safety properties. Paths are relative to
the repository.

## The system

The operator is one process with two controllers and an HTTP server.

| Part | Source | State | Concurrency |
|---|---|---|---|
| LLMInstance controller | `llminstance_controller.go`, `llminstance_byoc*.go`, `slug_policy.go` | status of the instance (slug, endpoint, recorded BYOC target), finalizer, credentials copy, objects of the workload | one worker; reads the instance and Ingresses from the API server, Secrets through an informer cache |
| APITokenRequest controller | `tokenrequest_controller.go` | finalizer, status and annotations of the request; the token Secret | one worker; reads everything through informer caches |
| auth server | `internal/auth/server.go` | none | one goroutine per request, three separate reads each |
| slug policy | `internal/slugpolicy/policy.go` | immutable after start | none |
| model ceilings, model catalogue | `model_server_ceilings.go`, `llminstance_controller.go` | none | none |
| process | `cmd/main.go` | running or stopping | manager and auth server stop each other |

An LLMInstance is either *hosted* (workload beside the operator, Traefik asks the
auth server about every request) or *BYOC* (workload on a customer cluster named
by a kubeconfig Secret, where the model server accepts the keys of a key file).
An APITokenRequest names an instance and owns a token Secret with a URL and a
key. The sync agent (external) copies that Secret to the consumer when the
request's annotation with the Secret's version changes. Certificates and DNS for
BYOC endpoints are requested from Gardener's controllers (external).

Everything runs on the Kubernetes API: writes are optimistic (a write that
carries an old resourceVersion is refused), caches lag, handlers are repeated
after errors and events, and the process may die between any two calls. Those are
the hazards the models are about; `PROJECT.json` lists them one by one.

## Modules

`TokenRequest` is the APITokenRequest controller: one request, its Secret and the
instances it may name, both on the API server (`tr`, `sec`, `inst`) and in the
caches (`cTr`, `cSec`, `cInst`). A handler is split into actions where it calls the
API server; the worker `w` holds its program counter and locals. `mint` is a history
variable: the audience each key was generated for, an audience being a target (none
for hosted) and an instance UID. Instances change as their controller and their
users change them (`ActivateTarget`, `ReleaseTarget`, `BecomeReady`, ...), in the
order `ByocLifecycle` explains. The initial states include an upgrade that finds a
key from before bindings were recorded (`InitLegacy`).

`CredentialFlow` extends it with the two places where keys are accepted: the auth
server's `authorize` as three steps, and the key file that the LLMInstance
controller builds from its own cached view. `accepted` records which audience
accepted which key.

`ByocLifecycle` is the LLMInstance controller for one instance: finalizer, target
record, credentials copy, objects on the customer clusters and in the operator's
cluster, moves, deletion, and the hosted alternative as a single step. A customer
cluster is an API server and the incarnation behind it, which may be replaced. Each
object is absent, pending, ready or being deleted (`aborted` and `deleting` keep the
readiness the object had, because the code looks at a Service's address and a
Deployment's readiness and not at their deletion marks).

`ByocTLS` refines the life of one managed Certificate: its creation and the later
addition of its UID to the labels of the Secret it fills, issuance by
cert-management, validation, the protected last-valid copy, delivery, renewal,
expiry, revocation and cleanup. Key pairs are numbered; the clock is the number of
the newest pair past its renewal margin.

`InstanceView` is an abstract specification: the part of an instance's spec and
status that the token controller and the auth server read, and the ways it may
change. The instance actions of `TokenRequest` are its steps (proved both ways), and
`ByocLifecycle` implements it (`ImplementsView`), so what is shown about tokens rests on
what the other controller really does.

`Slugs` is the slug policy: which entries are valid, what `Select` answers, what
makes a policy unambiguous. A slug is a sequence of symbols, so that one may be a
prefix of another; a derived slug is the reserved prefix and the UID.

`ModelSettings` is the model catalogue, the overrides of an instance, the provider's
ceilings and `check`.

`Operator` is one replica from start to exit. `main` reads the policy entry by entry
(`ParseEntry`), validates the ceilings and calls `runOperator`: the manager, the auth
goroutine with its buffered channel, the shutdown callback of `Server.Start`, the
signal, the lease and some requests. While the replica leads, a tenant edits the
settings of an instance (`spec`) and the controller works on it in passes: a pass reads
and checks the settings (`CheckSettings`), and several calls later writes the workload
from the copy it read (`ReconcileModel`) or fails before that (`PassFails`). `queued`
says whether another pass is due; after a rejection it is not.

`HostedRoute` is the LLMInstance controller for hosted instances: several instances
(`obj`), the five objects named after each (`live`), the cache of three of them
(`cache`), an Ingress under another name (`other`), the policy of the running process
and the one worker `w` with its copy of the instance. It starts with nothing, or with
instances of the earlier version that have an endpoint and no recorded slug. The
customer's cluster is one step here, as the hosted workload is one in `ByocLifecycle`.

`MC*` modules hold the sets for TLC, `*Proofs` modules the theorems.
Operators introduced as mutants are not part of the models: each is a plausible
mistake in the definition after it that some property must notice.

How they fit together: `TokenRequest` is composed with the places that accept keys in
`CredentialFlow`, and with the instance's controller through `InstanceView`.
`Operator` and `HostedRoute` share `Slugs`: the former shows that the policy a process
runs with is well formed, the latter assumes that. `HostedRoute` composes the route with
the auth server's tests of the instance (`Admits`). `ByocLifecycle` and `ByocTLS` are
composed only by their reading: `Certificate` in the former is the Certificate object,
whose Secrets, with the cache they are read through, are in the latter only.

### Correspondence

`PROJECT.json` maps each definition to its lines. Where handlers are split:

* `TokenRequest`: `Reconcile` (reads and branches), `EnsureFinalizer`,
  `FinalizeTokenRequest` and `RemoveFinalizer` (delete, then up to three updates),
  `InvalidateTokenEndpoint` or `EnsureSecret` (write of the Secret),
  `TouchAPITokenRequest`, `UpdateStatus`. Cached reads with no write between them
  are one step, since the three caches advance independently.
* `ByocLifecycle`: one action per remote or local write of
  `cleanupChangedBYOCTarget`, `cleanupBYOC`, `reconcileBYOC`,
  `reconcileBYOCWorkload` and `finalizeLLMInstance`. `FailStatus` is the status
  write that follows an error, `Fail` decides whether there is one.
* `ByocTLS`: one action per call of `reconcileBYOCManagedCertificate`,
  `reconcileBYOCTLSSecret` and `cleanupBYOCManagedTLS`. `StartPass` enters at the
  call of the first, or at cleanup.
* `HostedRoute`: one action per call of `Reconcile`'s hosted branch, named after it;
  `reconcileIngress` is its route check (`CheckSlugRoute` at `recheck`) and its write
  (`ReconcileIngress`); `rejectSlug` is the deletion of the route and the status write;
  `ensureSlug` is the Patch and the read-back. `Gate` is the chain of conditions between
  the auth Middleware and the route.
* `Operator`: one action per step that another goroutine can observe: a return from a
  Start function, a channel operation, a cancellation, `stopShutdown`.

### Abstractions

* A URL is the audience it leads to. A slug is the UID it is a digest of. Secret
  content is a key number; X.509 validation is "newer than the newest expired pair".
* `ready` of an instance in `TokenRequest` joins the conditions that the controller
  tests together. `UpdateStatus` writes nothing when nothing changes, except that
  the condition's timestamp may have moved on by a second (`late`).
* `HostedRoute` reduces an object to its owner and what the controller sets in it: the
  model of a Deployment and whether it is rolled out, the slug of an Ingress or strip
  Middleware, the instance and slug of an auth Middleware. A read from the API server
  is joined with the write based on it, since a change in between makes the write fail.
  Copies carry no versions: a cached copy equal to the stored object counts as up to
  date. UIDs are numbered by name and never used again. Extra Ingress annotations,
  which make every pass write the Ingress, and clusters without Traefik's Middleware
  type are left out, and so is a schema that prunes `status.slug`.
* `RouteAssumption`: policies are well formed, and two policies never review different
  legacy slugs for the same instance. Both are what an operator's staff must do; the
  first is enforced by `Parse`.
* `Operator` reads a policy file as a sequence of entries; one that is missing or no
  JSON document is `None`. The lease may be withheld for ever. A second signal, which
  ends the process at once, is the library's and left out.
* One kubeconfig per API server; changed credentials for the same API server are not
  modelled. Nor are a recorded target without identity (an upgrade from versions
  before target identities) and re-creation of an instance in `ByocLifecycle`.
* `Deployment` stands for the Deployment, the key Secret and the proxy ConfigMap,
  which are created and deleted together.
* `ByocLifecycle` and `ByocTLS` have no work queue: every exit of those handlers
  requeues, returns an error or has written the instance, and Ready instances are
  reconciled every 30 seconds. The three-conflict exit of the finalizer relies on
  the event of the write that conflicted.
* A failed call may not have happened (`CallFails`). A call that took effect but
  whose answer was lost equals a restart after the step.

## Runs

Deadlock checking is off where the environment's bounds let a settled system stop;
it is on in `tls`.

| Run | Instance | States | Checks |
|---|---|---|---|
| `token` | 4 budgets over 2 instances and 1 target: 2 request edits and 1 instance edit; or 1 instance with 1 or 2 edits, 1 request edit, and a Secret edit, a fault, or both | 1,075,233 | types, `ReadyInv`, `ReadyNamesTheInstance`, `OnlyOwnSecretChanged`, `Converges` |
| `flow` | 2 instances, 2 targets; 1 instance and 3 instance edits, or 2 instances with 1 instance edit and 1 request edit | 752,716 | `TokenInv`, `FlowInv`, `KeyFollowsBinding`, `EndpointMatchesKey`, `RotationMeansRebinding`, `OneAudiencePerKey`, `AcceptedAsMinted`, `KeyFileIsForTarget`, `PublishedKeysWork` |
| `lifecycle` | 2 API servers, lagging cache; 1 reference, 2 edits and 1 fault, or 2 references and 2 edits | 935,126 | types, `ObjectsAreRecorded`, `CredentialsKept`, `TeardownInOrder`, `ImplementsView`, `Converges` |
| `tls` | 3 key pairs, 2 changes of mind, 2 faults, lagging cache | 226,780 | types, `TLSInv`, `CleanupEndsIssuance`, `ProtectedBeforeSent`, `TLSConverges` |
| `operator` | all files of up to 3 of 8 entries, 5 ceilings, 3 settings of an instance, 2 requests | 109,264 | types, `ParsedExactly`, `SlugsDisjoint`, `ExitAfterCleanup`, `ExitCodeTells`, `StopsTogether`, `AuthOnEveryReplica`, `OnlyCheckedApplied`, `AdmittedIsApplied` |
| `hosted_route` | 2 names with 2 UIDs each, 2 policies, 2 other Ingresses, lagging caches; 1 name, 2 edits and 1 fault, or 2 names with 1 edit or 2 faults | 405,130 | types, `RoutesGuarded`, `OnlyOwnObjects`, `NoOverlapCreated`, `SlugKept`, `Converges` |

Where a run has several budgets, an initial state picks one: the run explores each of
them, without the product of all disturbances.

Why these bounds: three instance edits take an instance from hosted to a cluster or
back while keys and key files follow, or delete and recreate it; retargeting moves a
request between instances on two clusters. One instance that moves from one cluster to
the other takes more steps than TLC can follow in the composition; the theorems of
`CredentialFlowProofs` have no such bound. Two request
edits retarget there and back, or delete and recreate; two lifecycle edits move and
undo a move; one fault at any step is what retries have to repair; three key pairs
give an issuance, a renewal and an expiry. A key may be a legacy one initially, so
adoption and its races need no edits of their own. Clashes between policy entries are
between two of them, and the third shows that the order does not matter. Two edits on
a hosted instance delete and recreate it, or let an obstacle come and go; two faults
change the policy there and back. The slugs are `x`, its extension `xy`, and derived
ones, so every kind of overlap occurs. Ceilings are absent, low, at their maximum and
beyond it, the settings of an instance those of a model with and without limits of its
own and raised ones, so that edits lead from admitted settings to rejected ones and
back at any point of a pass; the workload may be one that an earlier process left.

`CredentialsKept` excepts what a lagging Secret cache is known to do (the history
variable `misled`; see the next two sections), and `RoutesGuarded` instances that were
renamed (`hosted_rename`).

### Runs that find a disagreement

Each of these checks one statement of a comment, test or document of the repository
and TLC shows an execution of the code's logic that breaks it.

* `lifecycle_rename`: `clusterRef` is renamed to another Secret with the same
  kubeconfig. One pass deletes the credentials copy and then finds the deleted copy
  in its cache, so the target is recorded without credentials and later passes stop.
* `lifecycle_deletion`: a restart or failed update between dropping the credentials
  copy and removing the finalizer leaves an instance whose deletion cannot complete.
* `lifecycle_undone_move`: an undone move publishes the address of a Service that is
  being deleted.
* `tls_first_issuance`: a Certificate deleted before the label handshake, with its
  first issuance under way, leaves a Secret that cleanup refuses to identify.
* `tls_cleanup`: once the Certificate is gone, cleanup looks for its Secrets in a cache.
  One that was written last and is not shown there yet is taken for deleted, and the
  cleanup reports success (`CleanupIsComplete`), although `docs/byoc-https-reuse.md` says
  that it waits for Secret deletion as well. What does hold then, that issuance has ended
  and the customer cluster is empty, is `CleanupEndsIssuance` in `tls`.
* `hosted_rename`: an instance of the earlier version whose entry says `derive` is
  refused because it has an endpoint; the refusal clears the endpoint, and the retry
  gives it the derived slug.

### Fairness

Weak fairness of the controllers (`WF_vars(Controller)`): the work queue retries
after every error and requeue, and one worker takes what is queued. In `HostedRoute`
also strong fairness of `Reconcile(n)`, since the queue serves the instances in turn;
rejected settings are not queued again, and no property needs that they are. In
`CredentialFlow` the key file is written again only for a Ready BYOC instance: its passes
get as far as `reconcileBYOCKeySecret` and are repeated every 30 seconds, whereas an
instance that is not Ready may fail before; `PublishedKeysWork` speaks of Ready ones.
In `Operator`, weak fairness of each goroutine, of the return of a cancelled manager and
of the pass that is due (`CheckSettings`), and strong fairness of `ReconcileModel`: passes
that fail are repeated, and what makes them fail is not there for ever. Nothing of the lease, of requests (a request may hang: the shutdown timeout cuts it off)
or of failures. Weak fairness of
the caches, the garbage collector, the controllers of the customer cluster and of
Gardener, and of the end of an outage. Users, failures and time are never obliged to
act; the bounds make their interference finite, so that the convergence properties
say: after the last disturbance, whatever the state it left, the system settles.

### What convergence excludes

`ByocLifecycle!Converges` accepts the states the code does not leave by itself:
`Blocked` (the cluster behind the record was replaced, where the code refuses by
design), rejected settings (which also postpone a pending cleanup), and `Stranded`
(the finding of `lifecycle_deletion`, and what a stale cache did to the credentials).
`HostedRoute!Converges` accepts an instance without route and endpoint where the policy
refuses it or somebody else holds one of its names or a conflicting route. `TLSConverges` accepts a revoked Certificate,
`Unidentifiable` (the finding of `tls_first_issuance`) and `Occupied`: a cleanup
called off after the Certificate went leaves Secrets whose names a new Certificate
may not take, until the target is left again.

Other behaviour seen while modelling and left as it is:

* A retarget a, b, a within the lag of the Secret cache reports Ready while the Secret
  is still bound to b, until the cache catches up (see `ReadyNamesTheInstance`).
* A credentials copy may be left over after a conflict when the target is recorded,
  which does no harm. Quick renames with a lagging cache may leave the copy of another
  cluster, or none (`misled`).
* `finalizeLLMInstance` calls the remote cleanup "best-effort" although it blocks the
  deletion.
* An instance switched from hosted to BYOC keeps its hosted workload and Ingress; the
  auth server denies what comes through them. Rejected settings leave the route, too.
* A stale Deployment in the cache may report Ready before a new model is rolled out, and
  a stale Ingress may let a pass publish the endpoint of a route that was just withdrawn;
  the next pass repairs both.
* `status.activeBYOCSlug` is never cleared.
* A listener that fails while it serves disarms the shutdown callback, so active requests
  are dropped at the exit (see `ExitAfterCleanup`).

## Proofs

All theorems hold for every value of the constants that satisfies the named assumption
of the module: sets of instances, targets, references, API servers, policies, files and
requests of any size, and any bounds. An `ASSUME` says little more than that the special
values differ from the others (the audience of a legacy key from every audience, an
absent exit code from 0 and 1); `RouteAssumption` also states what is said above of
policies, and `OperatorAssumption` that entries, ceilings and settings have their types.

Every safety property that a passing run checks is a theorem.

`TokenRequestProofs`:

* `TypeCorrect`, `KeysFollowBindings` (`KeyFollowsBinding`), `EndpointsMatchKeys`
  (`EndpointMatchesKey`), `ReadyNamesInstances` (`ReadyNamesTheInstance`);
  `OnlyOwnSecrets` and `RotationsRebind`, two action properties.
* `Invariance` and `ReadyInvariance`: the inductive invariants `TokenInv` and `ReadyInv`.
* `InstancesFollowView` and `ViewStepsHappen`: apart from creation, the environment
  changes an instance just as `InstanceView` allows. With `LifecycleImplementsView` this
  joins the two controllers: the token theorems assume of instances what the LLMInstance
  controller guarantees, and cover every step that its model takes.

`KeyFollowsBinding` speaks of the cached Secret as well as the stored one, since the next
Secret is computed from the cached one; and an accepted write replaces the stored
Secret, so the proof needs that a cached Secret with the stored version *is* the stored
Secret, and that versions only grow. `EnsureSecret` publishes a URL for the instance it
read, so it also needs that this instance was serving, or the rotation might have
declined. `TokenInv` is the conjunction; `flow` checks it too. The argument:
rotation changes key and binding together and appends the new binding to `mint`
(`RotateDerives`, `DesiredDerives`, `MintGrows`); a Secret that was good stays good while
`mint` grows (`GoodStays`); a write replaces a good Secret by a good one
(`WriteKeepsGood`); all other steps copy or remove Secrets.

`ReadyNamesTheInstance` relates the request's status to the Secret, which two writes of
one pass bring about with users in between. `ReadyInv` therefore follows versions through
the pass: a status write that is accepted was computed from the request as it is stored
(`VersionInv`), and as long as the Secret has the version that the pass wrote or found,
its URL is what the pass computed for the instance the request names (`HandlerInv`).

`CredentialFlowProofs`:

* `KeysHaveOneAudience` (`OneAudiencePerKey`), `KeysAcceptedAsMinted`
  (`AcceptedAsMinted`), `KeyFilesAreForTargets` (`KeyFileIsForTarget`), and
  `FlowInvariance` for the invariant `FlowInv`.
* `FlowImplementsTokens`: the composition implements `TokenRequest`, so all that is
  proved of that holds in it.

The auth server reads the instance, the Secret and its owner at three moments. What it has
read binds it before it accepts, so the invariant counts the request under way with the
accepted ones (`Vouched`). The history `mint` names the audience of each key but a legacy
one; such a key is adopted by the first instance that finds it, and `FlowInv` adds that
while the Secret holds it, the Secret names the audience it was vouched for.

`ByocLifecycleProofs`:

* `TypeCorrect`, `NothingLeftBehind` (`ObjectsAreRecorded`), `TeardownOrdered`
  (`TeardownInOrder`), `CredentialsOutliveObjects` (`CredentialsKept`) and
  `LifecycleImplementsView`: `Spec => ImplementsView`.

That objects are recorded is not inductive, because the worker acts on a copy of the
instance it read long ago. `IInv` says what it still knows at each step (`WorkerInv`):
its record is the stored one except while a target is being forgotten or recorded
(`AheadInv`), nothing is left where it is about to forget, and a copy that nobody has
outdated is the instance (`FreshInv`); `UidBound` keeps incarnations within their bound.
From it, only the cleanup takes objects down, after the checks that `TeardownInOrder`
asks for (`OnlyCleanupTakesDown`), and each step maps to a step or a stutter of
`InstanceView` under the refinement mapping `View` (`ControllerView`, `UserView`).
For `CredentialsKept`, `CredentialsInv` adds that a worker past `ensureCachedCredentials`
has the credentials of the cluster it provisions; the copy is dropped only after the
checks that nothing is left there.

`ByocTLSProofs`:

* `CleanupStopsIssuance` (`CleanupEndsIssuance`), `SentOnlyProtected`
  (`ProtectedBeforeSent`), `TLSTypes`, and `TLSInvariance` for the invariant `TLSInv`.
* `CleanupCompletes`: `CleanupIsComplete` holds if the cache does not lag
  (`ASSUME ~CacheLag`). So the lag, which `tls_cleanup` needs, is the only obstacle.

`TLSInv` has three parts, besides the types and what `CacheLag` means. `TurnInv` counts: a new Certificate needs a change of mind of the
user, so UIDs stay within bounds. `GoneInv` says that nothing is issued for a Certificate
that is gone, and that it stays gone from the moment the cleanup finds it so to the end of
that pass. `SerialInv` orders the key pairs: the kept one is no newer than any view of the
issued Secret, what is being issued is no older, and a stale cache shows no copy newer than
the kept one while there is a Certificate. Without the last, a copy read before a cleanup
could pass for protected after it.

`SlugsProofs` and `OperatorProofs`:

* `SelectedDisjoint`: under a well-formed policy two instances' slugs do not overlap. A
  derived slug starts with the reserved prefix, which overlaps no legacy slug, and two
  derived ones differ at the same position.
* `ExitCodeIsRight` (`ExitCodeTells`) and `CleanupBeforeExit` (`ExitAfterCleanup`) from
  `ProcessInv`: what the main goroutine, the auth goroutine and the callback know of each
  other, in particular that the server is closing just when the callback runs or has run,
  only after cancellation, and that the report tells of a failed listener.
* `ParseIsExact` (`ParsedExactly`) from `ParseInv`: the policy made so far has just the
  entries read so far, which are valid and pairwise unambiguous. `SlugsNeverOverlap`
  (`SlugsDisjoint`) follows with `SelectedDisjoint`.
* `CeilingsHold` (`OnlyCheckedApplied`) from `PassInv`: the copy that a pass holds was
  admitted by `check` under the ceilings of this process, whatever the tenant has asked
  for since. And `OperatorTypes` (`TypeOK`).

`HostedRouteProofs`:

* `TypeCorrect`, `RequestsReachTheirInstance` (`RoutesGuarded`), `NothingElseIsTouched`
  (`OnlyOwnObjects`), `NoRouteAcrossAnother` (`NoOverlapCreated`), `RecordedSlugStays`
  (`SlugKept`).

The invariant relates three generations of knowledge: objects of an instance carry its
name and no later UID (`LiveInv`), the Ingress and the auth Middleware of a name never
belong to two instances and are at the owner's slug (`GuardInv`), and what the worker
selected and recorded still is what the policy selects (`WorkInv`). `RouteInv` closes the
gap between the conflict test and the write: only this worker lays routes of instances,
so what the test found among them still holds at the write. A stale cache does no harm,
as a write based on it fails unless the cached object is the stored one.

Only model-checked: all liveness (`Converges` in three modules, `TLSConverges`,
`PublishedKeysWork`, `StopsTogether`, `AuthOnEveryReplica`, `AdmittedIsApplied`), which needs fairness and is
outside the proof system's reach; and the runs that find a disagreement, where a
counterexample is the result. Of the inductive invariants the runs check `TokenInv`,
`ReadyInv`, `FlowInv` and `TLSInv` themselves; of those that the proof modules define
(`IInv`, `CredentialsInv`, `ProcessInv`, `ParseInv`, `PassInv`, `RouteInv` and its parts) only the
consequences.

## Not modelled

* Charts, manifests and scripts (no state), generated deep copies, the HTTPS pilot under
  `test/`, the sync agent and the portal (external).
* `cmd/main.go` besides what `Operator` has: flags, telemetry, the labelling client, the
  registration of controllers. Configuration that runs once.
* Text: URLs, annotation values, container specs and probes, JSON decoding, X.509
  validation, header and query parsing. The models keep what they decide.
* Rotation of the credentials for the same API server, a recorded target without identity
  (upgrade of a BYOC instance), a changed TLS domain, and foreign objects of the same name
  on the customer cluster. Each adds a dimension to `ByocLifecycle`, whose state space
  leaves no room for it in one run.
* Several replicas with a lease that changes hands while a former leader still acts:
  controller-runtime ends the process that loses the lease.
